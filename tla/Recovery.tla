------------------------------ MODULE Recovery ------------------------------
(***************************************************************************)
(* The loss-recovery manager of the realtime engine, for one account and   *)
(* strategy, with what drives it: signals that it lets through become open *)
(* positions, closing positions come back as TRADE_RESULT messages, each   *)
(* result is recorded and a goroutine saves the new record, and a restart  *)
(* loads whatever rows trading.recovery_states holds.                      *)
(*                                                                         *)
(* Records of different keys share only the mutex, so one key is enough.   *)
(* Calls says which further operations of the package are called; the      *)
(* engine as shipped calls none of them and passes no CloseEventID.        *)
(***************************************************************************)
EXTENDS Integers, Sequences, FiniteSets

CONSTANTS
    MaxDailyLossPercent,
    MaxDailyLossCount,
    MaxConsecutiveLosses,
    RecoveryMaxTrades,
    RecoveryExitAfterWins,
    RecoverySize,     \* RecoverySizeMultiplier, in percent
    PnLs,             \* what a trade may close with, in percent of equity
    EquityKnown,      \* whether StartingEquity is set
    CloseIds,         \* whether results carry a CloseEventID
    Calls,            \* operations called besides the engine's own
    Faults,           \* the failures a run lets happen
    NoRec,            \* no record for the key, no row for the day
    MaxOpen,          \* model bound on positions open at a time
    MaxTrades,        \* model bound on trades
    MaxDups,          \* model bound on repeated results
    MaxSaves,         \* model bound on saves under way
    MaxDay,           \* model bound on trading days
    MaxRestarts       \* model bound on engine restarts

States == {"NORMAL", "RECOVERY", "HALTED", "DAILY_LIMIT"}

Days == 0..MaxDay

\* A StateRecord: over says that HaltUntil has passed, cooling that
\* CooldownUntil has not.
Record == [state : States, streak : Nat, losses : Nat, pnl : Int, taken : Nat,
           wins : Nat, day : Days, over : BOOLEAN, cooling : BOOLEAN]

ASSUME RecoveryAssumption ==
    /\ MaxDailyLossPercent \in Nat \ {0}
    /\ MaxDailyLossCount \in Nat \ {0}
    /\ MaxConsecutiveLosses \in Nat \ {0}
    /\ RecoveryMaxTrades \in Nat \ {0}
    /\ RecoveryExitAfterWins \in Nat \ {0}
    /\ RecoverySize \in 0..100
    /\ PnLs \subseteq Int
    /\ EquityKnown \in BOOLEAN
    /\ CloseIds \in BOOLEAN
    /\ Calls \subseteq {"INCREMENT", "COOLDOWN", "CLEAR", "RESET"}
    /\ Faults \subseteq {"DUPLICATE", "STORE_FAILS", "SAVE_FAILS", "LOAD_FAILS"}
    /\ NoRec \notin Record
    /\ MaxOpen \in Nat
    /\ MaxTrades \in Nat
    /\ MaxDups \in Nat
    /\ MaxSaves \in Nat \ {0}
    /\ MaxDay \in Nat
    /\ MaxRestarts \in Nat

VARIABLES
    day,        \* the UTC trading day
    rec,        \* Manager.states[key]
    processed,  \* Manager.processedCloseEvents
    saves,      \* records in goroutines that have yet to save them
    table,      \* rows of trading.recovery_states for the key, by trading_day
    open,       \* positions that follow a signal let through
    closed,     \* closed[n]: what the n-th closed trade made
    dups,       \* repeated results so far
    today,      \* losing trades stored today (history)
    restarts    \* engine restarts

vars == <<day, rec, processed, saves, table, open, closed, dups, today, restarts>>

TypeOK ==
    /\ day \in Days
    /\ rec \in Record \cup {NoRec}
    /\ processed \in SUBSET Nat
    /\ saves \in SUBSET Record
    /\ table \in [Days -> Record \cup {NoRec}]
    /\ open \in 0..MaxOpen
    /\ closed \in Seq(PnLs)
    /\ dups \in 0..MaxDups
    /\ today \in Nat
    /\ restarts \in 0..MaxRestarts

Init ==
    /\ day = 0
    /\ rec = NoRec
    /\ processed = {}
    /\ saves = {}
    /\ table = [d \in Days |-> NoRec]
    /\ open = 0
    /\ closed = <<>>
    /\ dups = 0
    /\ today = 0
    /\ restarts = 0

-----------------------------------------------------------------------------
(* The state machine.                                                      *)

\* getOrCreateStateLocked.
GetOrCreate(r, d) ==
    IF r # NoRec THEN r
    ELSE [state |-> "NORMAL", streak |-> 0, losses |-> 0, pnl |-> 0, taken |-> 0,
          wins |-> 0, day |-> d, over |-> FALSE, cooling |-> FALSE]

\* Mutant: the limit is not lifted.
RolloverKeepsLimit(r, d) ==
    IF r.day = d THEN r
    ELSE [r EXCEPT !.day = d, !.losses = 0, !.pnl = 0, !.taken = 0, !.wins = 0]

\* A new trading day resets the daily counters and lifts the daily limit.
Rollover(r, d) ==
    IF r.day = d THEN r
    ELSE [r EXCEPT !.day = d, !.losses = 0, !.pnl = 0, !.taken = 0, !.wins = 0,
                   !.state = IF @ = "DAILY_LIMIT" THEN "NORMAL" ELSE @]

\* Mutant: a win takes one loss off the streak rather than ending it.
CountDecrements(r, p) ==
    [r EXCEPT !.pnl = @ + p,
              !.streak = IF p < 0 THEN @ + 1 ELSE IF p > 0 THEN @ - 1 ELSE @,
              !.losses = IF p < 0 THEN @ + 1 ELSE @,
              !.wins = IF p > 0 /\ r.state = "RECOVERY" THEN @ + 1 ELSE @]

\* Daily PnL, and the counters of losses and of wins in recovery.
Count(r, p) ==
    [r EXCEPT !.pnl = @ + p,
              !.streak = IF p < 0 THEN @ + 1 ELSE IF p > 0 THEN 0 ELSE @,
              !.losses = IF p < 0 THEN @ + 1 ELSE @,
              !.wins = IF p > 0 /\ r.state = "RECOVERY" THEN @ + 1 ELSE @]

LossPercent(r) == IF EquityKnown THEN r.pnl ELSE 0

\* Either circuit breaker of the day.
LimitReached(r) ==
    \/ LossPercent(r) <= -MaxDailyLossPercent
    \/ r.losses >= MaxDailyLossCount

\* Recovery is left after enough wins, or ends in a halt.
LeaveRecovery(r) ==
    CASE r.wins >= RecoveryExitAfterWins ->
           [r EXCEPT !.state = "NORMAL", !.taken = 0, !.wins = 0, !.streak = 0]
      [] r.wins < RecoveryExitAfterWins /\ r.taken >= RecoveryMaxTrades ->
           [r EXCEPT !.state = "HALTED", !.over = FALSE]
      [] OTHER -> r

\* Mutant: consecutive losses enter recovery from any state, before the limit
\* is looked at.
TransitionRecoveryFirst(r) ==
    CASE r.streak >= MaxConsecutiveLosses -> [r EXCEPT !.state = "RECOVERY"]
      [] r.streak < MaxConsecutiveLosses /\ LimitReached(r) ->
           [r EXCEPT !.state = "DAILY_LIMIT"]
      [] OTHER -> r

\* Mutant: the limit lasts only as long as its condition.
TransitionLimitLapses(r) ==
    IF LimitReached(r) THEN [r EXCEPT !.state = "DAILY_LIMIT"]
    ELSE [r EXCEPT !.state = "NORMAL"]

\* transitionLocked after the check for an expired halt.
Advance(r) ==
    CASE LimitReached(r) -> [r EXCEPT !.state = "DAILY_LIMIT"]
      [] ~LimitReached(r) /\ r.state = "NORMAL" /\ r.streak >= MaxConsecutiveLosses ->
           [r EXCEPT !.state = "RECOVERY", !.taken = 0, !.wins = 0]
      [] ~LimitReached(r) /\ r.state = "RECOVERY" -> LeaveRecovery(r)
      [] OTHER -> r

\* transitionLocked: a halt that has not expired ends the transition.
Transition(r) ==
    CASE r.state = "HALTED" /\ ~r.over -> r
      [] r.state = "HALTED" /\ r.over -> Advance([r EXCEPT !.state = "RECOVERY",
                                                                !.over = FALSE])
      [] OTHER -> Advance(r)

\* Mutant: only a halt blocks.
AllowedUnlessHalted(r, good) == r # NoRec => r.state # "HALTED"

\* CheckSignal for a signal that does (good) or does not meet the three
\* thresholds of recovery mode.
Allowed(r, good) ==
    r # NoRec =>
       /\ CASE r.state = "HALTED"      -> r.over
            [] r.state = "DAILY_LIMIT" -> FALSE
            [] r.state = "RECOVERY"    -> good /\ r.taken < RecoveryMaxTrades
            [] r.state = "NORMAL"      -> TRUE
       /\ ~r.cooling

\* GetSizeMultiplier, in percent.
Size(r) ==
    IF r = NoRec \/ r.state = "NORMAL" THEN 100
    ELSE IF r.state = "RECOVERY" THEN RecoverySize ELSE 0

-----------------------------------------------------------------------------
(* The engine: decisions and trade results.                                *)

\* A signal passes the recovery gate of DecideWithAdvanced and is traded.
OpenTrade(good) ==
    /\ open < MaxOpen
    /\ open + Len(closed) < MaxTrades
    /\ Allowed(rec, good)
    /\ open' = open + 1
    /\ UNCHANGED <<day, rec, processed, saves, table, closed, dups, today, restarts>>

\* Mutant: the close event is not remembered.
RecordTradeResultForgets(n, p) ==
    /\ rec' = Transition(Count(Rollover(GetOrCreate(rec, day), day), p))
    /\ saves' = saves \cup {rec'}
    /\ UNCHANGED processed

\* The engine's call of RecordTradeResult for result n with outcome p, and the
\* goroutine that is to save the record.
RecordTradeResult(n, p) ==
    IF CloseIds /\ n \in processed
    THEN /\ saves' = IF rec = NoRec THEN saves ELSE saves \cup {rec}
         /\ UNCHANGED <<rec, processed>>
    ELSE /\ rec' = Transition(Count(Rollover(GetOrCreate(rec, day), day), p))
         /\ processed' = IF CloseIds THEN processed \cup {n} ELSE processed
         /\ saves' = saves \cup {rec'}

\* A position closes, its result is stored in trading.trade_results and then
\* recorded.
TradeResult(p) ==
    /\ open > 0
    /\ Cardinality(saves) < MaxSaves
    /\ open' = open - 1
    /\ closed' = Append(closed, p)
    /\ today' = IF p < 0 THEN today + 1 ELSE today
    /\ RecordTradeResult(Len(closed) + 1, p)
    /\ UNCHANGED <<day, table, dups, restarts>>

\* The same result arrives again (reconnect, EA restart); its row is updated.
Redeliver(n) ==
    /\ "DUPLICATE" \in Faults
    /\ dups < MaxDups
    /\ Cardinality(saves) < MaxSaves
    /\ dups' = dups + 1
    /\ RecordTradeResult(n, closed[n])
    /\ UNCHANGED <<day, table, open, closed, today, restarts>>

\* The insert into trade_results fails: the result is not recorded.
StoreFails ==
    /\ "STORE_FAILS" \in Faults
    /\ open > 0
    /\ open' = open - 1
    /\ UNCHANGED <<day, rec, processed, saves, table, closed, dups, today, restarts>>

\* SaveRecoveryState: upsert on the trading day.  Goroutines run in any order.
Save(r) ==
    /\ r \in saves
    /\ table' = [table EXCEPT ![r.day] = r]
    /\ saves' = saves \ {r}
    /\ UNCHANGED <<day, rec, processed, open, closed, dups, today, restarts>>

SaveFails(r) ==
    /\ "SAVE_FAILS" \in Faults
    /\ r \in saves
    /\ saves' = saves \ {r}
    /\ UNCHANGED <<day, rec, processed, table, open, closed, dups, today, restarts>>

\* RestoreStates puts the rows into the map in the order they are loaded,
\* which the query leaves open: the last row of the key stays.
Restored == IF \A d \in Days : table[d] = NoRec THEN {NoRec}
            ELSE {table[d] : d \in Days} \ {NoRec}

EngineRestart ==
    /\ restarts < MaxRestarts
    /\ restarts' = restarts + 1
    /\ rec' \in Restored \cup (IF "LOAD_FAILS" \in Faults THEN {NoRec} ELSE {})
    /\ processed' = {}
    /\ saves' = {}
    /\ UNCHANGED <<day, table, open, closed, dups, today>>

-----------------------------------------------------------------------------
(* Operations of the package that the engine does not call.                *)

\* The counter is only compared with RecoveryMaxTrades, and stops there.
IncrementRecoveryTrade ==
    /\ "INCREMENT" \in Calls
    /\ rec # NoRec
    /\ rec.taken < RecoveryMaxTrades
    /\ rec' = [rec EXCEPT !.taken = @ + 1]
    /\ UNCHANGED <<day, processed, saves, table, open, closed, dups, today, restarts>>

SetCooldown ==
    /\ "COOLDOWN" \in Calls
    /\ rec # NoRec
    /\ rec' = [rec EXCEPT !.cooling = TRUE]
    /\ UNCHANGED <<day, processed, saves, table, open, closed, dups, today, restarts>>

ClearHalt ==
    /\ "CLEAR" \in Calls
    /\ rec # NoRec
    /\ rec' = [rec EXCEPT !.state = "NORMAL", !.over = FALSE, !.streak = 0,
                          !.taken = 0, !.wins = 0]
    /\ UNCHANGED <<day, processed, saves, table, open, closed, dups, today, restarts>>

\* RunDailyReset of the maintenance scheduler.
ResetDaily ==
    /\ "RESET" \in Calls
    /\ rec # NoRec
    /\ rec.day # day
    /\ rec' = Rollover(rec, day)
    /\ UNCHANGED <<day, processed, saves, table, open, closed, dups, today, restarts>>

-----------------------------------------------------------------------------
(* Time.                                                                   *)

NextDay ==
    /\ day < MaxDay
    /\ day' = day + 1
    /\ today' = 0
    /\ UNCHANGED <<rec, processed, saves, table, open, closed, dups, restarts>>

\* HaltUntil passes.
HaltExpires ==
    /\ rec # NoRec
    /\ rec.state = "HALTED"
    /\ ~rec.over
    /\ rec' = [rec EXCEPT !.over = TRUE]
    /\ UNCHANGED <<day, processed, saves, table, open, closed, dups, today, restarts>>

\* CooldownUntil passes.
CooldownExpires ==
    /\ rec # NoRec
    /\ rec.cooling
    /\ rec' = [rec EXCEPT !.cooling = FALSE]
    /\ UNCHANGED <<day, processed, saves, table, open, closed, dups, today, restarts>>

-----------------------------------------------------------------------------
EngineNext ==
    \/ \E good \in BOOLEAN : OpenTrade(good)
    \/ \E p \in PnLs : TradeResult(p)
    \/ \E n \in DOMAIN closed : Redeliver(n)
    \/ StoreFails
    \/ \E r \in saves : Save(r) \/ SaveFails(r)
    \/ EngineRestart

CallsNext == IncrementRecoveryTrade \/ SetCooldown \/ ClearHalt \/ ResetDaily

TimeNext == NextDay \/ HaltExpires \/ CooldownExpires

Next == EngineNext \/ CallsNext \/ TimeNext

Spec == Init /\ [][Next]_vars

\* Days pass, positions are closed in the end, a save ends within its timeout,
\* and a scheduler that is started runs.
Fairness ==
    /\ WF_vars(NextDay)
    /\ WF_vars(\E p \in PnLs : TradeResult(p))
    /\ WF_vars(\E r \in saves : Save(r) \/ SaveFails(r))
    /\ WF_vars(ResetDaily)

FairSpec == Spec /\ Fairness

-----------------------------------------------------------------------------
(* Properties.                                                             *)

\* The daily breaker bounds the damage: however signals, positions and results
\* interleave, a day stores at most as many losing trades as the limit allows
\* plus those that were already open when it was reached, because CheckSignal
\* lets nothing through in DAILY_LIMIT.
LossBudget == today <= MaxDailyLossCount - 1 + MaxOpen

\* "Duplicate broker close events are deduplicated": the record never counts
\* more losses today than there were losing trades.
CountedOnce == rec # NoRec /\ rec.day = day => rec.losses <= today

\* "No martingale": a losing trade never raises the size of the next one on the
\* same day, unless it closes after a halt has expired.
NoEscalation ==
    [][/\ today' > today
       /\ rec # NoRec => rec.day = day /\ ~(rec.state = "HALTED" /\ rec.over)
       => Size(rec') <= Size(rec)]_vars

\* The daily limit blocks the strategy.
Limited == rec # NoRec /\ rec.state = "DAILY_LIMIT"

\* A daily limit, once reached, holds for the rest of its trading day, also
\* when later trades of the day win, and across restarts of the engine
\* ("State survives restart via persistence").
LimitHolds ==
    [][Limited => rec' # NoRec /\ (rec'.day = rec.day => Limited')]_vars

\* The limit is a daily one: it is lifted on a later day ("the canonical daily
\* reset using UTC trading day").
LimitLifts == (Limited /\ rec.day < MaxDay) ~> ~Limited
=============================================================================
