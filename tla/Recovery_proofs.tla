--------------------------- MODULE Recovery_proofs ---------------------------
(***************************************************************************)
(* What the recovery manager guarantees for every limit, every set of      *)
(* outcomes and any number of positions, trades, days and repeated         *)
(* results.  The lemmas say what each step of RecordTradeResult does to a  *)
(* record; the theorems put them together.                                 *)
(***************************************************************************)
EXTENDS Recovery, TLAPS

\* The record after one result.
Recorded(p) == Transition(Count(Rollover(GetOrCreate(rec, day), day), p))

-----------------------------------------------------------------------------
(* The state machine.                                                      *)

\* getOrCreateStateLocked returns the record there is, or an empty one of the
\* day.
LEMMA GetOrCreateFacts ==
    ASSUME NEW r \in Record \cup {NoRec}, NEW d \in Days
    PROVE  /\ GetOrCreate(r, d) \in Record
           /\ r # NoRec => GetOrCreate(r, d) = r
           /\ r = NoRec => /\ GetOrCreate(r, d).state = "NORMAL"
                           /\ GetOrCreate(r, d).losses = 0
                           /\ GetOrCreate(r, d).taken = 0
                           /\ GetOrCreate(r, d).day = d
  BY DEF GetOrCreate, Record, States

\* A rollover dates the record and never engages a limit or a halt.
LEMMA RolloverFacts ==
    ASSUME NEW r \in Record, NEW d \in Days
    PROVE  /\ Rollover(r, d) \in Record
           /\ Rollover(r, d).day = d
           /\ r.day = d => Rollover(r, d) = r
           /\ r.day # d => Rollover(r, d).losses = 0
           /\ r.taken = 0 => Rollover(r, d).taken = 0
           /\ r.state # "HALTED" => Rollover(r, d).state # "HALTED"
<1>1. CASE r.day = d
  BY <1>1 DEF Rollover
<1>2. CASE r.day # d
  <2> DEFINE s == IF r.state = "DAILY_LIMIT" THEN "NORMAL" ELSE r.state
             q == [state |-> s, streak |-> r.streak, losses |-> 0, pnl |-> 0,
                   taken |-> 0, wins |-> 0, day |-> d, over |-> r.over,
                   cooling |-> r.cooling]
  <2>1. s \in States /\ (r.state # "HALTED" => s # "HALTED")
    BY DEF Record, States
  <2>2. Rollover(r, d) = q
    BY <1>2 DEF Rollover, Record
  <2> HIDE DEF s
  <2>3. q \in Record /\ q.day = d /\ q.losses = 0 /\ q.taken = 0 /\ q.state = s
    BY <2>1 DEF Record
  <2>4. QED
    BY <1>2, <2>1, <2>2, <2>3
<1>3. QED
  BY <1>1, <1>2

\* Counting a result adds a loss to the day exactly when the trade lost.
LEMMA CountFacts ==
    ASSUME NEW r \in Record, NEW p \in Int
    PROVE  /\ Count(r, p) \in Record
           /\ Count(r, p).losses = r.losses + (IF p < 0 THEN 1 ELSE 0)
           /\ Count(r, p).day = r.day
           /\ Count(r, p).state = r.state
           /\ Count(r, p).taken = r.taken
<1> DEFINE k == IF p < 0 THEN r.streak + 1 ELSE IF p > 0 THEN 0 ELSE r.streak
           l == IF p < 0 THEN r.losses + 1 ELSE r.losses
           w == IF p > 0 /\ r.state = "RECOVERY" THEN r.wins + 1 ELSE r.wins
           q == [r EXCEPT !.pnl = r.pnl + p, !.streak = k, !.losses = l, !.wins = w]
<1>1. /\ k \in Nat /\ w \in Nat /\ l \in Nat /\ r.pnl + p \in Int
      /\ l = r.losses + (IF p < 0 THEN 1 ELSE 0)
  BY DEF Record
<1>2. Count(r, p) = q
  BY DEF Count
<1> HIDE DEF k, l, w
<1>3. /\ q \in Record
      /\ q.losses = l /\ q.day = r.day /\ q.state = r.state /\ q.taken = r.taken
  BY <1>1 DEF Record
<1>4. QED
  BY <1>1, <1>2, <1>3

\* Past the halt check: the day's counters stay, the limit engages when it is
\* reached and is never left, and without recovery trades there is no halt.
LEMMA AdvanceFacts ==
    ASSUME NEW r \in Record
    PROVE  /\ Advance(r) \in Record
           /\ Advance(r).losses = r.losses
           /\ Advance(r).day = r.day
           /\ LimitReached(r) \/ r.state = "DAILY_LIMIT"
              => Advance(r).state = "DAILY_LIMIT"
           /\ r.taken = 0 /\ r.state # "HALTED"
              => Advance(r).taken = 0 /\ Advance(r).state # "HALTED"
<1>1. CASE LimitReached(r)
  BY <1>1 DEF Advance, Record, States
<1>2. CASE ~LimitReached(r) /\ r.state = "NORMAL"
  BY <1>2 DEF Advance, Record, States
<1>3. CASE ~LimitReached(r) /\ r.state = "RECOVERY"
  <2>1. Advance(r) = LeaveRecovery(r)
    BY <1>3 DEF Advance
  <2>2. /\ r.wins \in Nat /\ RecoveryExitAfterWins \in Nat
        /\ r.taken \in Nat /\ RecoveryMaxTrades \in Nat \ {0}
    BY RecoveryAssumption DEF Record
  <2>3. CASE r.wins >= RecoveryExitAfterWins
    <3> DEFINE q == [r EXCEPT !.state = "NORMAL", !.taken = 0, !.wins = 0, !.streak = 0]
    <3>1. Advance(r) = q
      BY <2>1, <2>2, <2>3 DEF LeaveRecovery
    <3>2. /\ q \in Record /\ q.losses = r.losses /\ q.day = r.day
          /\ q.taken = 0 /\ q.state = "NORMAL"
      BY DEF Record, States
    <3>3. QED
      BY <1>3, <3>1, <3>2
  <2>4. CASE r.wins < RecoveryExitAfterWins /\ r.taken >= RecoveryMaxTrades
    <3> DEFINE q == [r EXCEPT !.state = "HALTED", !.over = FALSE]
    <3>1. Advance(r) = q
      BY <2>1, <2>2, <2>4 DEF LeaveRecovery
    <3>2. q \in Record /\ q.losses = r.losses /\ q.day = r.day
      BY DEF Record, States
    <3>3. r.taken # 0
      BY <2>2, <2>4
    <3>4. QED
      BY <1>3, <3>1, <3>2, <3>3
  <2>5. CASE r.wins < RecoveryExitAfterWins /\ r.taken < RecoveryMaxTrades
    <3>1. LeaveRecovery(r) = r
      BY <2>2, <2>5 DEF LeaveRecovery
    <3>2. QED
      BY <1>3, <2>1, <3>1 DEF Record, States
  <2>6. QED
    BY <2>2, <2>3, <2>4, <2>5
<1>4. CASE ~LimitReached(r) /\ r.state \in {"HALTED", "DAILY_LIMIT"}
  BY <1>4 DEF Advance, Record, States
<1>5. QED
  BY <1>1, <1>2, <1>3, <1>4 DEF Record, States

\* The same of the whole transition.
LEMMA TransitionFacts ==
    ASSUME NEW r \in Record
    PROVE  /\ Transition(r) \in Record
           /\ Transition(r).losses = r.losses
           /\ Transition(r).day = r.day
           /\ r.state = "DAILY_LIMIT" => Transition(r).state = "DAILY_LIMIT"
           /\ r.taken = 0 /\ r.state # "HALTED"
              => /\ Transition(r).taken = 0
                 /\ Transition(r).state # "HALTED"
                 /\ LimitReached(r) => Transition(r).state = "DAILY_LIMIT"
<1>1. CASE r.state # "HALTED"
  BY <1>1, AdvanceFacts DEF Transition
<1>2. CASE r.state = "HALTED" /\ ~r.over
  BY <1>2 DEF Transition
<1>3. CASE r.state = "HALTED" /\ r.over
  <2> DEFINE q == [r EXCEPT !.state = "RECOVERY", !.over = FALSE]
  <2>1. q \in Record /\ q.losses = r.losses /\ q.day = r.day
    BY DEF Record, States
  <2>2. Transition(r) = Advance(q)
    BY <1>3 DEF Transition
  <2> HIDE DEF q
  <2>3. QED
    BY <1>3, <2>1, <2>2, AdvanceFacts
<1>4. QED
  BY <1>1, <1>2, <1>3 DEF Record

\* The operations that change one field.
LEMMA FieldFacts ==
    ASSUME NEW r \in Record
    PROVE  /\ [r EXCEPT !.taken = @ + 1] \in Record
           /\ [r EXCEPT !.taken = @ + 1].state = r.state
           /\ [r EXCEPT !.taken = @ + 1].day = r.day
           /\ [r EXCEPT !.taken = @ + 1].losses = r.losses
           /\ [r EXCEPT !.over = TRUE] \in Record
           /\ [r EXCEPT !.over = TRUE].day = r.day
           /\ [r EXCEPT !.over = TRUE].losses = r.losses
           /\ \A b \in BOOLEAN :
                /\ [r EXCEPT !.cooling = b] \in Record
                /\ [r EXCEPT !.cooling = b].state = r.state
                /\ [r EXCEPT !.cooling = b].day = r.day
                /\ [r EXCEPT !.cooling = b].losses = r.losses
                /\ [r EXCEPT !.cooling = b].taken = r.taken
<1>1. r.taken + 1 \in Nat
  BY DEF Record
<1>2. QED
  BY <1>1 DEF Record

\* Clearing a halt leaves the counters of the day alone.
LEMMA ClearFacts ==
    ASSUME NEW r \in Record
    PROVE  LET q == [r EXCEPT !.state = "NORMAL", !.over = FALSE, !.streak = 0,
                              !.taken = 0, !.wins = 0]
           IN  q \in Record /\ q.day = r.day /\ q.losses = r.losses
  BY DEF Record, States

\* One result, from the record there was to the record there is.
LEMMA RecordedFacts ==
    ASSUME TypeOK, NEW p \in PnLs
    PROVE  /\ Recorded(p) \in Record
           /\ Recorded(p).day = day
           /\ rec # NoRec /\ rec.day = day =>
                /\ Recorded(p).losses = rec.losses + (IF p < 0 THEN 1 ELSE 0)
                /\ rec.state = "DAILY_LIMIT" => Recorded(p).state = "DAILY_LIMIT"
           /\ rec = NoRec \/ rec.day # day =>
                Recorded(p).losses = IF p < 0 THEN 1 ELSE 0
           /\ rec = NoRec \/ (rec.taken = 0 /\ rec.state # "HALTED") =>
                /\ Recorded(p).taken = 0
                /\ Recorded(p).state # "HALTED"
                /\ Recorded(p).losses >= MaxDailyLossCount =>
                     Recorded(p).state = "DAILY_LIMIT"
<1> DEFINE a == GetOrCreate(rec, day)
           b == Rollover(a, day)
           c == Count(b, p)
<1>1. /\ day \in Days /\ p \in Int /\ rec \in Record \cup {NoRec}
  BY RecoveryAssumption DEF TypeOK
<1>2. /\ a \in Record
      /\ rec # NoRec => a = rec
      /\ rec = NoRec => a.state = "NORMAL" /\ a.losses = 0 /\ a.taken = 0 /\ a.day = day
  BY <1>1, GetOrCreateFacts
<1> HIDE DEF a
<1>3. /\ b \in Record
      /\ b.day = day
      /\ a.day = day => b = a
      /\ a.day # day => b.losses = 0
      /\ a.taken = 0 => b.taken = 0
      /\ a.state # "HALTED" => b.state # "HALTED"
  BY <1>1, <1>2, RolloverFacts
<1> HIDE DEF b
<1>4. /\ c \in Record
      /\ c.losses = b.losses + (IF p < 0 THEN 1 ELSE 0)
      /\ c.day = b.day /\ c.state = b.state /\ c.taken = b.taken
  BY <1>1, <1>3, CountFacts
<1> HIDE DEF c
<1>5. Recorded(p) = Transition(c)
  BY DEF Recorded, a, b, c
<1>6. c.losses >= MaxDailyLossCount => LimitReached(c)
  BY DEF LimitReached
<1>7. /\ Transition(c) \in Record
      /\ Transition(c).losses = c.losses
      /\ Transition(c).day = c.day
      /\ c.state = "DAILY_LIMIT" => Transition(c).state = "DAILY_LIMIT"
      /\ c.taken = 0 /\ c.state # "HALTED"
         => /\ Transition(c).taken = 0
            /\ Transition(c).state # "HALTED"
            /\ LimitReached(c) => Transition(c).state = "DAILY_LIMIT"
  BY <1>4, TransitionFacts
<1> HIDE DEF Recorded
<1>8. a.losses = 0 \/ rec # NoRec
  BY <1>2
<1>9. rec = NoRec => b = a
  BY <1>2, <1>3
<1>10. QED
  BY <1>2, <1>3, <1>4, <1>5, <1>6, <1>7, <1>9

\* What a step that records a result leaves in rec and saves.
LEMMA RecordStep ==
    ASSUME TypeOK, NEW n \in Nat, NEW p \in PnLs, RecordTradeResult(n, p)
    PROVE  /\ rec' \in Record \cup {NoRec}
           /\ processed' \in SUBSET Nat
           /\ saves' \in SUBSET Record
           /\ \/ rec' = Recorded(p) /\ (CloseIds => n \notin processed /\ n \in processed')
              \/ rec' = rec /\ CloseIds /\ n \in processed
           /\ processed \subseteq processed'
           /\ processed' \subseteq processed \cup {n}
           /\ ~CloseIds => rec' = Recorded(p)
<1>1. Recorded(p) \in Record
  BY RecordedFacts
<1>2. QED
  BY <1>1 DEF RecordTradeResult, Recorded, TypeOK
-----------------------------------------------------------------------------
(* Types.                                                                  *)

\* The initial record is well typed.
LEMMA TypeInit == Init => TypeOK
  BY RecoveryAssumption DEF Init, TypeOK, Days

\* Every operation keeps the types.
LEMMA TypeNext == TypeOK /\ [Next]_vars => TypeOK'
<1> SUFFICES ASSUME TypeOK, [Next]_vars PROVE TypeOK'
  OBVIOUS
<1> USE RecoveryAssumption
<1>1. ASSUME NEW good \in BOOLEAN, OpenTrade(good) PROVE TypeOK'
  BY <1>1 DEF OpenTrade, TypeOK
<1>2. ASSUME NEW p \in PnLs, TradeResult(p) PROVE TypeOK'
  <2>1. Len(closed) + 1 \in Nat /\ RecordTradeResult(Len(closed) + 1, p)
    BY <1>2 DEF TradeResult, TypeOK
  <2>2. rec' \in Record \cup {NoRec} /\ processed' \in SUBSET Nat /\ saves' \in SUBSET Record
    BY <2>1, RecordStep
  <2>3. closed' \in Seq(PnLs) /\ today' \in Nat /\ open' \in 0..MaxOpen
    BY <1>2 DEF TradeResult, TypeOK
  <2>4. QED
    BY <1>2, <2>2, <2>3 DEF TradeResult, TypeOK
<1>3. ASSUME NEW n \in DOMAIN closed, Redeliver(n) PROVE TypeOK'
  <2>1. n \in Nat /\ closed[n] \in PnLs /\ RecordTradeResult(n, closed[n])
    BY <1>3 DEF Redeliver, TypeOK
  <2>2. rec' \in Record \cup {NoRec} /\ processed' \in SUBSET Nat /\ saves' \in SUBSET Record
    BY <2>1, RecordStep
  <2>3. QED
    BY <1>3, <2>2 DEF Redeliver, TypeOK
<1>4. CASE StoreFails
  BY <1>4 DEF StoreFails, TypeOK
<1>5. ASSUME NEW r \in saves, Save(r) PROVE TypeOK'
  <2>1. r \in Record
    BY <1>5 DEF TypeOK
  <2>2. table' \in [Days -> Record \cup {NoRec}]
    BY <1>5, <2>1 DEF Save, TypeOK
  <2>3. QED
    BY <1>5, <2>2 DEF Save, TypeOK
<1>6. ASSUME NEW r \in saves, SaveFails(r) PROVE TypeOK'
  BY <1>6 DEF SaveFails, TypeOK
<1>7. CASE EngineRestart
  <2>1. rec' \in Record \cup {NoRec}
    BY <1>7 DEF EngineRestart, Restored, TypeOK
  <2>2. QED
    BY <1>7, <2>1 DEF EngineRestart, TypeOK
<1>8. ASSUME rec # NoRec, rec' \in Record,
             UNCHANGED <<day, processed, saves, table, open, closed, dups, today, restarts>>
      PROVE  TypeOK'
  BY <1>8 DEF TypeOK
<1>9. CASE IncrementRecoveryTrade
  <2>1. rec' \in Record
    BY <1>9, FieldFacts DEF IncrementRecoveryTrade, TypeOK
  <2>2. QED
    BY <1>8, <1>9, <2>1 DEF IncrementRecoveryTrade
<1>10. CASE SetCooldown
  <2>1. rec' \in Record
    BY <1>10, FieldFacts DEF SetCooldown, TypeOK
  <2>2. QED
    BY <1>8, <1>10, <2>1 DEF SetCooldown
<1>11. CASE ClearHalt
  <2>1. rec' \in Record
    BY <1>11, ClearFacts DEF ClearHalt, TypeOK
  <2>2. QED
    BY <1>8, <1>11, <2>1 DEF ClearHalt
<1>12. CASE ResetDaily
  <2>1. rec' \in Record
    BY <1>12, RolloverFacts DEF ResetDaily, TypeOK
  <2>2. QED
    BY <1>8, <1>12, <2>1 DEF ResetDaily
<1>13. CASE NextDay
  BY <1>13 DEF NextDay, TypeOK, Days
<1>14. CASE HaltExpires
  <2>1. rec' \in Record
    BY <1>14, FieldFacts DEF HaltExpires, TypeOK
  <2>2. QED
    BY <1>8, <1>14, <2>1 DEF HaltExpires
<1>15. CASE CooldownExpires
  <2>1. rec' \in Record
    BY <1>15, FieldFacts DEF CooldownExpires, TypeOK
  <2>2. QED
    BY <1>8, <1>15, <2>1 DEF CooldownExpires
<1>16. CASE UNCHANGED vars
  BY <1>16 DEF vars, TypeOK
<1>17. QED
  BY <1>1, <1>2, <1>3, <1>4, <1>5, <1>6, <1>7, <1>9, <1>10, <1>11, <1>12, <1>13,
     <1>14, <1>15, <1>16 DEF Next, EngineNext, CallsNext, TimeNext

\* The counters of the manager, the pending saves and the rows they leave keep
\* their types: no counter goes below zero and every row restored is a record.
THEOREM RecoveryTypes == Spec => []TypeOK
  BY TypeInit, TypeNext, PTL DEF Spec

-----------------------------------------------------------------------------
(* The daily limit holds.                                                  *)

\* Without administrators that clear it and restarts that lose it, the daily
\* limit holds for the rest of its day whatever trades close, in whatever order
\* and however often their results arrive: CheckSignal keeps blocking.
THEOREM LimitHoldsTheorem ==
    ASSUME "CLEAR" \notin Calls, MaxRestarts = 0
    PROVE  Spec => LimitHolds
<1> DEFINE Holds == Limited => rec' # NoRec /\ (rec'.day = rec.day => Limited')
<1>1. TypeOK /\ [Next]_vars => Holds
  <2> SUFFICES ASSUME TypeOK, [Next]_vars, Limited PROVE Holds
    OBVIOUS
  <2> USE RecoveryAssumption DEF Limited
  <2>1. rec \in Record /\ rec.state = "DAILY_LIMIT"
    BY DEF TypeOK
  <2>2. ASSUME NEW n \in Nat, NEW p \in PnLs, RecordTradeResult(n, p) PROVE Holds
    <3>1. rec' = rec \/ rec' = Recorded(p)
      BY <2>2, RecordStep
    <3>2. /\ Recorded(p) \in Record /\ Recorded(p).day = day
          /\ rec.day = day => Recorded(p).state = "DAILY_LIMIT"
      BY <2>1, RecordedFacts
    <3>3. QED
      BY <2>1, <3>1, <3>2
  <2>3. ASSUME NEW p \in PnLs, TradeResult(p) PROVE Holds
    BY <2>2, <2>3 DEF TradeResult, TypeOK
  <2>4. ASSUME NEW n \in DOMAIN closed, Redeliver(n) PROVE Holds
    <3>1. n \in Nat /\ closed[n] \in PnLs
      BY DEF TypeOK
    <3>2. QED
      BY <2>2, <2>4, <3>1 DEF Redeliver
  <2>5. CASE UNCHANGED rec
    BY <2>1, <2>5
  <2>6. CASE IncrementRecoveryTrade \/ SetCooldown \/ CooldownExpires
    <3>1. CASE IncrementRecoveryTrade
      <4>1. rec' \in Record /\ rec'.state = rec.state
        BY <2>1, <3>1, FieldFacts DEF IncrementRecoveryTrade
      <4> QED BY <2>1, <4>1
    <3>2. CASE SetCooldown
      <4>1. rec' \in Record /\ rec'.state = rec.state
        BY <2>1, <3>2, FieldFacts DEF SetCooldown
      <4> QED BY <2>1, <4>1
    <3>3. CASE CooldownExpires
      <4>1. rec' \in Record /\ rec'.state = rec.state
        BY <2>1, <3>3, FieldFacts DEF CooldownExpires
      <4> QED BY <2>1, <4>1
    <3>4. QED
      BY <2>6, <3>1, <3>2, <3>3
  <2>7. CASE ResetDaily
    <3>1. rec' \in Record /\ rec'.day = day /\ rec.day # day
      BY <2>1, <2>7, RolloverFacts DEF ResetDaily, TypeOK
    <3>2. QED
      BY <3>1
  <2>8. ~HaltExpires /\ ~ClearHalt /\ ~EngineRestart
    BY <2>1 DEF HaltExpires, ClearHalt, EngineRestart, TypeOK
  <2>9. CASE \/ \E good \in BOOLEAN : OpenTrade(good)
             \/ StoreFails
             \/ \E r \in saves : Save(r) \/ SaveFails(r)
             \/ NextDay
             \/ UNCHANGED vars
    BY <2>5, <2>9 DEF OpenTrade, StoreFails, Save, SaveFails, NextDay, vars
  <2>10. QED
    BY <2>3, <2>4, <2>6, <2>7, <2>8, <2>9 DEF Next, EngineNext, CallsNext, TimeNext
<1>2. QED
  BY <1>1, RecoveryTypes, PTL DEF Spec, LimitHolds

-----------------------------------------------------------------------------
(* Each losing trade is counted once.                                      *)

\* CountedOnce with what makes it inductive: every closed trade's event is
\* remembered, and a record is never dated after today.
OnceInv ==
    /\ DOMAIN closed \subseteq processed
    /\ rec # NoRec => rec.day <= day
    /\ CountedOnce

\* When results carry a CloseEventID the deduplication works: however often
\* results arrive again, on whatever day, the manager never counts a losing
\* trade twice.
THEOREM CountedOnceTheorem ==
    ASSUME CloseIds, MaxRestarts = 0
    PROVE  Spec => []CountedOnce
<1>1. Init => OnceInv
  BY DEF Init, OnceInv, CountedOnce
<1>2. TypeOK /\ OnceInv /\ [Next]_vars => OnceInv'
  <2> SUFFICES ASSUME TypeOK, OnceInv, [Next]_vars PROVE OnceInv'
    OBVIOUS
  <2> USE RecoveryAssumption
  <2>0. day \in Nat /\ day' \in Nat /\ today \in Nat /\ TypeOK'
    BY TypeNext DEF TypeOK, Days
  <2>1. ASSUME NEW p \in PnLs, TradeResult(p) PROVE OnceInv'
    <3>1. Len(closed) + 1 \in Nat /\ RecordTradeResult(Len(closed) + 1, p)
      BY <2>1 DEF TradeResult, TypeOK
    <3>2. /\ rec' = rec \/ rec' = Recorded(p)
          /\ processed \subseteq processed' /\ Len(closed) + 1 \in processed'
      BY <3>1, RecordStep
    <3>3. DOMAIN closed' = DOMAIN closed \cup {Len(closed) + 1}
      BY <2>1 DEF TradeResult, TypeOK
    <3>4. day' = day /\ today' = today + (IF p < 0 THEN 1 ELSE 0)
      BY <2>0, <2>1 DEF TradeResult
    <3>5. CASE rec' = rec
      BY <2>0, <3>2, <3>3, <3>4, <3>5 DEF OnceInv, CountedOnce, TypeOK, Record
    <3>6. CASE rec' = Recorded(p)
      <4>1. /\ Recorded(p) \in Record /\ Recorded(p).day = day
            /\ rec # NoRec /\ rec.day = day =>
                 Recorded(p).losses = rec.losses + (IF p < 0 THEN 1 ELSE 0)
            /\ rec = NoRec \/ rec.day # day =>
                 Recorded(p).losses = IF p < 0 THEN 1 ELSE 0
        BY RecordedFacts
      <4>2. Recorded(p).losses <= today + (IF p < 0 THEN 1 ELSE 0)
        <5>1. CASE rec # NoRec /\ rec.day = day
          <6>1. rec.losses \in Nat /\ rec.losses <= today
            BY <5>1 DEF OnceInv, CountedOnce, TypeOK, Record
          <6>2. QED
            BY <2>0, <4>1, <5>1, <6>1
        <5>2. CASE rec = NoRec \/ rec.day # day
          BY <2>0, <4>1, <5>2
        <5>3. QED
          BY <5>1, <5>2
      <4>3. QED
        BY <2>0, <3>2, <3>3, <3>4, <3>6, <4>1, <4>2 DEF OnceInv, CountedOnce
    <3>7. QED
      BY <3>2, <3>5, <3>6
  <2>2. ASSUME NEW n \in DOMAIN closed, Redeliver(n) PROVE OnceInv'
    <3>1. n \in Nat /\ closed[n] \in PnLs /\ RecordTradeResult(n, closed[n])
      BY <2>2 DEF Redeliver, TypeOK
    <3>2. n \in processed
      BY DEF OnceInv
    <3>3. rec' = rec /\ processed \subseteq processed'
      BY <3>1, <3>2, RecordStep
    <3>4. QED
      BY <2>2, <3>3 DEF Redeliver, OnceInv, CountedOnce
  <2>3. CASE NextDay
    <3>1. rec' = rec /\ day' = day + 1 /\ closed' = closed /\ processed' = processed
      BY <2>3 DEF NextDay
    <3>2. rec # NoRec => rec.day \in Nat
      BY DEF TypeOK, Record, Days
    <3>3. QED
      BY <2>0, <3>1, <3>2 DEF OnceInv, CountedOnce
  <2>4. ASSUME rec # NoRec, rec' # NoRec, rec'.losses = rec.losses, rec'.day = rec.day,
               UNCHANGED <<day, processed, closed, today>>
        PROVE  OnceInv'
    BY <2>4 DEF OnceInv, CountedOnce
  <2>5. CASE \/ IncrementRecoveryTrade \/ SetCooldown \/ ClearHalt
             \/ HaltExpires \/ CooldownExpires
    <3> USE DEF IncrementRecoveryTrade, SetCooldown, ClearHalt, HaltExpires,
                CooldownExpires
    <3>1. rec # NoRec /\ rec \in Record
      BY <2>5 DEF TypeOK
    <3>2. rec' \in Record /\ rec'.losses = rec.losses /\ rec'.day = rec.day
      <4>1. CASE ClearHalt
        BY <3>1, <4>1, ClearFacts
      <4>2. CASE IncrementRecoveryTrade
        BY <3>1, <4>2, FieldFacts
      <4>3. CASE SetCooldown \/ CooldownExpires
        BY <3>1, <4>3, FieldFacts
      <4>4. CASE HaltExpires
        BY <3>1, <4>4, FieldFacts
      <4>5. QED
        BY <2>5, <4>1, <4>2, <4>3, <4>4
    <3>3. QED
      BY <2>4, <2>5, <3>1, <3>2
  <2>6. CASE ResetDaily
    <3>1. rec' \in Record /\ rec'.day = day /\ rec'.losses = 0
      BY <2>6, RolloverFacts DEF ResetDaily, TypeOK
    <3>2. QED
      BY <2>0, <2>6, <3>1 DEF ResetDaily, OnceInv, CountedOnce
  <2>7. ~EngineRestart
    BY DEF EngineRestart, TypeOK
  <2>8. CASE \/ \E good \in BOOLEAN : OpenTrade(good)
             \/ StoreFails
             \/ \E r \in saves : Save(r) \/ SaveFails(r)
             \/ UNCHANGED vars
    BY <2>8 DEF OpenTrade, StoreFails, Save, SaveFails, vars, OnceInv, CountedOnce
  <2>9. QED
    BY <2>1, <2>2, <2>3, <2>5, <2>6, <2>7, <2>8
    DEF Next, EngineNext, CallsNext, TimeNext
<1>3. OnceInv => CountedOnce
  BY DEF OnceInv
<1>4. QED
  BY <1>1, <1>2, <1>3, RecoveryTypes, PTL DEF Spec

-----------------------------------------------------------------------------
(* The loss budget of a day.                                               *)

\* LossBudget with what makes it inductive.  The record of today counts at least
\* the losses stored today, and once they reach the limit it blocks; so a new
\* position opens only while fewer losses than the limit are stored, and those
\* stored and still possible never exceed the limit less one plus MaxOpen.
\* Without IncrementRecoveryTrade the manager never halts, which matters: a halt
\* ends transitionLocked before the limit is looked at.
BudgetInv ==
    /\ rec = NoRec => today = 0
    /\ rec # NoRec =>
         /\ rec.day # day => today = 0
         /\ rec.day = day => today <= rec.losses
         /\ rec.losses >= MaxDailyLossCount => rec.state = "DAILY_LIMIT"
         /\ rec.taken = 0 /\ rec.state # "HALTED"
    /\ today + open <= MaxDailyLossCount - 1 + MaxOpen
    /\ processed \subseteq DOMAIN closed

\* For every limit and any number of open positions, repeated results, failed
\* stores and failed saves: a day stores no more losing trades than the limit
\* less one plus the positions that may be open at once.
THEOREM LossBudgetTheorem ==
    ASSUME Calls \cap {"INCREMENT", "CLEAR"} = {}, MaxRestarts = 0
    PROVE  Spec => []LossBudget
<1>1. Init => BudgetInv
  BY RecoveryAssumption DEF Init, BudgetInv
<1>2. TypeOK /\ BudgetInv /\ [Next]_vars => BudgetInv'
  <2> SUFFICES ASSUME TypeOK, BudgetInv, [Next]_vars PROVE BudgetInv'
    OBVIOUS
  <2> USE RecoveryAssumption
  <2>0. /\ today \in Nat /\ open \in Nat /\ open <= MaxOpen
        /\ MaxDailyLossCount \in Nat \ {0} /\ MaxOpen \in Nat
        /\ rec # NoRec => rec \in Record /\ rec.losses \in Nat
    BY DEF TypeOK, Record
  <2>1. ASSUME NEW good \in BOOLEAN, OpenTrade(good) PROVE BudgetInv'
    <3>1. today <= MaxDailyLossCount - 1
      <4>1. CASE rec = NoRec \/ rec.day # day
        BY <2>0, <4>1 DEF BudgetInv
      <4>2. CASE rec # NoRec /\ rec.day = day
        <5>1. rec.state # "DAILY_LIMIT"
          BY <2>1, <4>2 DEF OpenTrade, Allowed
        <5>2. today <= rec.losses /\ ~(rec.losses >= MaxDailyLossCount)
          BY <4>2, <5>1 DEF BudgetInv
        <5>3. QED
          BY <2>0, <4>2, <5>2
      <4>3. QED
        BY <4>1, <4>2
    <3>2. open < MaxOpen /\ open' = open + 1
          /\ UNCHANGED <<rec, day, today, closed, processed>>
      BY <2>1 DEF OpenTrade
    <3>3. today' + open' <= MaxDailyLossCount - 1 + MaxOpen
      BY <2>0, <3>1, <3>2
    <3>4. QED
      BY <3>2, <3>3 DEF BudgetInv
  <2>2. ASSUME NEW n \in Nat, NEW p \in PnLs, RecordTradeResult(n, p), day' = day,
               \/ today' = today /\ open' = open
               \/ /\ today' = today + (IF p < 0 THEN 1 ELSE 0)
                  /\ open' = open - 1
                  /\ rec' = Recorded(p),
               processed' \subseteq DOMAIN closed'
        PROVE  BudgetInv'
    <3>1. today' + open' <= MaxDailyLossCount - 1 + MaxOpen
      BY <2>0, <2>2 DEF BudgetInv
    <3>2. CASE rec' = rec /\ today' = today
      BY <2>2, <3>1, <3>2 DEF BudgetInv
    <3>3. CASE rec' = Recorded(p)
      <4>1. /\ Recorded(p) \in Record /\ Recorded(p).day = day
            /\ rec # NoRec /\ rec.day = day =>
                 Recorded(p).losses = rec.losses + (IF p < 0 THEN 1 ELSE 0)
            /\ rec = NoRec \/ rec.day # day =>
                 Recorded(p).losses = IF p < 0 THEN 1 ELSE 0
            /\ Recorded(p).taken = 0
            /\ Recorded(p).state # "HALTED"
            /\ Recorded(p).losses >= MaxDailyLossCount =>
                 Recorded(p).state = "DAILY_LIMIT"
        BY RecordedFacts DEF BudgetInv
      <4>2. today + (IF p < 0 THEN 1 ELSE 0) <= Recorded(p).losses
        <5>1. CASE rec # NoRec /\ rec.day = day
          <6>1. today <= rec.losses /\ rec.losses \in Nat
            BY <2>0, <5>1 DEF BudgetInv
          <6>2. QED
            BY <2>0, <4>1, <5>1, <6>1
        <5>2. CASE rec = NoRec \/ rec.day # day
          <6>1. today = 0
            BY <5>2 DEF BudgetInv
          <6>2. QED
            BY <4>1, <5>2, <6>1
        <5>3. QED
          BY <5>1, <5>2
      <4>3. today' <= Recorded(p).losses
        <5>1. Recorded(p).losses \in Nat
          BY <4>1 DEF Record
        <5>2. QED
          BY <2>0, <2>2, <4>2, <5>1
      <4>4. Recorded(p) # NoRec
        BY <4>1
      <4>5. QED
        BY <2>2, <3>1, <3>3, <4>1, <4>3, <4>4 DEF BudgetInv
    <3>4. rec' = rec \/ rec' = Recorded(p)
      BY <2>2, RecordStep
    <3>5. QED
      BY <2>2, <3>2, <3>3, <3>4
  <2>3. ASSUME NEW p \in PnLs, TradeResult(p) PROVE BudgetInv'
    <3> DEFINE n == Len(closed) + 1
    <3>1. /\ n \in Nat /\ RecordTradeResult(n, p)
          /\ day' = day /\ open' = open - 1
          /\ today' = today + (IF p < 0 THEN 1 ELSE 0)
      BY <2>0, <2>3 DEF TradeResult, TypeOK
    <3>2. n \notin DOMAIN closed /\ DOMAIN closed' = DOMAIN closed \cup {n}
      BY <2>3 DEF TradeResult, TypeOK
    <3> HIDE DEF n
    <3>3. n \notin processed
      BY <3>2 DEF BudgetInv
    <3>4. rec' = Recorded(p) /\ processed' \subseteq processed \cup {n}
      BY <3>1, <3>3, RecordStep
    <3>5. processed' \subseteq DOMAIN closed'
      BY <3>2, <3>4 DEF BudgetInv
    <3>6. QED
      BY <2>2, <3>1, <3>4, <3>5
  <2>4. ASSUME NEW n \in DOMAIN closed, Redeliver(n) PROVE BudgetInv'
    <3>1. n \in Nat /\ closed[n] \in PnLs /\ RecordTradeResult(n, closed[n])
      BY <2>4 DEF Redeliver, TypeOK
    <3>2. UNCHANGED <<day, open, closed, today>>
      BY <2>4 DEF Redeliver
    <3>3. processed' \subseteq processed \cup {n}
      BY <3>1, RecordStep
    <3>4. processed' \subseteq DOMAIN closed'
      BY <3>2, <3>3 DEF BudgetInv
    <3>5. QED
      BY <2>2, <3>1, <3>2, <3>4
  <2>5. CASE StoreFails
    <3>1. open' = open - 1 /\ UNCHANGED <<rec, day, today, closed, processed>>
      BY <2>5 DEF StoreFails
    <3>2. today' + open' <= MaxDailyLossCount - 1 + MaxOpen
      BY <2>0, <3>1 DEF BudgetInv
    <3>3. QED
      BY <3>1, <3>2 DEF BudgetInv
  <2>6. CASE SetCooldown \/ CooldownExpires
    <3> USE DEF SetCooldown, CooldownExpires
    <3>1. rec # NoRec /\ rec \in Record
      BY <2>6 DEF TypeOK
    <3>2. /\ rec' \in Record /\ rec'.losses = rec.losses /\ rec'.day = rec.day
          /\ rec'.taken = rec.taken /\ rec'.state = rec.state
      BY <2>6, <3>1, FieldFacts
    <3>3. UNCHANGED <<day, today, open, closed, processed>> /\ rec' # NoRec
      BY <2>6, <3>2
    <3>4. QED
      BY <3>1, <3>2, <3>3 DEF BudgetInv
  <2>7. CASE ResetDaily
    <3>1. /\ rec # NoRec /\ rec \in Record /\ rec.day # day
          /\ UNCHANGED <<day, today, open, closed, processed>>
      BY <2>7 DEF ResetDaily, TypeOK
    <3>2. /\ rec' \in Record /\ rec'.day = day /\ rec'.losses = 0
          /\ rec'.taken = 0 /\ rec'.state # "HALTED"
      BY <2>7, <3>1, RolloverFacts DEF ResetDaily, TypeOK, BudgetInv
    <3>3. rec' # NoRec
      BY <3>2
    <3>4. QED
      BY <2>0, <3>1, <3>2, <3>3 DEF BudgetInv
  <2>8. CASE NextDay
    <3>1. /\ today' = 0 /\ UNCHANGED <<rec, open, closed, processed>>
      BY <2>8 DEF NextDay
    <3>2. today' + open' <= MaxDailyLossCount - 1 + MaxOpen
      BY <2>0, <3>1
    <3>3. rec # NoRec => today' <= rec.losses
      BY <2>0, <3>1
    <3>4. QED
      BY <3>1, <3>2, <3>3 DEF BudgetInv
  <2>9. /\ ~IncrementRecoveryTrade /\ ~ClearHalt /\ ~EngineRestart /\ ~HaltExpires
    BY DEF IncrementRecoveryTrade, ClearHalt, EngineRestart, HaltExpires, TypeOK, BudgetInv
  <2>10. CASE (\E r \in saves : Save(r) \/ SaveFails(r)) \/ UNCHANGED vars
    BY <2>10 DEF Save, SaveFails, vars, BudgetInv
  <2>11. QED
    BY <2>1, <2>3, <2>4, <2>5, <2>6, <2>7, <2>8, <2>9, <2>10
    DEF Next, EngineNext, CallsNext, TimeNext
<1>3. TypeOK /\ BudgetInv => LossBudget
  BY RecoveryAssumption DEF TypeOK, BudgetInv, LossBudget
<1>4. QED
  BY <1>1, <1>2, <1>3, RecoveryTypes, PTL DEF Spec

-----------------------------------------------------------------------------
(* No martingale.                                                          *)

\* A record in recovery, or halted out of it, still lacks a win to leave it.
Unfinished(r) ==
    r.state \in {"RECOVERY", "HALTED"} => r.wins < RecoveryExitAfterWins

\* Every record there is, in memory, on its way to the table or in the table.
UnfinishedInv ==
    /\ rec # NoRec => Unfinished(rec)
    /\ \A r \in saves : Unfinished(r)
    /\ \A d \in Days : table[d] # NoRec => Unfinished(table[d])

\* Below HALTED, a record left in recovery still lacks a win.
LEMMA AdvanceUnfinished ==
    ASSUME NEW r \in Record, r.state # "HALTED"
    PROVE  /\ Unfinished(Advance(r))
           /\ r.state = "RECOVERY" /\ r.wins < RecoveryExitAfterWins
              => Advance(r).state # "NORMAL"
<1> USE RecoveryAssumption DEF Unfinished
<1>1. CASE LimitReached(r)
  BY <1>1 DEF Advance, Record
<1>2. CASE ~LimitReached(r) /\ r.state = "NORMAL" /\ r.streak >= MaxConsecutiveLosses
  <2>1. Advance(r) = [r EXCEPT !.state = "RECOVERY", !.taken = 0, !.wins = 0]
    BY <1>2 DEF Advance
  <2>2. Advance(r).wins = 0
    BY <2>1 DEF Record
  <2>3. QED
    BY <1>2, <2>2
<1>3. CASE ~LimitReached(r) /\ r.state = "RECOVERY"
  <2>1. Advance(r) = LeaveRecovery(r)
    BY <1>3 DEF Advance
  <2>2. /\ r.wins \in Nat /\ RecoveryExitAfterWins \in Nat
        /\ r.taken \in Nat /\ RecoveryMaxTrades \in Nat
    BY DEF Record
  <2>3. CASE r.wins >= RecoveryExitAfterWins
    <3> DEFINE q == [r EXCEPT !.state = "NORMAL", !.taken = 0, !.wins = 0, !.streak = 0]
    <3>1. Advance(r) = q
      BY <2>1, <2>2, <2>3 DEF LeaveRecovery
    <3>2. q.state = "NORMAL"
      BY DEF Record
    <3>3. QED
      BY <2>2, <2>3, <3>1, <3>2
  <2>4. CASE r.wins < RecoveryExitAfterWins /\ r.taken >= RecoveryMaxTrades
    <3> DEFINE q == [r EXCEPT !.state = "HALTED", !.over = FALSE]
    <3>1. Advance(r) = q
      BY <2>1, <2>2, <2>4 DEF LeaveRecovery
    <3>2. q.state = "HALTED" /\ q.wins = r.wins
      BY DEF Record
    <3>3. QED
      BY <2>4, <3>1, <3>2
  <2>5. CASE r.wins < RecoveryExitAfterWins /\ r.taken < RecoveryMaxTrades
    <3>1. Advance(r) = r
      BY <2>1, <2>2, <2>5 DEF LeaveRecovery
    <3>2. QED
      BY <1>3, <2>5, <3>1
  <2>6. QED
    BY <2>2, <2>3, <2>4, <2>5
<1>4. CASE /\ ~LimitReached(r) /\ r.state # "RECOVERY"
           /\ ~(r.state = "NORMAL" /\ r.streak >= MaxConsecutiveLosses)
  <2>1. Advance(r) = r
    BY <1>4 DEF Advance
  <2>2. QED
    BY <1>4, <2>1
<1>5. QED
  BY <1>1, <1>2, <1>3, <1>4

\* So does every record transitionLocked leaves.
LEMMA TransitionUnfinished ==
    ASSUME NEW r \in Record, r.state = "HALTED" => r.wins < RecoveryExitAfterWins
    PROVE  Unfinished(Transition(r))
<1>1. CASE r.state # "HALTED"
  BY <1>1, AdvanceUnfinished DEF Transition
<1>2. CASE r.state = "HALTED" /\ ~r.over
  BY <1>2 DEF Transition, Unfinished
<1>3. CASE r.state = "HALTED" /\ r.over
  <2> DEFINE q == [r EXCEPT !.state = "RECOVERY", !.over = FALSE]
  <2>1. q \in Record /\ q.state = "RECOVERY"
    BY DEF Record, States
  <2>2. Transition(r) = Advance(q)
    BY <1>3 DEF Transition
  <2> HIDE DEF q
  <2>3. QED
    BY <2>1, <2>2, AdvanceUnfinished
<1>4. QED
  BY <1>1, <1>2, <1>3 DEF Record

\* A result leaves an unfinished record unfinished.
LEMMA RecordedUnfinished ==
    ASSUME TypeOK, rec # NoRec => Unfinished(rec), NEW p \in PnLs
    PROVE  Unfinished(Recorded(p))
<1> DEFINE a == GetOrCreate(rec, day)
           b == Rollover(a, day)
           c == Count(b, p)
<1> USE RecoveryAssumption
<1>1. a \in Record /\ Unfinished(a)
  <2>1. CASE rec = NoRec
    BY <2>1, GetOrCreateFacts DEF TypeOK, Unfinished
  <2>2. CASE rec # NoRec
    BY <2>2, GetOrCreateFacts DEF TypeOK
  <2>3. QED
    BY <2>1, <2>2
<1> HIDE DEF a
<1>2. b \in Record /\ Unfinished(b)
  <2>1. b \in Record
    BY <1>1, RolloverFacts DEF TypeOK
  <2>2. CASE a.day = day
    BY <1>1, <2>2, RolloverFacts DEF TypeOK
  <2>3. CASE a.day # day
    <3>1. b.wins = 0
      BY <1>1, <2>3 DEF Rollover, Record
    <3>2. QED
      BY <2>1, <3>1 DEF Unfinished
  <2>4. QED
    BY <2>1, <2>2, <2>3
<1> HIDE DEF b
<1>3. c \in Record /\ c.state = b.state
  BY <1>2, CountFacts
<1>4. c.state = "HALTED" => c.wins < RecoveryExitAfterWins
  <2>1. ASSUME b.state = "HALTED" PROVE c.wins = b.wins
    BY <1>2, <2>1 DEF Count, Record
  <2>2. QED
    BY <1>2, <1>3, <2>1 DEF Unfinished
<1> HIDE DEF c
<1>5. Unfinished(Transition(c))
  BY <1>3, <1>4, TransitionUnfinished
<1>6. QED
  BY <1>5 DEF Recorded, a, b, c

\* No operation, save or restart leaves a finished record in recovery.
LEMMA UnfinishedNext == TypeOK /\ UnfinishedInv /\ [Next]_vars => UnfinishedInv'
<1> SUFFICES ASSUME TypeOK, UnfinishedInv, [Next]_vars PROVE UnfinishedInv'
  OBVIOUS
<1> USE RecoveryAssumption
<1>0. TypeOK'
  BY TypeNext
<1>1. ASSUME NEW n \in Nat, NEW p \in PnLs, RecordTradeResult(n, p), table' = table
      PROVE  UnfinishedInv'
  <2>1. Unfinished(Recorded(p))
    BY RecordedUnfinished DEF UnfinishedInv
  <2>2. /\ rec' = rec \/ rec' = Recorded(p)
        /\ saves' \subseteq saves \cup {rec, rec'} /\ NoRec \notin saves'
    BY <1>0, <1>1, RecordStep DEF RecordTradeResult, TypeOK
  <2>3. rec' # NoRec => Unfinished(rec')
    BY <2>1, <2>2 DEF UnfinishedInv
  <2>4. \A r \in saves' : Unfinished(r)
    BY <2>2, <2>3 DEF UnfinishedInv
  <2>5. QED
    BY <1>1, <2>3, <2>4 DEF UnfinishedInv
<1>2. ASSUME NEW p \in PnLs, TradeResult(p) PROVE UnfinishedInv'
  BY <1>1, <1>2 DEF TradeResult, TypeOK
<1>3. ASSUME NEW n \in DOMAIN closed, Redeliver(n) PROVE UnfinishedInv'
  <2>1. n \in Nat /\ closed[n] \in PnLs
    BY DEF TypeOK
  <2>2. QED
    BY <1>1, <1>3, <2>1 DEF Redeliver
<1>4. ASSUME NEW r \in saves, Save(r) PROVE UnfinishedInv'
  <2>1. Unfinished(r) /\ r \in Record /\ UNCHANGED rec /\ saves' \subseteq saves
    BY <1>4 DEF Save, UnfinishedInv, TypeOK
  <2>2. \A d \in Days : table'[d] = table[d] \/ table'[d] = r
    BY <1>4 DEF Save, TypeOK
  <2>3. QED
    BY <2>1, <2>2 DEF UnfinishedInv
<1>5. CASE EngineRestart
  <2>1. rec' = NoRec \/ \E d \in Days : rec' = table[d]
    BY <1>5 DEF EngineRestart, Restored
  <2>2. rec' # NoRec => Unfinished(rec')
    BY <2>1 DEF UnfinishedInv
  <2>3. QED
    BY <1>5, <2>2 DEF EngineRestart, UnfinishedInv
<1>6. ASSUME rec # NoRec, Unfinished(rec'), UNCHANGED <<saves, table>> PROVE UnfinishedInv'
  BY <1>6 DEF UnfinishedInv
<1>7. CASE IncrementRecoveryTrade \/ SetCooldown \/ HaltExpires \/ CooldownExpires
  <2> USE DEF IncrementRecoveryTrade, SetCooldown, HaltExpires, CooldownExpires
  <2>1. rec # NoRec /\ rec \in Record /\ Unfinished(rec) /\ UNCHANGED <<saves, table>>
    BY <1>7 DEF TypeOK, UnfinishedInv
  <2>2. rec'.state = rec.state /\ rec'.wins = rec.wins
    <3>1. CASE IncrementRecoveryTrade
      BY <2>1, <3>1 DEF Record
    <3>2. CASE SetCooldown \/ CooldownExpires
      BY <2>1, <3>2 DEF Record
    <3>3. CASE HaltExpires
      BY <2>1, <3>3 DEF Record
    <3>4. QED
      BY <1>7, <3>1, <3>2, <3>3
  <2>3. QED
    BY <1>6, <2>1, <2>2 DEF Unfinished
<1>8. CASE ClearHalt
  <2>1. rec # NoRec /\ rec \in Record /\ UNCHANGED <<saves, table>>
    BY <1>8 DEF ClearHalt, TypeOK
  <2>2. rec'.state = "NORMAL"
    BY <1>8, <2>1 DEF ClearHalt, Record
  <2>3. QED
    BY <1>6, <2>1, <2>2 DEF Unfinished
<1>9. CASE ResetDaily
  <2>1. rec # NoRec /\ rec \in Record /\ UNCHANGED <<saves, table>>
    BY <1>9 DEF ResetDaily, TypeOK
  <2>2. rec'.wins = 0
    BY <1>9, <2>1 DEF ResetDaily, Rollover, Record
  <2>3. QED
    BY <1>6, <2>1, <2>2 DEF Unfinished
<1>10. CASE \/ \E good \in BOOLEAN : OpenTrade(good)
            \/ StoreFails
            \/ \E r \in saves : SaveFails(r)
            \/ NextDay
            \/ UNCHANGED vars
  BY <1>10 DEF OpenTrade, StoreFails, SaveFails, NextDay, vars, UnfinishedInv
<1>11. QED
  BY <1>2, <1>3, <1>4, <1>5, <1>7, <1>8, <1>9, <1>10
  DEF Next, EngineNext, CallsNext, TimeNext

\* The size after a losing result, in a state that is not an expired halt.
LEMMA LossShrinks ==
    ASSUME TypeOK, NEW p \in PnLs, p < 0,
           rec # NoRec => /\ Unfinished(rec) /\ rec.day = day
                          /\ ~(rec.state = "HALTED" /\ rec.over)
    PROVE  Size(Recorded(p)) <= Size(rec)
<1> USE RecoveryAssumption
<1>1. Recorded(p) \in Record /\ Recorded(p) # NoRec
  BY RecordedFacts
<1>2. /\ Size(Recorded(p)) \in 0..100
      /\ Recorded(p).state # "NORMAL" => Size(Recorded(p)) <= RecoverySize
      /\ Recorded(p).state \in {"HALTED", "DAILY_LIMIT"} => Size(Recorded(p)) = 0
  BY <1>1 DEF Size, Record, States
<1>3. CASE rec = NoRec \/ rec.state = "NORMAL"
  BY <1>2, <1>3 DEF Size
<1>4. CASE rec # NoRec /\ rec.state = "DAILY_LIMIT"
  <2>1. Recorded(p).state = "DAILY_LIMIT"
    BY <1>4, RecordedFacts
  <2>2. QED
    BY <1>2, <1>4, <2>1 DEF Size
<1>5. CASE rec # NoRec /\ rec.state \in {"RECOVERY", "HALTED"}
  <2> DEFINE c == Count(rec, p)
  <2>1. rec \in Record /\ p \in Int
    BY <1>5 DEF TypeOK
  <2>2. c \in Record /\ c.state = rec.state /\ c.wins = rec.wins /\ c.over = rec.over
    <3>1. c \in Record /\ c.state = rec.state
      BY <2>1, CountFacts
    <3>2. c.over = rec.over
      BY <2>1 DEF Count, Record
    <3>3. c.wins = IF p > 0 /\ rec.state = "RECOVERY" THEN rec.wins + 1 ELSE rec.wins
      BY <2>1 DEF Count, Record
    <3>4. ~(p > 0)
      BY <2>1
    <3>5. QED
      BY <3>1, <3>2, <3>3, <3>4
  <2>3. Recorded(p) = Transition(c)
    BY <1>5, <2>1 DEF Recorded, GetOrCreate, Rollover
  <2> HIDE DEF c
  <2>4. CASE rec.state = "RECOVERY"
    <3>1. Transition(c) = Advance(c)
      BY <2>2, <2>4 DEF Transition
    <3>2. Recorded(p).state # "NORMAL"
      BY <1>5, <2>2, <2>3, <2>4, <3>1, AdvanceUnfinished DEF Unfinished
    <3>3. QED
      BY <1>2, <1>5, <2>4, <3>2 DEF Size
  <2>5. CASE rec.state = "HALTED"
    <3>1. Recorded(p) = c
      BY <1>5, <2>2, <2>3, <2>5 DEF Transition
    <3>2. QED
      BY <1>2, <1>5, <2>2, <2>5, <3>1 DEF Size
  <2>6. QED
    BY <1>5, <2>4, <2>5
<1>6. QED
  BY <1>3, <1>4, <1>5 DEF TypeOK, Record, States

\* "No martingale, no doubling after losses": for every limit, with or without
\* close event ids, whatever operations are called and across restarts, a losing
\* trade never raises the size multiplier of the same day, except when it is the
\* result that ends an expired halt.
THEOREM NoEscalationTheorem == Spec => NoEscalation
<1> DEFINE Shrinks ==
        /\ today' > today
        /\ rec # NoRec => rec.day = day /\ ~(rec.state = "HALTED" /\ rec.over)
        => Size(rec') <= Size(rec)
<1>1. Init => UnfinishedInv
  BY DEF Init, UnfinishedInv
<1>2. TypeOK /\ UnfinishedInv /\ [Next]_vars => Shrinks
  <2> SUFFICES ASSUME TypeOK, UnfinishedInv, [Next]_vars, today' > today,
                      rec # NoRec => rec.day = day /\ ~(rec.state = "HALTED" /\ rec.over)
               PROVE  Size(rec') <= Size(rec)
    OBVIOUS
  <2>0. today \in Nat
    BY DEF TypeOK
  <2>1. ~NextDay /\ today' # today
    BY <2>0 DEF NextDay
  <2>2. \E p \in PnLs : TradeResult(p)
    BY <2>1 DEF Next, EngineNext, CallsNext, TimeNext, vars, OpenTrade, Redeliver,
       StoreFails, Save, SaveFails, EngineRestart, IncrementRecoveryTrade, SetCooldown,
       ClearHalt, ResetDaily, HaltExpires, CooldownExpires
  <2>3. PICK p \in PnLs : TradeResult(p)
    BY <2>2
  <2>4. p < 0
    BY <2>0, <2>1, <2>3 DEF TradeResult
  <2>5. rec' = rec \/ rec' = Recorded(p)
    BY <2>3, RecordStep DEF TradeResult, TypeOK
  <2>6. CASE rec' = Recorded(p)
    BY <2>4, <2>6, LossShrinks DEF UnfinishedInv
  <2>7. CASE rec' = rec
    <3>1. Size(rec) \in 0..100
      BY RecoveryAssumption DEF Size
    <3>2. QED
      BY <2>7, <3>1
  <2>8. QED
    BY <2>5, <2>6, <2>7
<1>3. QED
  BY <1>1, <1>2, UnfinishedNext, RecoveryTypes, PTL DEF Spec, NoEscalation
=============================================================================
