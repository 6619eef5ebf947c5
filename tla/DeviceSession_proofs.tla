------------------------- MODULE DeviceSession_proofs -------------------------
(***************************************************************************)
(* Proofs about a licence, its devices and their sessions, for any number  *)
(* of charts, registrations and seats and without regard to the bounds.    *)
(* A token family is a chain because every token that is presented, by a   *)
(* chart or by a request that comes late, is one the server once issued;   *)
(* seats are respected because a registration's count is out of date as    *)
(* soon as another device takes a seat.                                    *)
(***************************************************************************)
EXTENDS DeviceSession, FiniteSetTheorems, SequenceTheorems, TLAPS

TokenStates == {"live", "used", "revoked"}
Leases == {"ACTIVE", "EXPIRED", "REVOKED"}
MemRow == [state : EAState, fresh : BOOLEAN]
ReqRow == [op : {"none", "activate", "refresh"}, token : TokenIds, served : BOOLEAN, ans : Nat]
LateRow == [term : Terminals, op : {"activate", "refresh"}, token : TokenIds]
LicenceRow == [status : {"ACTIVE", "SUSPENDED", "REVOKED"}, revoked : BOOLEAN,
               expired : BOOLEAN, seats : 1 .. MaxSeats]
Statements == {"unrevoke", "leases", "credentials"} \X Nat
RegStates == {"none", "counted", "outdated", "done"}

-----------------------------------------------------------------------------
(* The invariants.                                                          *)

\* Every session has a token, and is a chain.
SessInv ==
  /\ ChainSound
  /\ \A k \in DOMAIN sess : Len(sess[k].toks) >= 1

\* A token the server has issued.
Issued(tok) == tok[1] \in DOMAIN sess /\ tok[2] \in DOMAIN sess[tok[1]].toks

StateOK(s) == s.secret # 0 => Issued(s.token)

ReqOK(r) ==
  /\ r.op = "refresh" => Issued(r.token)
  /\ r.served => r.op # "none"
  /\ r.served /\ r.ans # 0 =>
       /\ r.op = "activate" => Issued(<<r.ans, 1>>)
       /\ r.op = "refresh" => Issued(<<r.token[1], r.ans>>)

\* Whatever token a chart has in memory, in its file or in a request, the server
\* has issued it.
ClientInv ==
  /\ \A c \in Charts : StateOK(mem[c].state) /\ ReqOK(req[c])
  /\ \A t \in Terminals : StateOK(file[t])
  /\ \A r \in late : r.op = "refresh" => Issued(r.token)

\* Seats are respected, and there is one for a registration that has counted.
SeatInv ==
  booked = {} =>
    /\ Cardinality(Seated) <= lic.seats
    /\ \A a \in Agents : reg[a] = "counted" => Cardinality(Seated) < lic.seats

-----------------------------------------------------------------------------
(* Sequences.                                                               *)

\* A sequence whose elements are replaced one by one.
LEMMA Mapped ==
  ASSUME NEW S, NEW T, NEW s \in Seq(S), NEW f \in [DOMAIN s -> T]
  PROVE  f \in Seq(T) /\ Len(f) = Len(s) /\ DOMAIN f = DOMAIN s
<1>1. DOMAIN s = 1 .. Len(s) /\ Len(s) \in Nat
  OBVIOUS
<1>2. f \in [1 .. Len(s) -> T]
  BY <1>1
<1>3. f \in Seq(T)
  BY <1>1, <1>2, IsASeq
<1>4. DOMAIN f = 1 .. Len(s)
  BY <1>2
<1> QED BY <1>1, <1>3, <1>4, LenProperties

\* A sequence with one more element.
LEMMA Appended ==
  ASSUME NEW S, NEW s \in Seq(S), NEW x \in S
  PROVE  /\ Append(s, x) \in Seq(S) /\ Len(Append(s, x)) = Len(s) + 1
         /\ DOMAIN Append(s, x) = 1 .. (Len(s) + 1)
         /\ DOMAIN s = 1 .. Len(s) /\ Len(s) \in Nat
         /\ Append(s, x)[Len(s) + 1] = x
         /\ \A k \in DOMAIN s : Append(s, x)[k] = s[k]
OBVIOUS

\* A sequence with one element replaced.
LEMMA Replaced ==
  ASSUME NEW S, NEW s \in Seq(S), NEW x \in S, NEW i
  PROVE  /\ [s EXCEPT ![i] = x] \in Seq(S) /\ Len([s EXCEPT ![i] = x]) = Len(s)
         /\ DOMAIN [s EXCEPT ![i] = x] = DOMAIN s
         /\ \A k \in DOMAIN s : [s EXCEPT ![i] = x][k] = IF k = i THEN x ELSE s[k]
<1>1. s \in [DOMAIN s -> S]
  OBVIOUS
<1>2. /\ [s EXCEPT ![i] = x] \in [DOMAIN s -> S]
      /\ \A k \in DOMAIN s : [s EXCEPT ![i] = x][k] = IF k = i THEN x ELSE s[k]
  BY <1>1
<1> QED BY <1>1, <1>2, Mapped

-----------------------------------------------------------------------------
(* Transactions on sessions.                                                *)

\* The server forgets no session and no token, and no lease comes back.
Grows ==
  /\ sess' \in Seq(Session)
  /\ Len(sess) <= Len(sess') /\ DOMAIN sess \subseteq DOMAIN sess'
  /\ \A k \in DOMAIN sess : /\ DOMAIN sess[k].toks \subseteq DOMAIN sess'[k].toks
                            /\ sess[k].lease = "REVOKED" => sess'[k].lease = "REVOKED"

\* The fields of a session.
LEMMA SessionFields ==
  ASSUME NEW s \in Session
  PROVE  s.dev \in Nat /\ s.live \in BOOLEAN /\ s.toks \in Seq(TokenStates) /\ s.lease \in Leases
BY DEF Session, TokenStates, Leases

\* A session with other tokens.
LEMMA SessionTokens ==
  ASSUME NEW s \in Session, NEW t \in Seq(TokenStates)
  PROVE  LET r == [s EXCEPT !.toks = t]
         IN  r \in Session /\ r.dev = s.dev /\ r.toks = t /\ (r.live => s.live) /\ r.lease = s.lease
BY DEF Session, TokenStates

\* Steps that change nothing in a session but its lease and, for the worse, the
\* secret keep the chains.
LEMMA LeaseStep ==
  ASSUME sess \in Seq(Session), SessInv, sess' \in Seq(Session), Len(sess') = Len(sess),
         \A k \in DOMAIN sess : /\ sess'[k].dev = sess[k].dev /\ sess'[k].toks = sess[k].toks
                                /\ sess'[k].live => sess[k].live
                                /\ sess[k].lease = "REVOKED" => sess'[k].lease = "REVOKED"
  PROVE  Grows /\ SessInv'
<1>1. DOMAIN sess' = DOMAIN sess
  OBVIOUS
<1>2. Grows
  BY <1>1 DEF Grows
<1>3. SessInv'
  BY <1>1 DEF SessInv, ChainSound
<1> QED BY <1>2, <1>3

\* activate: a new session, whose device has no other secret.
LEMMA ActivateStep ==
  ASSUME sess \in Seq(Session), SessInv, NEW d \in Nat, NEW t, Activated(t, d)
  PROVE  Grows /\ SessInv' /\ Len(sess') = Len(sess) + 1
<1> DEFINE f == [k \in DOMAIN sess |->
                   [sess[k] EXCEPT !.live = @ /\ sess[k].dev # d,
                                   !.lease = IF @ = "ACTIVE" THEN "EXPIRED" ELSE @]]
           new == [dev |-> d, live |-> TRUE, toks |-> <<"live">>, lease |-> "ACTIVE"]
<1>1. sess' = Append(f, new)
  BY DEF Activated
<1>2. new \in Session /\ new.dev = d /\ new.toks = <<"live">> /\ new.lease = "ACTIVE"
  BY DEF Session
<1>3. ASSUME NEW k \in DOMAIN sess
      PROVE  /\ f[k] \in Session
             /\ f[k].dev = sess[k].dev /\ f[k].toks = sess[k].toks
             /\ f[k].live => sess[k].live /\ sess[k].dev # d
             /\ f[k].lease = IF sess[k].lease = "ACTIVE" THEN "EXPIRED" ELSE sess[k].lease
  <2>1. sess[k] \in Session
    OBVIOUS
  <2>2. (sess[k].live /\ sess[k].dev # d) \in BOOLEAN
    OBVIOUS
  <2>3. (IF sess[k].lease = "ACTIVE" THEN "EXPIRED" ELSE sess[k].lease) \in Leases
    BY <2>1, SessionFields DEF Leases
  <2> QED BY <2>1, <2>2, <2>3 DEF Session, Leases
<1>4. f \in [DOMAIN sess -> Session]
  BY <1>3
<1> HIDE DEF f, new
<1>5. f \in Seq(Session) /\ Len(f) = Len(sess) /\ DOMAIN f = DOMAIN sess
  BY <1>4, Mapped
<1>6. /\ sess' \in Seq(Session) /\ Len(sess') = Len(sess) + 1
      /\ DOMAIN sess' = 1 .. (Len(sess) + 1) /\ DOMAIN sess = 1 .. Len(sess) /\ Len(sess) \in Nat
      /\ sess'[Len(sess) + 1] = new
      /\ \A k \in DOMAIN sess : sess'[k] = f[k]
  BY <1>1, <1>2, <1>5, Appended
<1>7. Grows
  BY <1>3, <1>6 DEF Grows
<1>8. \A k \in DOMAIN sess' : k \in DOMAIN sess \/ k = Len(sess) + 1
  BY <1>6
<1>9. Len(new.toks) = 1 /\ \A i \in DOMAIN new.toks : i = 1
  BY <1>2
<1>10. \A k \in DOMAIN sess' : /\ Len(sess'[k].toks) >= 1
                               /\ \A i \in DOMAIN sess'[k].toks :
                                    sess'[k].toks[i] = "live" => i = Len(sess'[k].toks)
  <2>1. \A k \in DOMAIN sess : sess'[k].toks = sess[k].toks
    BY <1>3, <1>6
  <2>2. sess'[Len(sess) + 1].toks = new.toks
    BY <1>6
  <2> SUFFICES ASSUME NEW k \in DOMAIN sess'
               PROVE  /\ Len(sess'[k].toks) >= 1
                      /\ \A i \in DOMAIN sess'[k].toks :
                           sess'[k].toks[i] = "live" => i = Len(sess'[k].toks)
    OBVIOUS
  <2>3. CASE k \in DOMAIN sess
    BY <2>1, <2>3 DEF SessInv, ChainSound
  <2>4. CASE k = Len(sess) + 1
    <3>1. sess'[k].toks = <<"live">>
      BY <1>2, <2>2, <2>4
    <3> QED BY <3>1
  <2> QED BY <1>8, <2>3, <2>4
<1>11. \A j, k \in DOMAIN sess' :
         sess'[j].live /\ sess'[k].live /\ sess'[j].dev = sess'[k].dev => j = k
  <2> SUFFICES ASSUME NEW j \in DOMAIN sess', NEW k \in DOMAIN sess',
                      sess'[j].live, sess'[k].live, sess'[j].dev = sess'[k].dev
               PROVE  j = k
    OBVIOUS
  <2>1. CASE j \in DOMAIN sess /\ k \in DOMAIN sess
    BY <1>3, <1>6, <2>1 DEF SessInv, ChainSound
  <2>2. \A m \in DOMAIN sess : sess'[m].live => sess'[m].dev # d
    BY <1>3, <1>6
  <2>3. sess'[Len(sess) + 1].dev = d
    BY <1>2, <1>6
  <2> QED BY <1>8, <2>1, <2>2, <2>3
<1>12. SessInv'
  BY <1>10, <1>11 DEF SessInv, ChainSound
<1> QED BY <1>6, <1>7, <1>12

\* refresh with the usable token of a family: it was the last one, and its
\* successor is now.
LEMMA RotateStep ==
  ASSUME sess \in Seq(Session), SessInv, NEW k \in DOMAIN sess, NEW i \in DOMAIN sess[k].toks,
         sess[k].toks[i] = "live", Rotated(k, i)
  PROVE  Grows /\ SessInv' /\ Len(sess[k].toks) + 1 \in DOMAIN sess'[k].toks
<1> DEFINE old == sess[k].toks
           used == [old EXCEPT ![i] = "used"]
           toks == Append(used, "live")
<1> HIDE DEF toks, used
<1>0. sess[k] \in Session
  OBVIOUS
<1>1. sess[k] \in Session /\ old \in Seq(TokenStates)
  BY <1>0, SessionFields
<1>2. /\ used \in Seq(TokenStates) /\ Len(used) = Len(old) /\ DOMAIN used = DOMAIN old
      /\ \A m \in DOMAIN old : used[m] = IF m = i THEN "used" ELSE old[m]
  BY <1>1, Replaced DEF TokenStates, used
<1>3. /\ toks \in Seq(TokenStates) /\ Len(toks) = Len(old) + 1
      /\ DOMAIN toks = 1 .. (Len(old) + 1) /\ DOMAIN old = 1 .. Len(old) /\ Len(old) \in Nat
      /\ \A m \in DOMAIN old : toks[m] = used[m]
  BY <1>2, Appended DEF TokenStates, toks
<1>4. sess' = [sess EXCEPT ![k] = [sess[k] EXCEPT !.toks = toks]]
  BY DEF Rotated, toks, used
<1>5. /\ [sess[k] EXCEPT !.toks = toks] \in Session
      /\ [sess[k] EXCEPT !.toks = toks].dev = sess[k].dev
      /\ [sess[k] EXCEPT !.toks = toks].toks = toks
      /\ [sess[k] EXCEPT !.toks = toks].live => sess[k].live
      /\ [sess[k] EXCEPT !.toks = toks].lease = sess[k].lease
  BY <1>1, <1>3, SessionTokens
<1>6. /\ sess' \in Seq(Session) /\ Len(sess') = Len(sess) /\ DOMAIN sess' = DOMAIN sess
      /\ sess'[k] = [sess[k] EXCEPT !.toks = toks]
      /\ \A j \in DOMAIN sess : j # k => sess'[j] = sess[j]
  BY <1>4, <1>5, Replaced
<1>7. /\ sess'[k].dev = sess[k].dev /\ (sess'[k].live => sess[k].live)
      /\ sess'[k].lease = sess[k].lease /\ sess'[k].toks = toks
  BY <1>5, <1>6
<1> HIDE DEF old
<1>8. Len(old) + 1 \in DOMAIN sess'[k].toks /\ DOMAIN old \subseteq DOMAIN sess'[k].toks
  BY <1>3, <1>7
<1>9. Grows
  <2>1. ASSUME NEW j \in DOMAIN sess
        PROVE  /\ DOMAIN sess[j].toks \subseteq DOMAIN sess'[j].toks
               /\ sess[j].lease = "REVOKED" => sess'[j].lease = "REVOKED"
    BY <1>6, <1>7, <1>8 DEF old
  <2>2. Len(sess) <= Len(sess')
    BY <1>6
  <2> QED BY <1>6, <2>1, <2>2 DEF Grows
<1>10. \A m \in DOMAIN toks : toks[m] = "live" => m = Len(toks)
  <2>1. \A m \in DOMAIN old : old[m] = "live" => m = i
    BY DEF SessInv, ChainSound, old
  <2>2. \A m \in DOMAIN old : toks[m] # "live"
    BY <1>2, <1>3, <2>1
  <2> QED BY <1>3, <2>2
<1>11. SessInv'
  <2>1. \A j \in DOMAIN sess' : /\ Len(sess'[j].toks) >= 1
                                /\ \A m \in DOMAIN sess'[j].toks :
                                     sess'[j].toks[m] = "live" => m = Len(sess'[j].toks)
    <3> TAKE j \in DOMAIN sess'
    <3>1. CASE j = k
      <4>1. Len(toks) >= 1
        BY <1>3
      <4> QED BY <1>7, <1>10, <3>1, <4>1
    <3>2. CASE j # k
      BY <1>6, <3>2 DEF SessInv, ChainSound
    <3> QED BY <3>1, <3>2
  <2>2. \A j, m \in DOMAIN sess' :
          sess'[j].live /\ sess'[m].live /\ sess'[j].dev = sess'[m].dev => j = m
    <3>1. \A j \in DOMAIN sess : sess'[j].dev = sess[j].dev /\ (sess'[j].live => sess[j].live)
      BY <1>6, <1>7
    <3> QED BY <1>6, <3>1 DEF SessInv, ChainSound
  <2> QED BY <2>1, <2>2 DEF SessInv, ChainSound
<1> QED BY <1>8, <1>9, <1>11 DEF old

\* refresh with any other token: nothing of the family is usable any more.
LEMMA ReuseStep ==
  ASSUME sess \in Seq(Session), SessInv, NEW k \in DOMAIN sess, ReuseDetected(k)
  PROVE  Grows /\ SessInv'
<1> DEFINE Toks(j) == IF j = k THEN [i \in DOMAIN sess[j].toks |->
                                       IF sess[j].toks[i] = "live" THEN "revoked" ELSE sess[j].toks[i]]
                      ELSE sess[j].toks
           Lease(j) == IF sess[j].lease = "ACTIVE" /\ sess[j].dev = sess[k].dev
                       THEN "REVOKED" ELSE sess[j].lease
           Live(j) == sess[j].live /\ j # k
<1>1. sess' = [j \in DOMAIN sess |-> [sess[j] EXCEPT !.toks = Toks(j), !.live = Live(j), !.lease = Lease(j)]]
  BY DEF ReuseDetected
<1>2. ASSUME NEW j \in DOMAIN sess
      PROVE  /\ sess[j] \in Session
             /\ Toks(j) \in Seq(TokenStates) /\ Len(Toks(j)) = Len(sess[j].toks)
             /\ DOMAIN Toks(j) = DOMAIN sess[j].toks
             /\ \A i \in DOMAIN sess[j].toks : Toks(j)[i] = "live" => sess[j].toks[i] = "live"
  <2>0. sess[j] \in Session
    OBVIOUS
  <2>1. sess[j] \in Session /\ sess[j].toks \in Seq(TokenStates)
    BY <2>0, SessionFields
  <2>2. [i \in DOMAIN sess[j].toks |-> IF sess[j].toks[i] = "live" THEN "revoked" ELSE sess[j].toks[i]]
          \in [DOMAIN sess[j].toks -> TokenStates]
    BY <2>1 DEF TokenStates
  <2>3. CASE j = k
    BY <2>1, <2>2, <2>3, Mapped
  <2>4. CASE j # k
    BY <2>1, <2>4
  <2> QED BY <2>3, <2>4
<1>3. ASSUME NEW j \in DOMAIN sess
      PROVE  Live(j) \in BOOLEAN /\ Lease(j) \in Leases /\ (sess[j].lease = "REVOKED" => Lease(j) = "REVOKED")
  BY <1>2, SessionFields DEF Leases
<1>4. ASSUME NEW j \in DOMAIN sess PROVE Live(j) => sess[j].live
  OBVIOUS
<1> HIDE DEF Toks, Live, Lease
<1>5. ASSUME NEW j \in DOMAIN sess
      PROVE  /\ sess'[j] \in Session
             /\ sess'[j].dev = sess[j].dev /\ sess'[j].toks = Toks(j)
             /\ sess'[j].live => sess[j].live
             /\ sess[j].lease = "REVOKED" => sess'[j].lease = "REVOKED"
  <2>1. sess'[j] = [sess[j] EXCEPT !.toks = Toks(j), !.live = Live(j), !.lease = Lease(j)]
    BY <1>1
  <2>2. sess[j] \in Session /\ Toks(j) \in Seq(TokenStates) /\ Live(j) \in BOOLEAN /\ Lease(j) \in Leases
    BY <1>2, <1>3
  <2>3. /\ sess'[j] \in Session
        /\ sess'[j].dev = sess[j].dev /\ sess'[j].toks = Toks(j)
        /\ (sess'[j].live => Live(j)) /\ sess'[j].lease = Lease(j)
    BY <2>1, <2>2 DEF Session, TokenStates, Leases
  <2> QED BY <1>3, <1>4, <2>2, <2>3
<1>6. sess' \in [DOMAIN sess -> Session]
  BY <1>1, <1>5
<1>7. sess' \in Seq(Session) /\ Len(sess') = Len(sess) /\ DOMAIN sess' = DOMAIN sess
  BY <1>6, Mapped
<1>8. Grows
  BY <1>2, <1>5, <1>7 DEF Grows
<1>9. \A j \in DOMAIN sess' : /\ Len(sess'[j].toks) >= 1
                              /\ \A m \in DOMAIN sess'[j].toks :
                                   sess'[j].toks[m] = "live" => m = Len(sess'[j].toks)
  BY <1>2, <1>5, <1>7 DEF SessInv, ChainSound
<1>10. \A j, m \in DOMAIN sess' :
         sess'[j].live /\ sess'[m].live /\ sess'[j].dev = sess'[m].dev => j = m
  BY <1>5, <1>7 DEF SessInv, ChainSound
<1> QED BY <1>8, <1>9, <1>10 DEF SessInv, ChainSound

\* Heartbeats, and the statements that revoke leases and secrets.
LEMMA LeaseSteps ==
  ASSUME sess \in Seq(Session), SessInv
  PROVE  /\ \A k \in DOMAIN sess : Heartbeat(k) => Grows /\ SessInv'
         /\ \A d \in DOMAIN dev : RevokeLeases(d) \/ RevokeCredentials(d) => Grows /\ SessInv'
<1>1. ASSUME NEW k \in DOMAIN sess, Heartbeat(k) PROVE Grows /\ SessInv'
  <2>1. sess[k] \in Session /\ sess[k].lease # "REVOKED"
    BY <1>1 DEF Heartbeat
  <2>2. [sess[k] EXCEPT !.lease = "ACTIVE"] \in Session
    BY <2>1 DEF Session
  <2>3. sess' = [sess EXCEPT ![k] = [sess[k] EXCEPT !.lease = "ACTIVE"]]
    BY <1>1 DEF Heartbeat
  <2>4. /\ sess' \in Seq(Session) /\ Len(sess') = Len(sess)
        /\ \A j \in DOMAIN sess : sess'[j] = IF j = k THEN [sess[k] EXCEPT !.lease = "ACTIVE"] ELSE sess[j]
    BY <2>2, <2>3, Replaced
  <2>5. \A j \in DOMAIN sess : /\ sess'[j].dev = sess[j].dev /\ sess'[j].toks = sess[j].toks
                               /\ sess'[j].live => sess[j].live
                               /\ sess[j].lease = "REVOKED" => sess'[j].lease = "REVOKED"
    BY <2>1, <2>4 DEF Session
  <2> QED BY <2>4, <2>5, LeaseStep
<1>2. ASSUME NEW d \in DOMAIN dev, RevokeLeases(d) PROVE Grows /\ SessInv'
  <2>1. sess' = [k \in DOMAIN sess |-> [sess[k] EXCEPT !.lease =
                   IF sess[k].lease = "ACTIVE" /\ sess[k].dev = d THEN "REVOKED" ELSE sess[k].lease]]
    BY <1>2 DEF RevokeLeases
  <2>2. ASSUME NEW k \in DOMAIN sess
        PROVE  /\ sess'[k] \in Session
               /\ sess'[k].dev = sess[k].dev /\ sess'[k].toks = sess[k].toks
               /\ sess'[k].live => sess[k].live
               /\ sess[k].lease = "REVOKED" => sess'[k].lease = "REVOKED"
    <3>1. sess[k] \in Session
      OBVIOUS
    <3> QED BY <2>1, <3>1 DEF Session
  <2>3. sess' \in Seq(Session) /\ Len(sess') = Len(sess)
    <3>1. sess' \in [DOMAIN sess -> Session]
      BY <2>1, <2>2
    <3> QED BY <3>1, Mapped
  <2> QED BY <2>2, <2>3, LeaseStep
<1>3. ASSUME NEW d \in DOMAIN dev, RevokeCredentials(d) PROVE Grows /\ SessInv'
  <2>1. sess' = [k \in DOMAIN sess |-> [sess[k] EXCEPT !.live = sess[k].live /\ sess[k].dev # d]]
    BY <1>3 DEF RevokeCredentials
  <2>2. ASSUME NEW k \in DOMAIN sess
        PROVE  /\ sess'[k] \in Session
               /\ sess'[k].dev = sess[k].dev /\ sess'[k].toks = sess[k].toks
               /\ sess'[k].live => sess[k].live
               /\ sess[k].lease = "REVOKED" => sess'[k].lease = "REVOKED"
    <3>1. sess[k] \in Session
      OBVIOUS
    <3> QED BY <2>1, <3>1 DEF Session
  <2>3. sess' \in Seq(Session) /\ Len(sess') = Len(sess)
    <3>1. sess' \in [DOMAIN sess -> Session]
      BY <2>1, <2>2
    <3> QED BY <3>1, Mapped
  <2> QED BY <2>2, <2>3, LeaseStep
<1> QED BY <1>1, <1>2, <1>3

-----------------------------------------------------------------------------
(* Seats.                                                                   *)

\* The devices that take a seat can be counted.
LEMMA SeatsFinite ==
  ASSUME dev \in Seq(DeviceRow)
  PROVE  IsFiniteSet(Seated) /\ Cardinality(Seated) \in Nat /\ Seated \subseteq DOMAIN dev
<1>1. Seated \subseteq 1 .. Len(dev) /\ Len(dev) \in Nat /\ DOMAIN dev = 1 .. Len(dev)
  BY DEF Seated
<1>2. IsFiniteSet(1 .. Len(dev))
  BY <1>1, FS_Interval
<1>3. IsFiniteSet(Seated)
  BY <1>1, <1>2, FS_Subset
<1> QED BY <1>1, <1>3, FS_CardinalityType

\* A device more takes a seat more.
LEMMA SeatTaken ==
  ASSUME dev \in Seq(DeviceRow), NEW row \in DeviceRow, row.bound, ~row.revoked,
         dev' = Append(dev, row)
  PROVE  dev' \in Seq(DeviceRow) /\ Cardinality(Seated') = Cardinality(Seated) + 1
<1>1. /\ dev' \in Seq(DeviceRow) /\ DOMAIN dev' = 1 .. (Len(dev) + 1)
      /\ DOMAIN dev = 1 .. Len(dev) /\ Len(dev) \in Nat
      /\ dev'[Len(dev) + 1] = row /\ \A d \in DOMAIN dev : dev'[d] = dev[d]
  BY Appended
<1>2. Seated' = Seated \cup {Len(dev) + 1}
  BY <1>1 DEF Seated
<1>3. Len(dev) + 1 \notin Seated
  BY <1>1 DEF Seated
<1> QED BY <1>1, <1>2, <1>3, SeatsFinite, FS_AddElement

\* Fewer devices take no more seats.
LEMMA SeatsFreed ==
  ASSUME dev \in Seq(DeviceRow), Seated' \subseteq Seated
  PROVE  Cardinality(Seated') <= Cardinality(Seated) /\ Cardinality(Seated') \in Nat
BY SeatsFinite, FS_Subset, FS_CardinalityType

\* Steps that take no seat, shrink no plan and start no registration.
LEMMA SeatsKept ==
  ASSUME TypeOK, SeatInv, lic'.seats \in Nat, booked' = {} => booked = {} /\ lic.seats <= lic'.seats,
         booked' = {} => Seated' \subseteq Seated,
         \A a \in Agents : reg'[a] = "counted" => reg[a] = "counted"
  PROVE  SeatInv'
<1> SUFFICES ASSUME booked' = {}
             PROVE  /\ Cardinality(Seated') <= lic'.seats
                    /\ \A a \in Agents : reg'[a] = "counted" => Cardinality(Seated') < lic'.seats
  BY DEF SeatInv
<1>1. dev \in Seq(DeviceRow) /\ lic.seats \in Nat
  BY DeviceSessionAssumption DEF TypeOK
<1>2. Cardinality(Seated) \in Nat
  BY <1>1, SeatsFinite
<1>3. Cardinality(Seated') <= Cardinality(Seated) /\ Cardinality(Seated') \in Nat
  BY <1>1, SeatsFreed
<1> QED BY <1>1, <1>2, <1>3 DEF SeatInv

-----------------------------------------------------------------------------
(* Requests.                                                                *)

\* What the server has issued stays issued.
LEMMA IssuedStays ==
  ASSUME Grows, NEW tok, Issued(tok)
  PROVE  Issued(tok)'
BY DEF Grows, Issued

\* The new device of an activation takes one of the seats that are left.
LEMMA ActivateSeats ==
  ASSUME TypeOK, SeatInv, NEW t \in Terminals, NEW d \in SeatFor(t), Activated(t, d),
         UNCHANGED <<lic, booked>>
  PROVE  d \in Nat /\ dev' \in Seq(DeviceRow) /\ reg' \in [Agents -> {"none", "counted", "outdated", "done"}]
         /\ SeatInv'
<1>1. dev \in Seq(DeviceRow) /\ lic.seats \in Nat /\ lic.seats >= 1
  BY DeviceSessionAssumption DEF TypeOK
<1>2. /\ IsFiniteSet(Seated) /\ Cardinality(Seated) \in Nat /\ Seated \subseteq DOMAIN dev
      /\ DOMAIN dev = 1 .. Len(dev) /\ Len(dev) \in Nat
  BY <1>1, SeatsFinite
<1>3. d \in DOMAIN dev \/ (d = Len(dev) + 1 /\ (Seated = {} \/ Cardinality(Seated) < lic.seats))
  BY <1>2 DEF SeatFor
<1>4. reg \in [Agents -> {"none", "counted", "outdated", "done"}]
  BY DEF TypeOK
<1>5. CASE d \in DOMAIN dev
  <2>1. dev' = dev /\ reg' = reg
    BY <1>5, Zenon DEF Activated
  <2>0. d \in Nat
    BY <1>2, <1>5
  <2>2. SeatInv'
    BY <2>1 DEF SeatInv, Seated
  <2> QED BY <1>1, <1>4, <2>0, <2>1, <2>2
<1>6. CASE d \notin DOMAIN dev
  <2>1. /\ dev' = Append(dev, [fp |-> t, bound |-> TRUE, revoked |-> FALSE])
        /\ reg' = Outdated
    BY <1>6 DEF Activated
  <2>2. [fp |-> t, bound |-> TRUE, revoked |-> FALSE] \in DeviceRow
    BY DEF DeviceRow
  <2>3. dev' \in Seq(DeviceRow) /\ Cardinality(Seated') = Cardinality(Seated) + 1
    BY <1>1, <2>1, <2>2, SeatTaken
  <2>4. /\ reg' \in [Agents -> {"none", "counted", "outdated", "done"}]
        /\ \A a \in Agents : reg'[a] # "counted"
    BY <1>4, <2>1 DEF Outdated
  <2>5. Seated = {} => Cardinality(Seated) = 0
    BY FS_EmptySet
  <2>6. Cardinality(Seated) + 1 <= lic.seats
    BY <1>1, <1>2, <1>3, <1>6, <2>5
  <2>7. SeatInv'
    BY <2>3, <2>4, <2>6 DEF SeatInv
  <2> QED BY <1>2, <1>3, <1>6, <2>3, <2>4, <2>7
<1> QED BY <1>5, <1>6

\* A transaction keeps chains and seats, and what it answers it has issued.
LEMMA ServesStep ==
  ASSUME TypeOK, SessInv, SeatInv, NEW t \in Terminals, NEW r, NEW ans, Serves(t, r, ans),
         r.op = "refresh" => Issued(r.token), UNCHANGED <<lic, booked>>
  PROVE  /\ Grows /\ SessInv' /\ SeatInv'
         /\ dev' \in Seq(DeviceRow) /\ reg' \in [Agents -> {"none", "counted", "outdated", "done"}]
         /\ ans # 0 /\ r.op = "activate" => ans \in DOMAIN sess' /\ 1 \in DOMAIN sess'[ans].toks
         /\ ans # 0 /\ r.op = "refresh" => r.token[1] \in DOMAIN sess' /\ ans \in DOMAIN sess'[r.token[1]].toks
<1>1. /\ sess \in Seq(Session) /\ dev \in Seq(DeviceRow)
      /\ reg \in [Agents -> {"none", "counted", "outdated", "done"}]
  BY DEF TypeOK
<1>2. CASE UNCHANGED <<dev, reg, sess>> /\ ans = 0
  <2>1. Grows
    BY <1>1, <1>2 DEF Grows
  <2>2. SessInv'
    BY <1>2 DEF SessInv, ChainSound
  <2>3. SeatInv'
    BY <1>2 DEF SeatInv, Seated
  <2> QED BY <1>1, <1>2, <2>1, <2>2, <2>3
<1>3. CASE r.op = "activate" /\ ans = Len(sess) + 1 /\ \E d \in SeatFor(t) : Activated(t, d)
  <2>1. PICK d \in SeatFor(t) : Activated(t, d)
    BY <1>3
  <2>2. d \in Nat /\ dev' \in Seq(DeviceRow) /\ SeatInv'
        /\ reg' \in [Agents -> {"none", "counted", "outdated", "done"}]
    BY <2>1, ActivateSeats
  <2>3. Grows /\ SessInv' /\ Len(sess') = Len(sess) + 1
    BY <1>1, <2>1, <2>2, ActivateStep
  <2>4. ans \in DOMAIN sess'
    <3>1. DOMAIN sess' = 1 .. (Len(sess) + 1) /\ Len(sess) \in Nat
      BY <1>1, <2>3 DEF Grows
    <3> QED BY <1>3, <3>1
  <2>5. 1 \in DOMAIN sess'[ans].toks
    <3>1. sess'[ans] \in Session
      BY <2>3, <2>4 DEF Grows
    <3>2. sess'[ans].toks \in Seq(TokenStates)
      BY <3>1, SessionFields
    <3>3. Len(sess'[ans].toks) >= 1
      BY <2>3, <2>4 DEF SessInv
    <3> QED BY <3>2, <3>3
  <2> QED BY <1>3, <2>2, <2>3, <2>4, <2>5
<1>4. CASE /\ r.op = "refresh" /\ UNCHANGED <<dev, reg>>
           /\ IF sess[r.token[1]].toks[r.token[2]] = "live"
              THEN Rotated(r.token[1], r.token[2]) /\ ans = Len(sess[r.token[1]].toks) + 1
              ELSE ReuseDetected(r.token[1]) /\ ans = 0
  <2>1. r.token[1] \in DOMAIN sess /\ r.token[2] \in DOMAIN sess[r.token[1]].toks
    BY <1>4 DEF Issued
  <2>2. SeatInv'
    BY <1>4 DEF SeatInv, Seated
  <2>3. CASE sess[r.token[1]].toks[r.token[2]] = "live"
    <3>1. Grows /\ SessInv' /\ ans \in DOMAIN sess'[r.token[1]].toks
      BY <1>1, <1>4, <2>1, <2>3, RotateStep
    <3>2. r.token[1] \in DOMAIN sess'
      BY <2>1, <3>1 DEF Grows
    <3> QED BY <1>1, <1>4, <2>2, <3>1, <3>2
  <2>4. CASE sess[r.token[1]].toks[r.token[2]] # "live"
    <3>1. Grows /\ SessInv' /\ ans = 0
      BY <1>1, <1>4, <2>1, <2>4, ReuseStep
    <3> QED BY <1>1, <1>4, <2>2, <3>1
  <2> QED BY <2>3, <2>4
<1> QED BY <1>2, <1>3, <1>4 DEF Serves
-----------------------------------------------------------------------------
(* The invariants are kept, one group of actions after the other.           *)

Inv == TypeOK /\ SessInv /\ ClientInv /\ SeatInv

\* What a step of a chart writes is sound; it changes nothing of the server.
ClientStep ==
  /\ UNCHANGED <<licence, sess, cut>>
  /\ expiries' \in 0 .. MaxExpiries /\ ops' \in 0 .. MaxOps /\ faults' \in 0 .. MaxFaults
  /\ file' \in [Terminals -> EAState] /\ mem' \in [Charts -> MemRow] /\ req' \in [Charts -> ReqRow]
  /\ \A t \in Terminals : StateOK(file'[t])
  /\ \A c \in Charts : StateOK(mem'[c].state) /\ ReqOK(req'[c])
  /\ late' \subseteq LateRow /\ \A r \in late' : r.op = "refresh" => Issued(r.token)

\* No state and no request at all are sound.
LEMMA NothingSound ==
  /\ NoState \in EAState /\ StateOK(NoState)
  /\ NoRequest \in ReqRow /\ ReqOK(NoRequest)
  /\ [state |-> NoState, fresh |-> FALSE] \in MemRow
  /\ [state |-> NoState, fresh |-> FALSE].state = NoState
BY DEF NoState, NoRequest, NoToken, EAState, TokenIds, ReqRow, MemRow, StateOK, ReqOK

\* A step of a chart keeps the invariants.
LEMMA ClientStepSound ==
  ASSUME Inv, ClientStep
  PROVE  Inv' /\ Grows
<1>1. UNCHANGED <<lic, dev, sess, reg, todo, booked, cut>>
  BY DEF ClientStep, licence
<1>2. TypeOK'
  BY <1>1 DEF Inv, TypeOK, ClientStep, MemRow, ReqRow, LateRow
<1>3. SessInv'
  BY <1>1 DEF Inv, SessInv, ChainSound
<1>4. SeatInv'
  BY <1>1 DEF Inv, SeatInv, Seated
<1>5. ClientInv'
  BY <1>1 DEF ClientInv, ClientStep, StateOK, ReqOK, Issued
<1>6. Grows
  BY <1>1 DEF Grows, Inv, TypeOK
<1> QED BY <1>2, <1>3, <1>4, <1>5, <1>6 DEF Inv

\* The types of what charts keep, by name.
LEMMA ClientTypes ==
  ASSUME Inv
  PROVE  /\ file \in [Terminals -> EAState] /\ mem \in [Charts -> MemRow] /\ req \in [Charts -> ReqRow]
         /\ late \subseteq LateRow
         /\ \A t \in Terminals : StateOK(file[t])
         /\ \A c \in Charts : StateOK(mem[c].state) /\ ReqOK(req[c])
         /\ \A r \in late : r.op = "refresh" => Issued(r.token)
         /\ expiries \in 0 .. MaxExpiries /\ ops \in 0 .. MaxOps /\ faults \in 0 .. MaxFaults
         /\ \A c \in Charts : c[1] \in Terminals /\ mem[c].state \in EAState
BY DEF Inv, TypeOK, ClientInv, MemRow, ReqRow, LateRow, Terminals

\* A chart that remembers a sound state.
LEMMA RemembersSound ==
  ASSUME Inv, NEW c \in Charts, NEW state \in EAState, StateOK(state), NEW fresh \in BOOLEAN,
         Remembers(c, state, fresh)
  PROVE  /\ file' \in [Terminals -> EAState] /\ mem' \in [Charts -> MemRow] /\ req' \in [Charts -> ReqRow]
         /\ \A t \in Terminals : StateOK(file'[t])
         /\ \A x \in Charts : StateOK(mem'[x].state) /\ ReqOK(req'[x])
<1>1. /\ mem' = [mem EXCEPT ![c] = [state |-> state, fresh |-> fresh]]
      /\ file' = [file EXCEPT ![c[1]] = state]
      /\ req' = [req EXCEPT ![c] = NoRequest]
  BY DEF Remembers
<1>2. [state |-> state, fresh |-> fresh] \in MemRow /\ [state |-> state, fresh |-> fresh].state = state
  BY DEF MemRow
<1>3. /\ file' \in [Terminals -> EAState] /\ mem' \in [Charts -> MemRow] /\ req' \in [Charts -> ReqRow]
  BY <1>1, <1>2, ClientTypes, NothingSound
<1>4. \A t \in Terminals : file'[t] = state \/ file'[t] = file[t]
  BY <1>1, ClientTypes
<1>5. \A x \in Charts : /\ mem'[x].state = state \/ mem'[x].state = mem[x].state
                        /\ req'[x] = NoRequest \/ req'[x] = req[x]
  BY <1>1, <1>2, ClientTypes
<1>6. \A t \in Terminals : StateOK(file'[t])
  BY <1>4, ClientTypes
<1>7. \A x \in Charts : StateOK(mem'[x].state) /\ ReqOK(req'[x])
  BY <1>5, ClientTypes, NothingSound
<1> QED BY <1>3, <1>6, <1>7

\* A chart that gives up forgets its state or keeps a sound one.
LEMMA GivesUpSound ==
  ASSUME Inv, NEW c \in Charts, GivesUp(c)
  PROVE  /\ file' \in [Terminals -> EAState] /\ mem' \in [Charts -> MemRow] /\ req' \in [Charts -> ReqRow]
         /\ \A t \in Terminals : StateOK(file'[t])
         /\ \A x \in Charts : StateOK(mem'[x].state) /\ ReqOK(req'[x])
<1>1. CASE Remembers(c, NoState, FALSE)
  BY <1>1, RemembersSound, NothingSound
<1>2. CASE req' = [req EXCEPT ![c] = NoRequest] /\ UNCHANGED <<mem, file>>
  <2>1. req' \in [Charts -> ReqRow] /\ \A x \in Charts : req'[x] = NoRequest \/ req'[x] = req[x]
    BY <1>2, ClientTypes, NothingSound
  <2> QED BY <1>2, <2>1, ClientTypes, NothingSound
<1> QED BY <1>1, <1>2 DEF GivesUp

\* A new request.
LEMMA RequestSound ==
  ASSUME Inv, NEW c \in Charts, NEW op \in {"activate", "refresh"}, NEW token \in TokenIds,
         op = "refresh" => Issued(token), req' = [req EXCEPT ![c] = Request(op, token)]
  PROVE  req' \in [Charts -> ReqRow] /\ \A x \in Charts : ReqOK(req'[x])
<1>1. Request(op, token) \in ReqRow /\ ReqOK(Request(op, token))
  BY DEF Request, ReqRow, ReqOK
<1>2. req' \in [Charts -> ReqRow] /\ \A x \in Charts : req'[x] = Request(op, token) \/ req'[x] = req[x]
  BY <1>1, ClientTypes
<1> QED BY <1>1, <1>2, ClientTypes

\* PAT_EnsureDevice: the state of the file is sound.
LEMMA EnsureDeviceSound ==
  ASSUME Inv, NEW c \in Charts, EnsureDevice(c)
  PROVE  ClientStep
<1>1. UNCHANGED <<licence, sess, file, late, cut, expiries, ops, faults>>
  BY DEF EnsureDevice, bounds
<1>2. CASE mem' = [mem EXCEPT ![c].state = file[c[1]]] /\ UNCHANGED req
  <2>1. file[c[1]] \in EAState /\ StateOK(file[c[1]])
    BY ClientTypes
  <2>2. mem' \in [Charts -> MemRow]
    BY <1>2, <2>1, ClientTypes DEF MemRow
  <2>3. \A x \in Charts : mem'[x].state = file[c[1]] \/ mem'[x].state = mem[x].state
    BY <1>2, ClientTypes DEF MemRow
  <2> QED BY <1>1, <1>2, <2>1, <2>2, <2>3, ClientTypes DEF ClientStep
<1>3. CASE req' = [req EXCEPT ![c] = Request("activate", NoToken)] /\ UNCHANGED mem
  <2>1. NoToken \in TokenIds
    BY DEF NoToken, TokenIds
  <2>2. req' \in [Charts -> ReqRow] /\ \A x \in Charts : ReqOK(req'[x])
    BY <1>3, <2>1, RequestSound
  <2> QED BY <1>1, <1>3, <2>2, ClientTypes DEF ClientStep
<1> QED BY <1>2, <1>3 DEF EnsureDevice

\* PAT_EnsureAccessToken: so is the token of the file, and the one in memory.
LEMMA EnsureTokenSound ==
  ASSUME Inv, NEW c \in Charts, EnsureAccessToken(c)
  PROVE  ClientStep
<1>1. UNCHANGED <<licence, sess, file, late, cut, expiries, ops, faults>>
  BY DEF EnsureAccessToken, bounds
<1>2. PICK token : /\ (token = file[c[1]].token /\ file[c[1]].secret # 0) \/ token = State(c).token
                   /\ State(c).secret # 0
                   /\ mem' = [mem EXCEPT ![c].state.token = token]
                   /\ req' = [req EXCEPT ![c] = Request("refresh", token)]
  BY DEF EnsureAccessToken
<1>3. token \in TokenIds /\ Issued(token)
  <2>1. /\ file[c[1]] \in EAState /\ StateOK(file[c[1]])
        /\ State(c) \in EAState /\ StateOK(State(c))
    BY ClientTypes DEF State
  <2> QED BY <1>2, <2>1 DEF EAState, StateOK
<1>4. req' \in [Charts -> ReqRow] /\ \A x \in Charts : ReqOK(req'[x])
  BY <1>2, <1>3, RequestSound
<1>5. mem' \in [Charts -> MemRow]
  BY <1>2, <1>3, ClientTypes DEF MemRow, EAState
<1>6. \A x \in Charts : mem'[x].state.token = token \/ mem'[x].state = mem[x].state
  BY <1>2, ClientTypes DEF MemRow, EAState
<1>7. \A x \in Charts : StateOK(mem'[x].state)
  BY <1>3, <1>6, ClientTypes DEF StateOK
<1> QED BY <1>1, <1>4, <1>5, <1>7, ClientTypes DEF ClientStep

\* An answer is about a session and a token that the server has issued.
LEMMA ReceiveSound ==
  ASSUME Inv, NEW c \in Charts, Receive(c)
  PROVE  ClientStep
<1>1. UNCHANGED <<licence, sess, late, cut, expiries, ops, faults>>
  BY DEF Receive, bounds
<1>2. /\ req[c] \in ReqRow /\ ReqOK(req[c]) /\ mem[c].state \in EAState
      /\ req[c].served /\ req[c].ans \in Nat /\ req[c].token[1] \in Nat
  BY ClientTypes DEF Receive, ReqRow, TokenIds
<1> DEFINE new == [secret |-> req[c].ans, token |-> <<req[c].ans, 1>>]
           next == [secret |-> State(c).secret, token |-> <<req[c].token[1], req[c].ans>>]
<1>3. CASE GivesUp(c)
  BY <1>1, <1>3, GivesUpSound, ClientTypes DEF ClientStep
<1>4. CASE req[c].ans # 0 /\ req[c].op = "activate" /\ Remembers(c, new, FALSE)
  <2>1. new \in EAState
    BY <1>2 DEF EAState, TokenIds
  <2>2. StateOK(new)
    BY <1>2, <1>4 DEF ReqOK, StateOK
  <2> QED BY <1>1, <1>4, <2>1, <2>2, RemembersSound, ClientTypes DEF ClientStep
<1>5. CASE req[c].ans # 0 /\ req[c].op # "activate" /\ Remembers(c, next, TRUE)
  <2>1. next \in EAState
    BY <1>2 DEF EAState, TokenIds, State
  <2>2. req[c].op = "refresh"
    BY <1>2, <1>5 DEF ReqOK, ReqRow
  <2>3. StateOK(next)
    BY <1>2, <1>5, <2>2 DEF ReqOK, StateOK
  <2> QED BY <1>1, <1>5, <2>1, <2>3, RemembersSound, ClientTypes DEF ClientStep
<1> QED BY <1>3, <1>4, <1>5 DEF Receive

\* An access token runs out.
LEMMA ExpiresSound ==
  ASSUME Inv, NEW c \in Charts, AccessTokenExpires(c)
  PROVE  ClientStep
<1>1. /\ UNCHANGED <<licence, sess, file, req, late, cut, ops, faults>>
      /\ expiries < MaxExpiries /\ expiries' = expiries + 1
      /\ mem' = [mem EXCEPT ![c].fresh = FALSE]
  BY DEF AccessTokenExpires
<1>2. expiries' \in 0 .. MaxExpiries
  BY <1>1, ClientTypes, DeviceSessionAssumption
<1>3. mem' \in [Charts -> MemRow] /\ \A x \in Charts : mem'[x].state = mem[x].state
  BY <1>1, ClientTypes DEF MemRow
<1> QED BY <1>1, <1>2, <1>3, ClientTypes DEF ClientStep

\* What is left behind when a chart stops waiting is one of its requests.
LEMMA PendingSound ==
  ASSUME Inv, NEW c \in Charts
  PROVE  Pending(c) \subseteq LateRow /\ \A r \in Pending(c) : r.op = "refresh" => Issued(r.token)
<1>1. req[c] \in ReqRow /\ ReqOK(req[c]) /\ c[1] \in Terminals
  BY ClientTypes
<1> QED BY <1>1 DEF Pending, Idle, ReqRow, LateRow, ReqOK

\* Lost answers, timeouts and restarts.
LEMMA FaultSound ==
  ASSUME Inv, NEW c \in Charts, ChartFaults(c)
  PROVE  ClientStep
<1>1. ASSUME Fault PROVE faults' \in 0 .. MaxFaults /\ UNCHANGED <<expiries, ops>>
  BY <1>1, ClientTypes, DeviceSessionAssumption DEF Fault
<1>2. CASE AnswerLost(c)
  <2>1. UNCHANGED <<licence, sess, late, cut>> /\ Fault
    BY <1>2 DEF AnswerLost
  <2>2. CASE GivesUp(c)
    BY <1>1, <2>1, <2>2, GivesUpSound, ClientTypes DEF ClientStep
  <2>3. CASE req' = [req EXCEPT ![c].served = FALSE, ![c].ans = 0] /\ UNCHANGED <<mem, file>>
    <3>1. req' \in [Charts -> ReqRow]
      BY <2>3, ClientTypes DEF ReqRow
    <3>2. /\ \A x \in Charts : x # c => req'[x] = req[x]
          /\ req'[c].op = req[c].op /\ req'[c].token = req[c].token /\ ~req'[c].served
      BY <2>3, ClientTypes DEF ReqRow
    <3>3. \A x \in Charts : ReqOK(req'[x])
      BY <3>2, ClientTypes DEF ReqOK
    <3> QED BY <1>1, <2>1, <2>3, <3>1, <3>3, ClientTypes DEF ClientStep
  <2> QED BY <1>2, <2>2, <2>3 DEF AnswerLost
<1>3. CASE TimesOut(c)
  <2>1. /\ UNCHANGED <<licence, sess, cut>> /\ Fault /\ late' = late \cup Pending(c)
        /\ GivesUp(c) \/ UNCHANGED <<file, mem, req>>
    BY <1>3 DEF TimesOut, client
  <2>2. late' \subseteq LateRow /\ \A r \in late' : r.op = "refresh" => Issued(r.token)
    BY <2>1, ClientTypes, PendingSound
  <2>3. CASE GivesUp(c)
    BY <1>1, <2>1, <2>2, <2>3, GivesUpSound, ClientTypes DEF ClientStep
  <2>4. CASE UNCHANGED <<file, mem, req>>
    BY <1>1, <2>1, <2>2, <2>4, ClientTypes DEF ClientStep
  <2> QED BY <2>1, <2>3, <2>4
<1>4. CASE Restart(c)
  <2>1. /\ UNCHANGED <<licence, sess, file, cut>> /\ Fault
        /\ late' = late \/ late' = late \cup Pending(c)
        /\ mem' = [mem EXCEPT ![c] = [state |-> NoState, fresh |-> FALSE]]
        /\ req' = [req EXCEPT ![c] = NoRequest]
    BY <1>4 DEF Restart
  <2>2. late' \subseteq LateRow /\ \A r \in late' : r.op = "refresh" => Issued(r.token)
    BY <2>1, ClientTypes, PendingSound
  <2>3. mem' \in [Charts -> MemRow] /\ req' \in [Charts -> ReqRow]
    BY <2>1, ClientTypes, NothingSound
  <2>4. \A x \in Charts : /\ mem'[x].state = NoState \/ mem'[x].state = mem[x].state
                          /\ req'[x] = NoRequest \/ req'[x] = req[x]
    BY <2>1, ClientTypes, NothingSound
  <2> QED BY <1>1, <2>1, <2>2, <2>3, <2>4, ClientTypes, NothingSound DEF ClientStep
<1> QED BY <1>2, <1>3, <1>4 DEF ChartFaults

\* The server's part of a step that serves a request.
LEMMA ServeRequestSound ==
  ASSUME Inv, NEW c \in Charts, ServeRequest(c)
  PROVE  Inv' /\ Grows
<1>1. /\ req[c].op # "none" /\ UNCHANGED <<lic, todo, booked, file, mem, late, cut, expiries, ops, faults>>
  BY DEF ServeRequest, bounds
<1>2. PICK ans \in Answers : /\ Serves(c[1], req[c], ans)
                             /\ req' = [req EXCEPT ![c].served = TRUE, ![c].ans = ans]
  BY DEF ServeRequest
<1>3. req[c] \in ReqRow /\ ReqOK(req[c]) /\ c[1] \in Terminals
  BY ClientTypes
<1>4. ans \in Nat
  <2>1. Len(sess) \in Nat
    BY DEF Inv, TypeOK
  <2> QED BY <2>1, DeviceSessionAssumption DEF Answers
<1>5. /\ Grows /\ SessInv' /\ SeatInv'
      /\ dev' \in Seq(DeviceRow) /\ reg' \in [Agents -> {"none", "counted", "outdated", "done"}]
      /\ ans # 0 /\ req[c].op = "activate" => ans \in DOMAIN sess' /\ 1 \in DOMAIN sess'[ans].toks
      /\ ans # 0 /\ req[c].op = "refresh" =>
           req[c].token[1] \in DOMAIN sess' /\ ans \in DOMAIN sess'[req[c].token[1]].toks
  BY <1>1, <1>2, <1>3, ServesStep DEF Inv, ReqOK
<1>6. req' \in [Charts -> ReqRow]
  BY <1>2, <1>4, ClientTypes DEF ReqRow
<1>7. /\ \A x \in Charts : x # c => req'[x] = req[x]
      /\ req'[c].op = req[c].op /\ req'[c].token = req[c].token /\ req'[c].ans = ans
  BY <1>2, ClientTypes DEF ReqRow
<1>8. TypeOK'
  BY <1>1, <1>5, <1>6 DEF Inv, TypeOK, Grows, ReqRow
<1>9. ClientInv'
  <2>1. \A t \in Terminals : StateOK(file[t])'
    BY <1>1, <1>5, ClientTypes, IssuedStays DEF StateOK
  <2>2. \A x \in Charts : StateOK(mem[x].state)'
    BY <1>1, <1>5, ClientTypes, IssuedStays DEF StateOK
  <2>3. \A r \in late' : r.op = "refresh" => Issued(r.token)'
    BY <1>1, <1>5, ClientTypes, IssuedStays
  <2>4. ASSUME NEW x \in Charts PROVE ReqOK(req[x])'
    <3>1. CASE x # c
      BY <1>5, <1>7, <3>1, ClientTypes, IssuedStays DEF ReqOK
    <3>2. CASE x = c
      <4>1. req[c].op = "refresh" => (Issued(req[c].token))'
        BY <1>3, <1>5, <1>7, IssuedStays DEF ReqOK
      <4>2. ans # 0 => /\ req[c].op = "activate" => ans \in DOMAIN sess' /\ 1 \in DOMAIN sess'[ans].toks
                       /\ req[c].op = "refresh" =>
                            req[c].token[1] \in DOMAIN sess' /\ ans \in DOMAIN sess'[req[c].token[1]].toks
        BY <1>5
      <4> QED BY <1>1, <1>7, <3>2, <4>1, <4>2 DEF ReqOK, Issued
    <3> QED BY <3>1, <3>2
  <2> QED BY <2>1, <2>2, <2>3, <2>4 DEF ClientInv
<1> QED BY <1>5, <1>8, <1>9 DEF Inv

\* Steps that leave the charts alone.
LEMMA ClientStays ==
  ASSUME Inv, Grows, UNCHANGED <<file, mem, req>>, late' \subseteq late
  PROVE  ClientInv'
<1>1. \A t \in Terminals : StateOK(file[t])'
  BY ClientTypes, IssuedStays DEF StateOK
<1>2. \A x \in Charts : StateOK(mem[x].state)'
  BY ClientTypes, IssuedStays DEF StateOK
<1>3. \A r \in late' : r.op = "refresh" => Issued(r.token)'
  BY ClientTypes, IssuedStays
<1>4. \A x \in Charts : ReqOK(req[x])'
  BY ClientTypes, IssuedStays DEF ReqOK
<1> QED BY <1>1, <1>2, <1>3, <1>4 DEF ClientInv

\* A request that is served late: its token was issued all the same.
LEMMA ServeLateSound ==
  ASSUME Inv, NEW r \in late, ServeLate(r)
  PROVE  Inv' /\ Grows
<1>1. /\ UNCHANGED <<lic, todo, booked, file, mem, req, expiries, ops, faults>>
      /\ late' = late \ {r} /\ cut' = TRUE
  BY DEF ServeLate, client, bounds
<1>2. PICK ans \in Answers : Serves(r.term, r, ans)
  BY DEF ServeLate
<1>3. r.term \in Terminals /\ (r.op = "refresh" => Issued(r.token))
  BY ClientTypes DEF LateRow
<1>4. /\ Grows /\ SessInv' /\ SeatInv'
      /\ dev' \in Seq(DeviceRow) /\ reg' \in [Agents -> {"none", "counted", "outdated", "done"}]
  BY <1>1, <1>2, <1>3, ServesStep DEF Inv
<1>5. TypeOK'
  BY <1>1, <1>4 DEF Inv, TypeOK, Grows
<1>6. ClientInv'
  BY <1>1, <1>4, ClientStays
<1> QED BY <1>4, <1>5, <1>6 DEF Inv

\* Heartbeats and the statements of revokeDevice on leases and secrets.
LEMMA SessionOpSound ==
  ASSUME Inv
  PROVE  /\ \A k \in DOMAIN sess : Heartbeat(k) => Inv' /\ Grows
         /\ \A d \in DOMAIN dev : RevokeLeases(d) \/ RevokeCredentials(d) => Inv' /\ Grows
<1>1. sess \in Seq(Session) /\ SessInv /\ dev \in Seq(DeviceRow)
  BY DEF Inv, TypeOK
<1>2. ASSUME NEW k \in DOMAIN sess, Heartbeat(k) PROVE Inv' /\ Grows
  <2>1. Grows /\ SessInv'
    BY <1>1, <1>2, LeaseSteps
  <2>2. /\ UNCHANGED <<lic, dev, reg, todo, booked, file, mem, req, late, cut, expiries, faults>>
        /\ ops < MaxOps /\ ops' = ops + 1
    BY <1>2 DEF Heartbeat, Op, licence, client
  <2>3. ops' \in 0 .. MaxOps
    BY <2>2, ClientTypes, DeviceSessionAssumption
  <2>4. TypeOK'
    BY <2>1, <2>2, <2>3 DEF Inv, TypeOK, Grows
  <2>5. SeatInv'
    BY <2>2 DEF Inv, SeatInv, Seated
  <2> QED BY <2>1, <2>2, <2>4, <2>5, ClientStays DEF Inv
<1>3. ASSUME NEW d \in DOMAIN dev, RevokeLeases(d) \/ RevokeCredentials(d) PROVE Inv' /\ Grows
  <2>1. Grows /\ SessInv'
    BY <1>1, <1>3, LeaseSteps
  <2>2. /\ UNCHANGED <<lic, dev, reg, booked, file, mem, req, late, cut, expiries, ops, faults>>
        /\ todo' \subseteq todo \cup {<<"credentials", d>>}
    BY <1>3 DEF RevokeLeases, RevokeCredentials, client, bounds
  <2>3. d \in Nat
    BY <1>1
  <2>4. todo' \subseteq {"unrevoke", "leases", "credentials"} \X Nat
    BY <2>2, <2>3 DEF Inv, TypeOK
  <2>5. TypeOK'
    BY <2>1, <2>2, <2>4 DEF Inv, TypeOK, Grows
  <2>6. SeatInv'
    BY <2>2 DEF Inv, SeatInv, Seated
  <2> QED BY <2>1, <2>2, <2>5, <2>6, ClientStays DEF Inv
<1> QED BY <1>2, <1>3

-----------------------------------------------------------------------------
(* Operations on the licence and its devices.                               *)

\* A step on the rows of the licence and its devices: no session, no chart.
RowStep ==
  /\ UNCHANGED <<sess, file, mem, req, late, expiries, faults>>
  /\ ops' \in 0 .. MaxOps /\ cut' \in BOOLEAN
  /\ lic' \in LicenceRow /\ dev' \in Seq(DeviceRow) /\ reg' \in [Agents -> RegStates]
  /\ todo' \subseteq Statements
  /\ booked' \subseteq {"plan", "revival", "race"}
  /\ SeatInv'

\* Such a step keeps the invariants.
LEMMA RowStepSound ==
  ASSUME Inv, RowStep
  PROVE  Inv' /\ Grows
<1>1. UNCHANGED <<sess, file, mem, req, late, expiries, faults>> /\ sess \in Seq(Session)
  BY DEF RowStep, Inv, TypeOK
<1>2. Grows
  BY <1>1 DEF Grows
<1>3. SessInv'
  BY <1>1 DEF Inv, SessInv, ChainSound
<1>4. TypeOK'
  BY <1>1 DEF Inv, TypeOK, RowStep, LicenceRow, RegStates, Statements
<1>5. ClientInv'
  BY <1>1, <1>2, ClientStays
<1> QED BY <1>2, <1>3, <1>4, <1>5 DEF Inv, RowStep

\* The types of the rows, by name.
LEMMA RowTypes ==
  ASSUME Inv
  PROVE  /\ lic \in LicenceRow /\ dev \in Seq(DeviceRow) /\ reg \in [Agents -> RegStates]
         /\ todo \subseteq Statements /\ booked \subseteq {"plan", "revival", "race"} /\ cut \in BOOLEAN
         /\ ops \in 0 .. MaxOps /\ SeatInv
BY DEF Inv, TypeOK, LicenceRow, RegStates, Statements

\* Counted operations.
LEMMA OpCounted ==
  ASSUME Inv, Op
  PROVE  ops' \in 0 .. MaxOps /\ UNCHANGED <<expiries, faults>>
BY RowTypes, DeviceSessionAssumption DEF Op

\* A new licence row with the same seats.
LEMMA OnLicenceSound ==
  ASSUME Inv, NEW row \in LicenceRow, row.seats = lic.seats, NEW S \in SUBSET Statements,
         OnLicence(row, S)
  PROVE  RowStep
<1>1. /\ UNCHANGED <<dev, sess, reg, file, mem, req, late, booked, cut>>
      /\ Op /\ lic' = row /\ todo' = todo \cup S
  BY DEF OnLicence, client
<1>2. SeatInv'
  BY <1>1, RowTypes DEF SeatInv, Seated
<1> QED BY <1>1, <1>2, OpCounted, RowTypes DEF RowStep

\* Each operation on the licence writes such a row, but for a change of plan.
LEMMA LicenceOpSound ==
  ASSUME Inv,
         \/ SuspendLicence \/ DeactivateLicence \/ RevokeLicence \/ LicenceExpires
         \/ ActivateLicence \/ RenewLicence \/ ApproveLicence \/ RejectLicence
  PROVE  RowStep
<1>1. lic \in LicenceRow
  BY RowTypes
<1>2. \A st \in {"ACTIVE", "SUSPENDED", "REVOKED"} :
        [lic EXCEPT !.status = st] \in LicenceRow /\ [lic EXCEPT !.status = st].seats = lic.seats
  BY <1>1 DEF LicenceRow
<1>3. /\ [lic EXCEPT !.expired = TRUE] \in LicenceRow
      /\ [lic EXCEPT !.expired = TRUE].seats = lic.seats
  BY <1>1 DEF LicenceRow
<1>4. /\ [lic EXCEPT !.status = "REVOKED", !.revoked = TRUE] \in LicenceRow
      /\ [lic EXCEPT !.status = "REVOKED", !.revoked = TRUE].seats = lic.seats
  BY <1>1 DEF LicenceRow
<1>5. /\ [lic EXCEPT !.status = "ACTIVE", !.revoked = FALSE, !.expired = FALSE] \in LicenceRow
      /\ [lic EXCEPT !.status = "ACTIVE", !.revoked = FALSE, !.expired = FALSE].seats = lic.seats
  BY <1>1 DEF LicenceRow
<1>6. /\ [lic EXCEPT !.status = "ACTIVE", !.expired = FALSE] \in LicenceRow
      /\ [lic EXCEPT !.status = "ACTIVE", !.expired = FALSE].seats = lic.seats
  BY <1>1 DEF LicenceRow
<1>7. {} \in SUBSET Statements /\ {<<"unrevoke", 0>>} \in SUBSET Statements
  BY DEF Statements
<1>8. CASE SuspendLicence \/ DeactivateLicence
  BY <1>2, <1>7, <1>8, OnLicenceSound DEF SuspendLicence, DeactivateLicence
<1>9. CASE RevokeLicence
  BY <1>4, <1>7, <1>9, OnLicenceSound DEF RevokeLicence
<1>10. CASE LicenceExpires
  BY <1>3, <1>7, <1>10, OnLicenceSound DEF LicenceExpires
<1>11. CASE ActivateLicence
  BY <1>5, <1>7, <1>11, OnLicenceSound DEF ActivateLicence
<1>12. CASE RenewLicence
  BY <1>5, <1>7, <1>12, OnLicenceSound DEF RenewLicence
<1>13. CASE ApproveLicence
  BY <1>6, <1>7, <1>13, OnLicenceSound DEF ApproveLicence
<1>14. CASE RejectLicence
  BY <1>2, <1>7, <1>14, OnLicenceSound DEF RejectLicence
<1> QED BY <1>8, <1>9, <1>10, <1>11, <1>12, <1>13, <1>14

\* A change of plan: fewer seats are booked as such.
LEMMA ChangePlanSound ==
  ASSUME Inv, NEW n \in 1 .. MaxSeats, ChangeLicencePlan(n)
  PROVE  RowStep
<1>1. /\ UNCHANGED <<dev, sess, reg, todo, file, mem, req, late, cut>> /\ Op
      /\ lic' = [lic EXCEPT !.seats = n]
      /\ booked' = IF n < lic.seats THEN booked \cup {"plan"} ELSE booked
  BY DEF ChangeLicencePlan, client
<1>2. lic' \in LicenceRow /\ lic'.seats = n /\ lic.seats \in Nat /\ n \in Nat
  BY <1>1, RowTypes, DeviceSessionAssumption DEF LicenceRow
<1>3. booked' \subseteq {"plan", "revival", "race"}
  BY <1>1, RowTypes
<1>4. booked' = {} => booked = {} /\ lic.seats <= lic'.seats
  BY <1>1, <1>2
<1>5. Seated' \subseteq Seated
  BY <1>1 DEF Seated
<1>6. SeatInv'
  BY <1>1, <1>2, <1>4, <1>5, RowTypes, SeatsKept DEF Inv
<1> QED BY <1>1, <1>2, <1>3, <1>6, OpCounted, RowTypes DEF RowStep

\* Devices rewritten row by row, none of them taking a seat.
LEMMA RowsRewritten ==
  ASSUME dev \in Seq(DeviceRow), dev' \in [DOMAIN dev -> DeviceRow],
         \A d \in DOMAIN dev : dev'[d].bound /\ ~dev'[d].revoked => dev[d].bound /\ ~dev[d].revoked
  PROVE  dev' \in Seq(DeviceRow) /\ Seated' \subseteq Seated
<1>1. dev' \in Seq(DeviceRow) /\ DOMAIN dev' = DOMAIN dev
  BY Mapped
<1> QED BY <1>1 DEF Seated

\* The operations of administrators on all devices of the licence.
LEMMA AllDevicesSound ==
  ASSUME Inv, ResetLicence \/ ForceLogoutLicence
  PROVE  RowStep
<1>1. dev \in Seq(DeviceRow) /\ \A d \in DOMAIN dev : dev[d] \in DeviceRow
  BY RowTypes
<1>2. /\ UNCHANGED <<lic, sess, reg, todo, file, mem, req, late, booked>> /\ Op
      /\ cut' = TRUE \/ cut' = cut
  BY DEF ResetLicence, ForceLogoutLicence, client
<1>3. /\ dev' \in [DOMAIN dev -> DeviceRow]
      /\ \A d \in DOMAIN dev : dev'[d].bound /\ ~dev'[d].revoked => dev[d].bound /\ ~dev[d].revoked
  <2>1. CASE ResetLicence
    <3>1. dev' = [d \in DOMAIN dev |-> [dev[d] EXCEPT !.bound = FALSE]]
      BY <2>1 DEF ResetLicence, OnDevices
    <3> QED BY <1>1, <3>1 DEF DeviceRow
  <2>2. CASE ForceLogoutLicence
    <3>1. dev' = [d \in DOMAIN dev |-> [dev[d] EXCEPT !.revoked = dev[d].revoked \/ dev[d].bound]]
      BY <2>2 DEF ForceLogoutLicence, OnDevices
    <3> QED BY <1>1, <3>1 DEF DeviceRow
  <2> QED BY <2>1, <2>2
<1>4. dev' \in Seq(DeviceRow) /\ Seated' \subseteq Seated
  BY <1>1, <1>3, RowsRewritten
<1>5. lic.seats \in Nat
  BY RowTypes, DeviceSessionAssumption DEF LicenceRow
<1>6. SeatInv'
  BY <1>2, <1>4, <1>5, RowTypes, SeatsKept DEF Inv
<1> QED BY <1>2, <1>4, <1>6, OpCounted, RowTypes DEF RowStep

\* The revival of revoked devices: seats are taken only if it is booked.
LEMMA UnrevokeSound ==
  ASSUME Inv, UnrevokeDevices
  PROVE  RowStep
<1>1. dev \in Seq(DeviceRow) /\ reg \in [Agents -> RegStates] /\ \A d \in DOMAIN dev : dev[d] \in DeviceRow
  BY RowTypes
<1>2. /\ UNCHANGED <<lic, sess, file, mem, req, late, cut, expiries, ops, faults>>
      /\ todo' = todo \ {<<"unrevoke", 0>>}
      /\ dev' = [d \in DOMAIN dev |-> [dev[d] EXCEPT !.revoked = dev[d].revoked /\ ~dev[d].bound]]
      /\ reg' = Outdated
      /\ booked' = IF dev' # dev THEN booked \cup {"revival"} ELSE booked
  BY DEF UnrevokeDevices, OnDevices, client, bounds
<1>3. dev' \in [DOMAIN dev -> DeviceRow]
  BY <1>1, <1>2 DEF DeviceRow
<1>4. dev' \in Seq(DeviceRow)
  BY <1>1, <1>3, Mapped
<1>5. reg' \in [Agents -> RegStates] /\ \A a \in Agents : reg'[a] # "counted"
  BY <1>1, <1>2 DEF Outdated, RegStates
<1>6. booked' \subseteq {"plan", "revival", "race"} /\ todo' \subseteq Statements
  BY <1>2, RowTypes
<1>7. booked' = {} => booked = {} /\ dev' = dev
  BY <1>2
<1>8. booked' = {} => Seated' \subseteq Seated
  BY <1>7 DEF Seated
<1>9. lic'.seats = lic.seats /\ lic.seats \in Nat
  BY <1>2, RowTypes, DeviceSessionAssumption DEF LicenceRow
<1>10. SeatInv'
  BY <1>5, <1>7, <1>8, <1>9, RowTypes, SeatsKept DEF Inv
<1> QED BY <1>2, <1>4, <1>5, <1>6, <1>10, RowTypes DEF RowStep

\* Operations on one device.
LEMMA DeviceOpSound ==
  ASSUME Inv, NEW d \in DOMAIN dev, ResetDevice(d) \/ RevokeDevice(d)
  PROVE  RowStep
<1>1. dev \in Seq(DeviceRow) /\ dev[d] \in DeviceRow /\ d \in Nat
  BY RowTypes
<1>2. /\ UNCHANGED <<lic, sess, reg, file, mem, req, late, booked>> /\ Op /\ cut' = TRUE
      /\ todo' = todo \/ todo' = todo \cup {<<"leases", d>>}
      /\ dev' = [dev EXCEPT ![d].fp = None] \/ dev' = [dev EXCEPT ![d].revoked = TRUE]
  BY DEF ResetDevice, RevokeDevice, client
<1>3. todo' \subseteq Statements
  BY <1>1, <1>2, RowTypes DEF Statements
<1>4. /\ dev' \in [DOMAIN dev -> DeviceRow]
      /\ \A e \in DOMAIN dev : dev'[e].bound /\ ~dev'[e].revoked => dev[e].bound /\ ~dev[e].revoked
  <2>1. dev \in [DOMAIN dev -> DeviceRow]
    BY <1>1
  <2>2. CASE dev' = [dev EXCEPT ![d].fp = None]
    BY <2>1, <2>2 DEF DeviceRow
  <2>3. CASE dev' = [dev EXCEPT ![d].revoked = TRUE]
    BY <2>1, <2>3 DEF DeviceRow
  <2> QED BY <1>2, <2>2, <2>3
<1>5. dev' \in Seq(DeviceRow) /\ Seated' \subseteq Seated
  BY <1>1, <1>4, RowsRewritten
<1>6. lic.seats \in Nat
  BY RowTypes, DeviceSessionAssumption DEF LicenceRow
<1>7. SeatInv'
  BY <1>2, <1>5, <1>6, RowTypes, SeatsKept DEF Inv
<1> QED BY <1>2, <1>3, <1>5, <1>7, OpCounted, RowTypes DEF RowStep

\* A registration counts the seats ..
LEMMA CountSeatsSound ==
  ASSUME Inv, NEW a \in Agents, CountSeats(a)
  PROVE  RowStep
<1>1. /\ UNCHANGED <<lic, dev, sess, todo, file, mem, req, late, booked, cut>> /\ Op
      /\ Cardinality(Seated) < lic.seats
      /\ reg' = [reg EXCEPT ![a] = "counted"]
  BY DEF CountSeats, client
<1>2. reg' \in [Agents -> RegStates]
  BY <1>1, RowTypes DEF RegStates
<1>3. Seated' = Seated
  BY <1>1 DEF Seated
<1>4. SeatInv'
  BY <1>1, <1>3, RowTypes DEF SeatInv
<1> QED BY <1>1, <1>2, <1>4, OpCounted, RowTypes DEF RowStep

\* .. and takes one, which puts every other count out of date.
LEMMA RegisterSound ==
  ASSUME Inv, NEW a \in Agents, RegisterDevice(a)
  PROVE  RowStep
<1> DEFINE row == [fp |-> None, bound |-> TRUE, revoked |-> FALSE]
<1>1. /\ UNCHANGED <<lic, sess, todo, file, mem, req, late, cut, expiries, ops, faults>>
      /\ reg[a] \in {"counted", "outdated"}
      /\ dev' = Append(dev, row)
      /\ reg' = [Outdated EXCEPT ![a] = "done"]
      /\ booked' = IF reg[a] = "outdated" THEN booked \cup {"race"} ELSE booked
  BY DEF RegisterDevice, client, bounds
<1>2. row \in DeviceRow /\ row.bound /\ ~row.revoked
  BY DEF DeviceRow
<1>3. dev' \in Seq(DeviceRow) /\ Cardinality(Seated') = Cardinality(Seated) + 1
  BY <1>1, <1>2, RowTypes, SeatTaken
<1>4. reg' \in [Agents -> RegStates] /\ \A b \in Agents : reg'[b] # "counted"
  BY <1>1, RowTypes DEF Outdated, RegStates
<1>5. booked' \subseteq {"plan", "revival", "race"}
  BY <1>1, RowTypes
<1>6. booked' = {} => booked = {} /\ reg[a] = "counted"
  BY <1>1
<1>7. lic.seats \in Nat /\ Cardinality(Seated) \in Nat
  BY RowTypes, SeatsFinite, DeviceSessionAssumption DEF LicenceRow
<1>8. SeatInv'
  <2>1. booked' = {} => Cardinality(Seated) < lic.seats
    BY <1>6, RowTypes DEF SeatInv
  <2>2. lic'.seats = lic.seats
    BY <1>1
  <2>3. ASSUME NEW m \in Nat, NEW n \in Nat, m < n PROVE m + 1 <= n
    BY <2>3
  <2>4. booked' = {} => Cardinality(Seated') <= lic'.seats
    BY <1>3, <1>7, <2>1, <2>2, <2>3
  <2> QED BY <1>4, <2>4 DEF SeatInv
<1> QED BY <1>1, <1>3, <1>4, <1>5, <1>8, RowTypes DEF RowStep

-----------------------------------------------------------------------------
(* The theorems.                                                            *)

\* Initially nothing is issued and no seat is taken.
LEMMA InitSound == Init => Inv
<1> SUFFICES ASSUME Init PROVE Inv
  OBVIOUS
<1>1. dev = <<>> /\ sess = <<>> /\ lic.seats = 1
  BY DEF Init
<1>2. TypeOK
  <2>1. lic \in LicenceRow
    BY DeviceSessionAssumption DEF Init, LicenceRow
  <2>2. /\ mem \in [Charts -> MemRow] /\ req \in [Charts -> ReqRow] /\ file \in [Terminals -> EAState]
        /\ reg \in [Agents -> RegStates]
    BY NothingSound DEF Init, RegStates
  <2>3. dev \in Seq(DeviceRow) /\ sess \in Seq(Session)
    BY <1>1
  <2>4. /\ todo = {} /\ late = {} /\ booked = {} /\ cut \in BOOLEAN
        /\ expiries \in 0 .. MaxExpiries /\ ops \in 0 .. MaxOps /\ faults \in 0 .. MaxFaults
    <3>1. todo = {} /\ late = {} /\ booked = {} /\ cut = FALSE /\ expiries = 0 /\ ops = 0 /\ faults = 0
      BY DEF Init
    <3>2. expiries \in 0 .. MaxExpiries /\ ops \in 0 .. MaxOps /\ faults \in 0 .. MaxFaults
      BY <3>1, DeviceSessionAssumption
    <3> QED BY <3>1, <3>2
  <2> QED BY <2>1, <2>2, <2>3, <2>4 DEF TypeOK, LicenceRow, MemRow, ReqRow, RegStates
<1>3. SessInv
  BY <1>1 DEF SessInv, ChainSound
<1>4. ClientInv
  BY NothingSound DEF Init, ClientInv
<1>5. Seated = {} /\ Cardinality(Seated) = 0
  BY <1>1, FS_EmptySet DEF Seated
<1>6. SeatInv
  BY <1>1, <1>5 DEF Init, SeatInv
<1> QED BY <1>2, <1>3, <1>4, <1>6 DEF Inv

\* Every step keeps the invariants, and forgets no session, token or revocation.
LEMMA NextSound == Inv /\ [Next]_vars => Inv' /\ Grows
<1> SUFFICES ASSUME Inv, [Next]_vars PROVE Inv' /\ Grows
  OBVIOUS
<1>1. ASSUME NEW c \in Charts, ChartSteps(c) \/ AccessTokenExpires(c) \/ ChartFaults(c)
      PROVE  Inv' /\ Grows
  BY <1>1, EnsureDeviceSound, EnsureTokenSound, ReceiveSound, ExpiresSound, FaultSound,
     ClientStepSound, ServeRequestSound DEF ChartSteps
<1>2. CASE LicenceOps
  BY <1>2, LicenceOpSound, ChangePlanSound, AllDevicesSound, RowStepSound DEF LicenceOps
<1>3. ASSUME NEW d \in DOMAIN dev,
             ResetDevice(d) \/ RevokeDevice(d) \/ RevokeLeases(d) \/ RevokeCredentials(d)
      PROVE  Inv' /\ Grows
  BY <1>3, DeviceOpSound, RowStepSound, SessionOpSound
<1>4. ASSUME NEW a \in Agents, CountSeats(a) \/ RegisterDevice(a)
      PROVE  Inv' /\ Grows
  BY <1>4, CountSeatsSound, RegisterSound, RowStepSound
<1>5. CASE UNCHANGED vars
  <2>1. ClientStep
    BY <1>5, ClientTypes DEF vars, ClientStep, licence
  <2> QED BY <2>1, ClientStepSound
<1> QED BY <1>1, <1>2, <1>3, <1>4, <1>5, ServeLateSound, SessionOpSound, UnrevokeSound, RowStepSound
    DEF Next

\* The invariants hold in every reachable state.
LEMMA Invariant == Spec => []Inv
BY InitSound, NextSound, PTL DEF Spec

\* Every variable has its type, whatever the charts, the registrations and the
\* bounds.
THEOREM DeviceTypes == Spec => []TypeOK
<1>1. Inv => TypeOK
  BY DEF Inv
<1> QED BY <1>1, Invariant, PTL

\* However often requests are repeated, delayed or answered in vain, only the
\* last token of a family may be usable, and a device has at most one live
\* secret (activate, refresh of device-auth.service.ts).
THEOREM Chains == Spec => []ChainSound
<1>1. Inv => ChainSound
  BY DEF Inv, SessInv
<1> QED BY <1>1, Invariant, PTL

\* A licence has no more devices than seats, but after a registration whose
\* count was out of date, a revival of revoked devices or a smaller plan
\* (activate, registerDevice).
THEOREM Seats == Spec => []SeatsRespected
<1>1. Inv => SeatsRespected
  BY DEF Inv, SeatInv, SeatsRespected
<1> QED BY <1>1, Invariant, PTL

\* A REVOKED lease never becomes anything else (heartbeat, activate, refresh).
THEOREM LeaseFinal == Spec => RevokedLeaseFinal
<1>1. Inv /\ [Next]_vars => [\A k \in DOMAIN sess :
        sess[k].lease = "REVOKED" => sess'[k].lease = "REVOKED"]_vars
  BY NextSound DEF Grows
<1> QED BY <1>1, Invariant, PTL DEF Spec, RevokedLeaseFinal
=============================================================================
