---------------------------- MODULE DeviceSession -----------------------------
(***************************************************************************)
(* A licence, the devices bound to it and the sessions of their Expert     *)
(* Advisors: activation and token rotation on the server (control/src/     *)
(* modules/device-auth), the client side of both in the MT5 EA with the    *)
(* state file its charts share, and what administrators and agents do to   *)
(* the same rows (licensing, admin).  A session is numbered by the         *)
(* activation that created it: its number stands for the device secret,    *)
(* the token family and the lease.  Every transaction is one step; a       *)
(* request may be served after its sender has given up on it.              *)
(***************************************************************************)
EXTENDS Naturals, Sequences, FiniteSets

CONSTANTS
  Charts,       \* EA instances: pairs of terminal and chart
  Agents,       \* registrations through POST licensing/devices
  MaxSeats,     \* bound: licenses.max_devices
  MaxExpiries,  \* bound: access tokens that run out
  MaxOps,       \* bound: operations on the licence and its devices
  MaxFaults,    \* bound: answers lost, requests timed out, restarts
  None

Terminals == {c[1] : c \in Charts}

ASSUME DeviceSessionAssumption ==
  /\ None \notin Terminals
  /\ MaxSeats \in Nat \ {0}
  /\ MaxExpiries \in Nat /\ MaxOps \in Nat /\ MaxFaults \in Nat

VARIABLES
  lic,      \* the row of licensing.licenses
  dev,      \* rows of licensing.devices
  sess,     \* sessions: device_credentials, refresh_tokens, session_leases
  reg,      \* registrations under way
  todo,     \* second and third statements of operations under way
  file,     \* state file of each terminal
  mem,      \* globals of each chart's EA
  req,      \* request each EA is waiting for
  late,     \* requests whose sender has given up
  booked,   \* (history) ways in which seats may have been overbooked
  cut,      \* (history) a session was ended behind the EA's back
  expiries, ops, faults

licence == <<lic, dev, reg, todo, booked>>
client == <<file, mem, req>>
bounds == <<expiries, ops, faults>>
vars == <<lic, dev, sess, reg, todo, file, mem, req, late, booked, cut, expiries, ops, faults>>

NoToken == <<0, 0>>
NoState == [secret |-> 0, token |-> NoToken]
NoRequest == [op |-> "none", token |-> NoToken, served |-> FALSE, ans |-> 0]

Init ==
  /\ lic = [status |-> "ACTIVE", revoked |-> FALSE, expired |-> FALSE, seats |-> 1]
  /\ dev = <<>> /\ sess = <<>>
  /\ reg = [a \in Agents |-> "none"] /\ todo = {}
  /\ file = [t \in Terminals |-> NoState]
  /\ mem = [c \in Charts |-> [state |-> NoState, fresh |-> FALSE]]
  /\ req = [c \in Charts |-> NoRequest]
  /\ late = {} /\ booked = {} /\ cut = FALSE
  /\ expiries = 0 /\ ops = 0 /\ faults = 0

Op == ops < MaxOps /\ ops' = ops + 1 /\ UNCHANGED <<expiries, faults>>
Fault == faults < MaxFaults /\ faults' = faults + 1 /\ UNCHANGED <<expiries, ops>>

\* Devices that take a seat.
Seated == {d \in DOMAIN dev : dev[d].bound /\ ~dev[d].revoked}

\* A seat is taken: a registration that has counted the seats no longer knows.
Outdated == [a \in Agents |-> IF reg[a] = "counted" THEN "outdated" ELSE reg[a]]

-----------------------------------------------------------------------------
(* Server: transactions on sessions.                                        *)

\* Mutant: the limit is compared the wrong way round at the boundary.
SeatForLoose(t) ==
  LET match == {d \in Seated : dev[d].fp = t}
  IN  IF match # {} THEN match
      ELSE IF Seated = {} \/ Cardinality(Seated) <= lic.seats THEN {Len(dev) + 1} ELSE {}

\* The device an activation may use: one whose fingerprint matches, else a new
\* one if a seat is left.
SeatFor(t) ==
  LET match == {d \in Seated : dev[d].fp = t}
  IN  IF match # {} THEN match
      ELSE IF Seated = {} \/ Cardinality(Seated) < lic.seats THEN {Len(dev) + 1} ELSE {}

Admits == lic.status = "ACTIVE" /\ ~lic.expired

\* activate, for terminal t with device d: the licence row is locked; credentials
\* of the device are superseded, and so are all ACTIVE leases of the licence.
\* Refresh tokens of earlier activations are left alone.
Activated(t, d) ==
  /\ dev' = IF d \in DOMAIN dev THEN dev
            ELSE Append(dev, [fp |-> t, bound |-> TRUE, revoked |-> FALSE])
  /\ reg' = IF d \in DOMAIN dev THEN reg ELSE Outdated
  /\ sess' = Append(
       [k \in DOMAIN sess |->
          [sess[k] EXCEPT !.live = @ /\ sess[k].dev # d,
                          !.lease = IF @ = "ACTIVE" THEN "EXPIRED" ELSE @]],
       [dev |-> d, live |-> TRUE, toks |-> <<"live">>, lease |-> "ACTIVE"])

\* Mutant: the presented token is not marked as used.
RotatedKeeps(k, i) ==
  sess' = [sess EXCEPT ![k].toks = Append(@, "live")]

\* refresh with the usable token i of family k: rotation.
Rotated(k, i) ==
  sess' = [sess EXCEPT ![k].toks = Append([@ EXCEPT ![i] = "used"], "live")]

\* refresh with a used or revoked token: the family, its credential and the
\* ACTIVE leases of the device are revoked.
ReuseDetected(k) ==
  sess' = [j \in DOMAIN sess |->
    [sess[j] EXCEPT
       !.toks = IF j = k THEN [i \in DOMAIN @ |-> IF @[i] = "live" THEN "revoked" ELSE @[i]]
                ELSE @,
       !.live = @ /\ j # k,
       !.lease = IF @ = "ACTIVE" /\ sess[j].dev = sess[k].dev THEN "REVOKED" ELSE @]]

\* The transaction for request r of terminal t, and its answer: the number of
\* the new session or token, 0 for a refusal.
Serves(t, r, ans) ==
  \/ /\ r.op = "activate"
     /\ IF Admits /\ SeatFor(t) # {}
        THEN (\E d \in SeatFor(t) : Activated(t, d)) /\ ans = Len(sess) + 1
        ELSE ans = 0 /\ UNCHANGED <<dev, reg, sess>>
  \/ LET k == r.token[1]
         i == r.token[2]
     IN  /\ r.op = "refresh"
         /\ IF sess[k].toks[i] = "live"
            THEN Rotated(k, i) /\ ans = Len(sess[k].toks) + 1
            ELSE ReuseDetected(k) /\ ans = 0
         /\ UNCHANGED <<dev, reg>>

Answers == 0 .. (Len(sess) + MaxExpiries + MaxFaults + 2)

ServeRequest(c) ==
  /\ req[c].op # "none" /\ ~req[c].served
  /\ \E ans \in Answers :
       /\ Serves(c[1], req[c], ans)
       /\ req' = [req EXCEPT ![c].served = TRUE, ![c].ans = ans]
  /\ UNCHANGED <<lic, todo, booked, file, mem, late, cut, bounds>>

\* A request is served after the EA has turned to something else.
ServeLate(r) ==
  /\ r \in late
  /\ late' = late \ {r}
  /\ \E ans \in Answers : Serves(r.term, r, ans)
  /\ cut' = TRUE
  /\ UNCHANGED <<lic, todo, booked, client, bounds>>

\* Mutant: a lease is renewed whatever its status.
HeartbeatAny(k) ==
  /\ Op
  /\ sess' = [sess EXCEPT ![k].lease = "ACTIVE"]
  /\ UNCHANGED <<licence, client, late, cut>>

\* POST devices/heartbeat: any lease that is not REVOKED becomes ACTIVE.
Heartbeat(k) ==
  /\ Op
  /\ sess[k].lease # "REVOKED"
  /\ sess' = [sess EXCEPT ![k].lease = "ACTIVE"]
  /\ UNCHANGED <<licence, client, late, cut>>

-----------------------------------------------------------------------------
(* The EA.                                                                  *)

Idle(c) == req[c].op = "none"
State(c) == mem[c].state
Request(op, token) == [op |-> op, token |-> token, served |-> FALSE, ans |-> 0]

\* PAT_EnsureDevice without credentials: adopt the state file, else activate.
EnsureDevice(c) ==
  /\ Idle(c) /\ State(c).secret = 0
  /\ IF file[c[1]].secret # 0
     THEN mem' = [mem EXCEPT ![c].state = file[c[1]]] /\ UNCHANGED req
     ELSE req' = [req EXCEPT ![c] = Request("activate", NoToken)] /\ UNCHANGED mem
  /\ UNCHANGED <<licence, sess, file, late, cut, bounds>>

\* PAT_EnsureAccessToken: adopt the token in the file if it is of the same
\* device (the token, not the secret), and present it.
EnsureAccessToken(c) ==
  LET saved == file[c[1]]
      same == saved.secret # 0 /\ sess[saved.secret].dev = sess[State(c).secret].dev
      token == IF same THEN saved.token ELSE State(c).token
  IN  /\ Idle(c) /\ State(c).secret # 0 /\ ~mem[c].fresh
      /\ mem' = [mem EXCEPT ![c].state.token = token]
      /\ req' = [req EXCEPT ![c] = Request("refresh", token)]
      /\ UNCHANGED <<licence, sess, file, late, cut, bounds>>

\* What the EA does with an answer, its memory and the file.
Remembers(c, state, fresh) ==
  /\ mem' = [mem EXCEPT ![c] = [state |-> state, fresh |-> fresh]]
  /\ file' = [file EXCEPT ![c[1]] = state]
  /\ req' = [req EXCEPT ![c] = NoRequest]

\* Mutant: a refused refresh is ignored, the state is kept.
GivesUpKeeps(c) ==
  req' = [req EXCEPT ![c] = NoRequest] /\ UNCHANGED <<mem, file>>

\* A refused or failed refresh clears memory and file; PAT_EnsureDevice follows.
GivesUp(c) ==
  IF req[c].op = "refresh" THEN Remembers(c, NoState, FALSE)
  ELSE req' = [req EXCEPT ![c] = NoRequest] /\ UNCHANGED <<mem, file>>

Receive(c) ==
  /\ req[c].served
  /\ IF req[c].ans = 0 THEN GivesUp(c)
     ELSE IF req[c].op = "activate"
     THEN Remembers(c, [secret |-> req[c].ans, token |-> <<req[c].ans, 1>>], FALSE)
     ELSE Remembers(c, [secret |-> State(c).secret,
                        token |-> <<req[c].token[1], req[c].ans>>], TRUE)
  /\ UNCHANGED <<licence, sess, late, cut, bounds>>

AccessTokenExpires(c) ==
  /\ mem[c].fresh
  /\ expiries < MaxExpiries
  /\ expiries' = expiries + 1
  /\ mem' = [mem EXCEPT ![c].fresh = FALSE]
  /\ UNCHANGED <<licence, sess, file, req, late, cut, ops, faults>>

\* The answer is lost: the same request again (up to three attempts), or none.
AnswerLost(c) ==
  /\ req[c].served
  /\ Fault
  /\ \/ GivesUp(c)
     \/ req' = [req EXCEPT ![c].served = FALSE, ![c].ans = 0] /\ UNCHANGED <<mem, file>>
  /\ UNCHANGED <<licence, sess, late, cut>>

Pending(c) ==
  IF Idle(c) \/ req[c].served THEN {}
  ELSE {[term |-> c[1], op |-> req[c].op, token |-> req[c].token]}

\* Eight seconds pass before the server gets to the request.
TimesOut(c) ==
  /\ Pending(c) # {}
  /\ Fault
  /\ late' = late \cup Pending(c)
  /\ \/ GivesUp(c)
     \/ UNCHANGED client
  /\ UNCHANGED <<licence, sess, cut>>

\* The terminal or the chart restarts; only the file survives.
Restart(c) ==
  /\ Fault
  /\ mem' = [mem EXCEPT ![c] = [state |-> NoState, fresh |-> FALSE]]
  /\ req' = [req EXCEPT ![c] = NoRequest]
  /\ late' \in {late, late \cup Pending(c)}
  /\ UNCHANGED <<licence, sess, file, cut>>

-----------------------------------------------------------------------------
(* Operations on the licence.                                               *)

OnLicence(row, statements) ==
  /\ Op
  /\ lic' = row
  /\ todo' = todo \cup statements
  /\ UNCHANGED <<dev, sess, reg, client, late, booked, cut>>

SuspendLicence == ~lic.revoked /\ OnLicence([lic EXCEPT !.status = "SUSPENDED"], {})
DeactivateLicence == OnLicence([lic EXCEPT !.status = "SUSPENDED"], {})
RevokeLicence == OnLicence([lic EXCEPT !.status = "REVOKED", !.revoked = TRUE], {})
LicenceExpires == OnLicence([lic EXCEPT !.expired = TRUE], {})

\* activateLicense, and ensureActiveLicenseForSubscription once a payment has
\* settled: the licence first, its revoked devices in a second statement.
ActivateLicence ==
  OnLicence([lic EXCEPT !.status = "ACTIVE", !.revoked = FALSE, !.expired = FALSE],
            {<<"unrevoke", 0>>})

\* renewLicense leaves the devices alone.
RenewLicence ==
  OnLicence([lic EXCEPT !.status = "ACTIVE", !.revoked = FALSE, !.expired = FALSE], {})

\* approveEntitlement of a licence: revoked_at stays, and the statement on the
\* devices names a column they do not have, so that it fails.
ApproveLicence ==
  lic.status # "ACTIVE" /\ OnLicence([lic EXCEPT !.status = "ACTIVE", !.expired = FALSE], {})
RejectLicence ==
  lic.status # "REVOKED" /\ OnLicence([lic EXCEPT !.status = "REVOKED"], {})

ChangeLicencePlan(n) ==
  /\ Op
  /\ ~lic.revoked
  /\ lic' = [lic EXCEPT !.seats = n]
  /\ booked' = IF n < lic.seats THEN booked \cup {"plan"} ELSE booked
  /\ UNCHANGED <<dev, sess, reg, todo, client, late, cut>>

-----------------------------------------------------------------------------
(* Operations on devices.                                                   *)

OnDevices(Row(_)) == dev' = [d \in DOMAIN dev |-> Row(d)]

UnrevokeDevices ==
  LET Row(d) == [dev[d] EXCEPT !.revoked = @ /\ ~dev[d].bound]
  IN  /\ <<"unrevoke", 0>> \in todo
      /\ todo' = todo \ {<<"unrevoke", 0>>}
      /\ OnDevices(Row)
      /\ reg' = Outdated
      /\ booked' = IF dev' # dev THEN booked \cup {"revival"} ELSE booked
      /\ UNCHANGED <<lic, sess, client, late, cut, bounds>>

\* resetLicense unbinds the devices, which keep their sessions.
ResetLicence ==
  LET Row(d) == [dev[d] EXCEPT !.bound = FALSE]
  IN  /\ Op
      /\ OnDevices(Row)
      /\ cut' = TRUE
      /\ UNCHANGED <<lic, sess, reg, todo, client, late, booked>>

ForceLogoutLicence ==
  LET Row(d) == [dev[d] EXCEPT !.revoked = @ \/ dev[d].bound]
  IN  /\ Op
      /\ OnDevices(Row)
      /\ UNCHANGED <<lic, sess, reg, todo, client, late, booked, cut>>

\* resetDevice forgets the fingerprint, so that no activation matches.
ResetDevice(d) ==
  /\ Op
  /\ dev' = [dev EXCEPT ![d].fp = None]
  /\ cut' = TRUE
  /\ UNCHANGED <<lic, sess, reg, todo, client, late, booked>>

\* revokeDevice of device-auth: three statements; the tokens stay.
RevokeDevice(d) ==
  /\ Op
  /\ dev' = [dev EXCEPT ![d].revoked = TRUE]
  /\ todo' = todo \cup {<<"leases", d>>}
  /\ cut' = TRUE
  /\ UNCHANGED <<lic, sess, reg, client, late, booked>>

RevokeLeases(d) ==
  /\ <<"leases", d>> \in todo
  /\ todo' = (todo \ {<<"leases", d>>}) \cup {<<"credentials", d>>}
  /\ sess' = [k \in DOMAIN sess |-> [sess[k] EXCEPT !.lease =
                IF @ = "ACTIVE" /\ sess[k].dev = d THEN "REVOKED" ELSE @]]
  /\ UNCHANGED <<lic, dev, reg, client, late, booked, cut, bounds>>

RevokeCredentials(d) ==
  /\ <<"credentials", d>> \in todo
  /\ todo' = todo \ {<<"credentials", d>>}
  /\ sess' = [k \in DOMAIN sess |-> [sess[k] EXCEPT !.live = @ /\ sess[k].dev # d]]
  /\ UNCHANGED <<lic, dev, reg, client, late, booked, cut, bounds>>

\* registerDevice with a licence key: the seats are counted ..
CountSeats(a) ==
  /\ Op
  /\ reg[a] = "none"
  /\ lic.status = "ACTIVE" /\ ~lic.revoked
  /\ Cardinality(Seated) < lic.seats
  /\ reg' = [reg EXCEPT ![a] = "counted"]
  /\ UNCHANGED <<lic, dev, sess, todo, client, late, booked, cut>>

\* .. and the device is inserted in a later statement.
RegisterDevice(a) ==
  /\ reg[a] \in {"counted", "outdated"}
  /\ dev' = Append(dev, [fp |-> None, bound |-> TRUE, revoked |-> FALSE])
  /\ reg' = [Outdated EXCEPT ![a] = "done"]
  /\ booked' = IF reg[a] = "outdated" THEN booked \cup {"race"} ELSE booked
  /\ UNCHANGED <<lic, sess, todo, client, late, cut, bounds>>

-----------------------------------------------------------------------------
ChartSteps(c) ==
  EnsureDevice(c) \/ EnsureAccessToken(c) \/ ServeRequest(c) \/ Receive(c)

ChartFaults(c) == AnswerLost(c) \/ TimesOut(c) \/ Restart(c)

LicenceOps ==
  \/ SuspendLicence \/ DeactivateLicence \/ RevokeLicence \/ LicenceExpires
  \/ ActivateLicence \/ RenewLicence \/ ApproveLicence \/ RejectLicence
  \/ \E n \in 1 .. MaxSeats : ChangeLicencePlan(n)
  \/ ResetLicence \/ ForceLogoutLicence

Next ==
  \/ \E c \in Charts : ChartSteps(c) \/ AccessTokenExpires(c) \/ ChartFaults(c)
  \/ \E r \in late : ServeLate(r)
  \/ \E k \in DOMAIN sess : Heartbeat(k)
  \/ LicenceOps
  \/ UnrevokeDevices
  \/ \E d \in DOMAIN dev :
       ResetDevice(d) \/ RevokeDevice(d) \/ RevokeLeases(d) \/ RevokeCredentials(d)
  \/ \E a \in Agents : CountSeats(a) \/ RegisterDevice(a)

\* The EA's timer keeps firing and the server answers.
Fairness == \A c \in Charts : WF_vars(ChartSteps(c))

Spec == Init /\ [][Next]_vars /\ Fairness

-----------------------------------------------------------------------------
(* Properties.                                                              *)

TokenIds == Nat \X Nat
DeviceRow == [fp : Terminals \cup {None}, bound : BOOLEAN, revoked : BOOLEAN]
Session == [dev : Nat, live : BOOLEAN, toks : Seq({"live", "used", "revoked"}),
            lease : {"ACTIVE", "EXPIRED", "REVOKED"}]
EAState == [secret : Nat, token : TokenIds]

\* Every variable has its type.
TypeOK ==
  /\ lic \in [status : {"ACTIVE", "SUSPENDED", "REVOKED"}, revoked : BOOLEAN,
              expired : BOOLEAN, seats : 1 .. MaxSeats]
  /\ dev \in Seq(DeviceRow)
  /\ sess \in Seq(Session)
  /\ reg \in [Agents -> {"none", "counted", "outdated", "done"}]
  /\ todo \subseteq {"unrevoke", "leases", "credentials"} \X Nat
  /\ file \in [Terminals -> EAState]
  /\ mem \in [Charts -> [state : EAState, fresh : BOOLEAN]]
  /\ req \in [Charts -> [op : {"none", "activate", "refresh"}, token : TokenIds,
                         served : BOOLEAN, ans : Nat]]
  /\ late \subseteq [term : Terminals, op : {"activate", "refresh"}, token : TokenIds]
  /\ booked \subseteq {"plan", "revival", "race"} /\ cut \in BOOLEAN
  /\ expiries \in 0 .. MaxExpiries /\ ops \in 0 .. MaxOps /\ faults \in 0 .. MaxFaults

\* However often requests are repeated, delayed or answered in vain, a token
\* family is one chain: only its last token may be usable; and a device has at
\* most one live secret, that of one activation (activate, refresh).
ChainSound ==
  /\ \A k \in DOMAIN sess : \A i \in DOMAIN sess[k].toks :
       sess[k].toks[i] = "live" => i = Len(sess[k].toks)
  /\ \A j, k \in DOMAIN sess :
       sess[j].live /\ sess[k].live /\ sess[j].dev = sess[k].dev => j = k

\* More devices than the licence has seats: only after a registration whose
\* count was out of date, a revival of revoked devices, or a smaller plan
\* (activate, registerDevice).
SeatsRespected == Cardinality(Seated) <= lic.seats \/ booked # {}

\* A REVOKED lease never comes back, whoever sends heartbeats for it
\* (heartbeat, revokeDevice, reuse detection).
RevokedLeaseFinal ==
  [][\A k \in DOMAIN sess :
       sess[k].lease = "REVOKED" => sess'[k].lease = "REVOKED"]_vars

\* Signed requests of the EA are accepted and its device is bound.
Served(c) ==
  LET k == State(c).secret
  IN  /\ k # 0 /\ sess[k].live
      /\ dev[sess[k].dev].bound /\ ~dev[sess[k].dev].revoked
      /\ lic.status = "ACTIVE"

\* An EA with a seat on an active licence ends up being served, whichever
\* answers were lost and however often it restarted: a refresh that fails makes
\* it activate anew (PAT_EnsureAccessToken).  Sessions that an administrator
\* ended or a late request superseded are excepted.
Reconnects ==
  \A c \in Charts :
    <>[](/\ Admits /\ ~cut
         /\ \E d \in Seated : dev[d].fp = c[1]
         /\ \A d \in DOMAIN dev : dev[d].fp = c[1] => ~dev[d].revoked)
      => <>[]Served(c)
=============================================================================
