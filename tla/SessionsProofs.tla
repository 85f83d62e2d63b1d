--------------------------- MODULE SessionsProofs ---------------------------
(***************************************************************************)
(* For any number of accounts, sessions and requests in flight, and any    *)
(* lengths of the windows that the assumption allows: neither the banned   *)
(* nor the holder of an older password stays signed in, an impersonation   *)
(* ends in time, and a session that is used does not expire.  And around   *)
(* the sessions: a call stays within the bounds of its caller, and the     *)
(* counters before it let through what the budgets allow.                  *)
(***************************************************************************)
EXTENDS Sessions, Doors, Limits, FiniteSetTheorems, WellFoundedInduction, TLAPS

\* The types the proofs need; how often a password is replaced is not bounded here.
Row == [user: Users, by: Users \cup {None}, left: 0..SessionTTL, age: 0..UpdateAge,
        idle: 0..SessionTTL - UpdateAge + 1, pw: Nat, loose: BOOLEAN, stale: BOOLEAN]
Opener == [kind: {"sign-in"}, user: Users, pw: Nat, step: {"admitted"},
           loose: BOOLEAN, stale: BOOLEAN]
Changer == [kind: {"change"}, user: Users, pw: Nat, step: {"set", "drop", "create"},
            revoke: BOOLEAN, loose: BOOLEAN, stale: BOOLEAN]
Banner == [kind: {"ban"}, user: Users, step: {"write"}, until: {Forever, BanTicks, None}]
     \cup [kind: {"ban"}, user: Users, step: {"drop"}]
Rows == [Sessions -> Row \cup {None}]
Ops == [Handlers -> Opener \cup Changer \cup Banner \cup {Idle}]

Typed ==
    /\ ban \in [Users -> Ban]
    /\ password \in [Users -> Nat]
    /\ session \in Rows
    /\ refresh \in [Sessions -> Refresh]
    /\ op \in Ops
    /\ revoked \in [Users -> Nat]

LEMMA SeenTyped ==
    ASSUME Typed, NEW s \in Sessions, NEW rows \in Rows, Seen(s, rows)
    PROVE  session' \in Rows /\ refresh' \in [Sessions -> Refresh]
<1>1. CASE session[s].age < UpdateAge
  <2>1. CASE rows[s] = None
    BY <1>1, <2>1 DEF Seen, Typed
  <2>2. CASE rows[s] # None
    <3>1. rows[s] \in Row /\ 0 \in 0..SessionTTL - UpdateAge + 1
      BY <2>2, SessionsAssumption DEF Rows
    <3>2. [rows[s] EXCEPT !.idle = 0] \in Row
      BY <3>1 DEF Row
    <3>3. session' = [rows EXCEPT ![s] = [rows[s] EXCEPT !.idle = 0]] /\ refresh' = refresh
      BY <1>1, <2>2 DEF Seen
    <3>4. QED
      BY <3>2, <3>3 DEF Typed, Rows
  <2>3. QED
    BY <2>1, <2>2
<1>2. CASE ~(session[s].age < UpdateAge)
  BY <1>2 DEF Seen, Typed, Refresh
<1>3. QED
  BY <1>1, <1>2

LEMMA WithoutTyped == ASSUME Typed, NEW u \in Users PROVE Without(u) \in Rows
BY DEF Typed, Rows, Without

LEMMA LoosenedTyped == ASSUME Typed, NEW u \in Users PROVE Loosened(u) \in Rows
<1> SUFFICES ASSUME NEW s \in Sessions, session[s] # None
             PROVE  [session[s] EXCEPT !.loose = TRUE] \in Row
  BY DEF Typed, Rows, Loosened
<1>1. session[s] \in Row
  BY DEF Typed, Rows
<1>2. QED
  BY <1>1 DEF Row

\* Marking a request keeps its type and all else it says.
LEMMA CrossedOp ==
    ASSUME Typed, NEW u \in Users, NEW mark \in {"loose", "stale"}, NEW steps, NEW h \in Handlers
    PROVE  LET o == Crossed(mark, u, steps)[h] IN
           /\ o \in Opener \cup Changer \cup Banner \cup {Idle}
           /\ o = Idle <=> op[h] = Idle
           /\ op[h] # Idle => /\ o.kind = op[h].kind /\ o.user = op[h].user /\ o.step = op[h].step
           /\ op[h] # Idle /\ op[h].kind = "ban" => o = op[h]
           /\ op[h] # Idle /\ op[h].kind # "ban" =>
                LET hit == op[h].user = u /\ op[h].step \in steps IN
                /\ o.pw = op[h].pw
                /\ o.loose = (op[h].loose \/ (hit /\ mark = "loose"))
                /\ o.stale = (op[h].stale \/ (hit /\ mark = "stale"))
<1> DEFINE hit == op[h] # Idle /\ op[h].user = u /\ op[h].step \in steps /\ op[h].kind # "ban"
<1> DEFINE o == Crossed(mark, u, steps)[h]
<1>1. o = IF hit THEN [op[h] EXCEPT ![mark] = TRUE] ELSE op[h]
  BY DEF Crossed
<1>2. op[h] \in Opener \cup Changer \cup Banner \cup {Idle}
  BY DEF Typed, Ops
<1>3. CASE ~hit
  <2>1. op[h] # Idle /\ op[h].kind # "ban" => op[h].loose \in BOOLEAN /\ op[h].stale \in BOOLEAN
    BY <1>2 DEF Opener, Changer, Banner
  <2>2. o = op[h]
    BY <1>1, <1>3
  <2>3. QED
    BY <1>2, <1>3, <2>1, <2>2
<1>4. CASE hit /\ op[h] \in Opener
  BY <1>1, <1>4 DEF Opener, Idle
<1>5. CASE hit /\ op[h] \in Changer
  BY <1>1, <1>5 DEF Changer, Idle
<1>6. hit => op[h] \in Opener \cup Changer
  BY <1>2 DEF Banner
<1>7. QED
  BY <1>3, <1>4, <1>5, <1>6

LEMMA CrossedTyped ==
    ASSUME Typed, NEW u \in Users, NEW mark \in {"loose", "stale"}, NEW steps
    PROVE  Crossed(mark, u, steps) \in Ops
<1>1. Crossed(mark, u, steps) = [h \in Handlers |-> Crossed(mark, u, steps)[h]]
  BY DEF Crossed
<1>2. QED
  BY <1>1, CrossedOp DEF Ops

LEMMA OpenedTyped ==
    ASSUME NEW u \in Users, NEW by \in Users \cup {None}, NEW ttl \in 0..SessionTTL,
           NEW pw \in Nat, NEW loose \in BOOLEAN, NEW stale \in BOOLEAN
    PROVE  Opened(u, by, ttl, pw, loose, stale) \in Row
BY SessionsAssumption DEF Opened, Row

LEMMA InsertTyped ==
    ASSUME Typed, NEW r \in Row, Insert(r)
    PROVE  session' \in Rows
BY DEF Typed, Rows, Insert

LEMMA TypedInit == Init => Typed
BY SessionsAssumption DEF Init, Typed, Ban, Rows, Refresh, Ops

LEMMA TypedStep ==
    ASSUME Typed, NEW h \in Handlers, Step(h)
    PROVE  Typed'
<1>0. op[h] \in Opener \cup Changer \cup Banner \cup {Idle}
  BY DEF Typed, Ops
<1>1. ASSUME NEW u \in Users, Verify(h, u) \/ VerifyBlind(h, u) PROVE Typed'
  <2>1. ASSUME NEW loose \in BOOLEAN PROVE SignIn(u, loose) \in Opener
    BY DEF Typed, SignIn, Opener
  <2>2. op' \in Ops
    BY <1>1, <2>1 DEF Verify, VerifyBlind, Typed, Ops
  <2>3. QED
    BY <1>1, <2>2 DEF Verify, VerifyBlind, Typed
<1>2. CASE SignedIn(h)
  <2>1. op[h] \in Opener
    BY <1>0, <1>2 DEF SignedIn, Changer, Banner
  <2>2. Opened(op[h].user, None, SessionTTL, op[h].pw, op[h].loose, op[h].stale) \in Row
    BY <2>1, OpenedTyped, SessionsAssumption DEF Opener
  <2>3. session' \in Rows
    BY <1>2, <2>2, InsertTyped DEF SignedIn
  <2>4. QED
    BY <1>2, <2>3 DEF SignedIn, Finish, Typed, Ops
<1>3. ASSUME NEW s \in Sessions, NEW revoke \in BOOLEAN, BeginChange(h, s, revoke) PROVE Typed'
  <2>1. session[s] \in Row
    BY <1>3 DEF BeginChange, Live, Typed, Rows
  <2>2. session' \in Rows /\ refresh' \in [Sessions -> Refresh]
    BY <1>3, SeenTyped DEF BeginChange, Typed
  <2>3. [kind |-> "change", user |-> session[s].user, pw |-> password[session[s].user],
         step |-> "set", revoke |-> revoke,
         loose |-> session[s].loose \/ session[s].by # None, stale |-> FALSE] \in Changer
    BY <2>1 DEF Row, Changer, Typed
  <2>4. op' \in Ops
    BY <1>3, <2>3 DEF BeginChange, Typed, Ops
  <2>5. QED
    BY <1>3, <2>2, <2>4 DEF BeginChange, Typed
<1>4. CASE SetPassword(h)
  <2>1. op[h] \in Changer
    BY <1>0, <1>4 DEF SetPassword, Opener, Banner
  <2>2. password[op[h].user] + 1 \in Nat /\ op[h].user \in Users
    BY <2>1 DEF Changer, Typed
  <2>3. [op[h] EXCEPT !.step = "drop", !.pw = password[op[h].user] + 1] \in Changer
    BY <2>1, <2>2 DEF Changer
  <2>4. op' \in Ops
    BY <1>4, <2>2, <2>3, CrossedTyped DEF SetPassword, Ops
  <2>5. QED
    BY <1>4, <2>2, <2>4 DEF SetPassword, Typed
<1>5. CASE DropOthers(h)
  <2>1. op[h] \in Changer
    BY <1>0, <1>5 DEF DropOthers, Opener, Banner
  <2>2. [op[h] EXCEPT !.step = "create"] \in Changer /\ op[h].user \in Users /\ op[h].pw \in Nat
    BY <2>1 DEF Changer
  <2>3. op' \in Ops /\ session' \in Rows
    BY <1>5, <2>2, WithoutTyped DEF DropOthers, Typed, Ops
  <2>4. QED
    BY <1>5, <2>2, <2>3 DEF DropOthers, Typed
<1>6. CASE Reopen(h)
  <2>1. op[h] \in Changer
    BY <1>0, <1>6 DEF Reopen, Opener, Banner
  <2>2. Opened(op[h].user, None, SessionTTL, op[h].pw, op[h].loose, op[h].stale) \in Row
    BY <2>1, OpenedTyped, SessionsAssumption DEF Changer
  <2>3. session' \in Rows
    BY <1>6, <2>2, InsertTyped DEF Reopen
  <2>4. QED
    BY <1>6, <2>3 DEF Reopen, Finish, Typed, Ops
<1>7. ASSUME NEW s \in Sessions, NEW u \in Users, BeginBan(h, s, u) PROVE Typed'
  <2>1. session' \in Rows /\ refresh' \in [Sessions -> Refresh]
    BY <1>7, SeenTyped DEF BeginBan, Typed
  <2>2. op' \in Ops
    BY <1>7 DEF BeginBan, Typed, Ops, Banner
  <2>3. QED
    BY <1>7, <2>1, <2>2 DEF BeginBan, Typed
<1>8. CASE WriteBan(h)
  <2>1. op[h] \in Banner /\ op[h].user \in Users /\ op[h].until \in {Forever, BanTicks, None}
    BY <1>0, <1>8 DEF WriteBan, Opener, Changer, Banner
  <2>2. ban[op[h].user].left \in {Forever} \cup 0..BanTicks /\ BanTicks \in 0..BanTicks
    BY <2>1, SessionsAssumption DEF Typed, Ban
  <2>3. ban' \in [Users -> Ban]
    BY <1>8, <2>1, <2>2 DEF WriteBan, Typed, Ban
  <2>4. [kind |-> "ban", user |-> op[h].user, step |-> "drop"] \in Banner
    BY <2>1 DEF Banner
  <2>5. op' \in Ops
    BY <1>8, <2>1, <2>4, CrossedTyped DEF WriteBan, Ops
  <2>6. QED
    BY <1>8, <2>3, <2>5 DEF WriteBan, Typed
<1>9. CASE DropBanned(h)
  <2>1. op[h].user \in Users
    BY <1>0, <1>9 DEF DropBanned, Opener, Changer, Banner
  <2>2. op' \in Ops /\ session' \in Rows
    BY <1>9, <2>1, CrossedTyped, WithoutTyped DEF DropBanned, Ops
  <2>3. QED
    BY <1>9, <2>2 DEF DropBanned, Typed
<1>10. CASE Abort(h)
  <2>1. op[h].user \in Users
    BY <1>0, <1>10 DEF Abort, Opener, Changer, Banner
  <2>2. op' \in Ops /\ session' \in Rows
    BY <1>10, <2>1, CrossedTyped, LoosenedTyped DEF Abort, Finish, Typed, Ops
  <2>3. QED
    BY <1>10, <2>2 DEF Abort, Typed
<1>11. QED
  BY <1>1, <1>2, <1>3, <1>4, <1>5, <1>6, <1>7, <1>8, <1>9, <1>10 DEF Step

LEMMA TypedAtOnce ==
    ASSUME Typed, NEW s \in Sessions, AtOnce(s)
    PROVE  Typed'
<1>1. CASE SignOut(s)
  BY <1>1 DEF SignOut, Typed, Rows
<1>2. CASE Use(s)
  BY <1>2, SeenTyped DEF Use, Typed
<1>3. ASSUME NEW u \in Users, UpdateBan(s, u) PROVE Typed'
  <2>1. PICK b \in {[on |-> FALSE, left |-> Forever], [ban[u] EXCEPT !.on = FALSE],
                    [ban[u] EXCEPT !.left = BanTicks]} :
          /\ ban' = [ban EXCEPT ![u] = b]
          /\ Seen(s, IF InForce(b) /\ ~InForce(ban[u]) THEN Loosened(u) ELSE session)
          /\ op' = IF InForce(b) /\ ~InForce(ban[u]) THEN Crossed("loose", u, Opening) ELSE op
    BY <1>3 DEF UpdateBan
  <2>2. b \in Ban
    <3>1. ban[u] \in Ban /\ BanTicks \in 0..BanTicks
      BY SessionsAssumption DEF Typed
    <3>2. /\ [ban[u] EXCEPT !.on = FALSE] \in Ban /\ [ban[u] EXCEPT !.left = BanTicks] \in Ban
          /\ [on |-> FALSE, left |-> Forever] \in Ban
      BY <3>1 DEF Ban
    <3>3. QED
      BY <2>1, <3>2
  <2>3. session' \in Rows /\ refresh' \in [Sessions -> Refresh]
    BY <2>1, SeenTyped, LoosenedTyped DEF Typed
  <2>4. op' \in Ops
    BY <2>1, CrossedTyped DEF Typed
  <2>5. QED
    BY <1>3, <2>1, <2>2, <2>3, <2>4 DEF UpdateBan, Typed
<1>4. ASSUME NEW u \in Users, SetUserPassword(s, u) PROVE Typed'
  BY <1>4, SeenTyped DEF SetUserPassword, Typed
<1>5. ASSUME NEW u \in Users, RevokeAll(s, u) PROVE Typed'
  BY <1>5, SeenTyped, WithoutTyped DEF RevokeAll, Typed
<1>6. ASSUME NEW u \in Users, Impersonate(s, u) PROVE Typed'
  <2>1. PICK t \in Sessions :
          Seen(s, [session EXCEPT ![t] =
                     Opened(u, session[s].user, ImpersonationTTL, password[u], FALSE, FALSE)])
    BY <1>6 DEF Impersonate
  <2>2. session[s].user \in Users /\ ImpersonationTTL \in 0..SessionTTL
    BY <1>6, SessionsAssumption DEF Impersonate, AdminBy, Live, Typed, Rows, Row
  <2>3. Opened(u, session[s].user, ImpersonationTTL, password[u], FALSE, FALSE) \in Row
    BY <2>2, OpenedTyped DEF Typed
  <2>4. session' \in Rows /\ refresh' \in [Sessions -> Refresh]
    BY <2>1, <2>3, SeenTyped DEF Typed, Rows
  <2>5. QED
    BY <1>6, <2>4 DEF Impersonate, Typed
<1>7. ASSUME NEW t \in Sessions, Revoke(s, t) PROVE Typed'
  <2>1. [session EXCEPT ![t] = None] \in Rows
    BY DEF Typed, Rows
  <2>2. QED
    BY <1>7, <2>1, SeenTyped DEF Revoke, Typed
<1>8. ASSUME NEW t \in Sessions, StopImpersonating(s, t) PROVE Typed'
  BY <1>8 DEF StopImpersonating, Typed, Rows
<1>9. QED
  BY <1>1, <1>2, <1>3, <1>4, <1>5, <1>6, <1>7, <1>8 DEF AtOnce

LEMMA TypedClock ==
    ASSUME Typed, (\E s \in Sessions : RefreshWrite(s) \/ RefreshFails(s)) \/ Tick
    PROVE  Typed'
<1>1. ASSUME NEW s \in Sessions, RefreshWrite(s) PROVE Typed'
  <2>1. session[s] # None => [session[s] EXCEPT !.left = SessionTTL, !.age = 0, !.idle = 0] \in Row
    <3>1. /\ session[s] # None => session[s] \in Row
          /\ SessionTTL \in 0..SessionTTL /\ 0 \in 0..UpdateAge
          /\ 0 \in 0..SessionTTL - UpdateAge + 1
      BY SessionsAssumption DEF Typed, Rows
    <3>2. QED
      BY <3>1 DEF Row
  <2>2. session' \in Rows
    BY <1>1, <2>1 DEF RefreshWrite, Typed, Rows
  <2>3. QED
    BY <1>1, <2>2 DEF RefreshWrite, Typed, Refresh
<1>2. ASSUME NEW s \in Sessions, RefreshFails(s) PROVE Typed'
  BY <1>2 DEF RefreshFails, Typed, Refresh
<1>3. CASE Tick
  <2>1. ASSUME NEW s \in Sessions, session[s] # None
        PROVE  [session[s] EXCEPT !.left = Nearer(@), !.age = Older(@, UpdateAge),
                                  !.idle = Older(@, SessionTTL - UpdateAge + 1)] \in Row
    <3>1. session[s] \in Row
      BY <2>1 DEF Typed, Rows
    <3>2. /\ Nearer(session[s].left) \in 0..SessionTTL
          /\ Older(session[s].age, UpdateAge) \in 0..UpdateAge
          /\ Older(session[s].idle, SessionTTL - UpdateAge + 1) \in 0..SessionTTL - UpdateAge + 1
      BY <3>1, SessionsAssumption DEF Row, Nearer, Older
    <3>3. QED
      BY <3>1, <3>2 DEF Row
  <2>2. ASSUME NEW u \in Users PROVE [ban[u] EXCEPT !.left = Nearer(@)] \in Ban
    <3>1. ban[u] \in Ban /\ Nearer(ban[u].left) \in {Forever} \cup 0..BanTicks
      BY SessionsAssumption DEF Typed, Ban, Nearer, Forever
    <3>2. QED
      BY <3>1 DEF Ban
  <2>3. session' \in Rows /\ ban' \in [Users -> Ban] /\ refresh' \in [Sessions -> Refresh]
    BY <1>3, <2>1, <2>2 DEF Tick, Rows, Refresh
  <2>4. QED
    BY <1>3, <2>3 DEF Tick, Typed
<1>4. QED
  BY <1>1, <1>2, <1>3

LEMMA TypedNext == ASSUME Typed, [Next]_vars PROVE Typed'
<1>1. CASE UNCHANGED vars
  BY <1>1 DEF vars, Typed
<1>2. QED
  BY <1>1, TypedStep, TypedAtOnce, TypedClock DEF Next

-----------------------------------------------------------------------------
(* The expiry of a session. *)

\* What is left of a session not yet due for a refresh, and of one that is: used often
\* enough, it has time left.
Rolling ==
    \A s \in Sessions : session[s] # None /\ session[s].by = None =>
        IF session[s].age < UpdateAge
        THEN session[s].left = SessionTTL - session[s].age
        ELSE session[s].left + session[s].idle > SessionTTL - UpdateAge

\* An impersonation is gone before it is old enough for a refresh.
ImpersonationsFade ==
    \A s \in Sessions : session[s] # None /\ session[s].by # None =>
        /\ session[s].left + session[s].age <= ImpersonationTTL \/ session[s].left = 0
        /\ refresh[s] = "none"

\* What a step can do to the row of one session, n, and to its refresh, f.
Drops(s, n) == n = None
Opens(s, n, f) ==
    /\ session[s] = None /\ refresh[s] = "none" /\ f = "none"
    /\ n.age = 0
    /\ n.left = IF n.by = None THEN SessionTTL ELSE ImpersonationTTL
Keeps(s, n, f) ==
    /\ session[s] # None
    /\ n.by = session[s].by /\ n.left = session[s].left /\ n.age = session[s].age
    /\ n.idle = session[s].idle \/ session[s].age < UpdateAge
    /\ f \in {"none", refresh[s]} \/ (session[s].age >= UpdateAge /\ session[s].left > 0)
Refreshes(s, n) ==
    /\ session[s] # None /\ refresh[s] # "none"
    /\ n.by = session[s].by /\ n.left = SessionTTL /\ n.age = 0
Ages(s, n, f) ==
    /\ session[s] # None /\ n.by = session[s].by
    /\ n.left = Nearer(session[s].left) /\ n.age = Older(session[s].age, UpdateAge)
    /\ n.idle = Older(session[s].idle, SessionTTL - UpdateAge + 1)
    /\ refresh[s] = "none" => f = "none"

RowStep(s, n, f) ==
    Drops(s, n) \/ Opens(s, n, f) \/ Keeps(s, n, f) \/ Refreshes(s, n) \/ Ages(s, n, f)

\* The rows a request that resolved session s leaves: some are gone, one may be new.
Left(s, rows) ==
    \A t \in Sessions :
        \/ rows[t] = None
        \/ t # s /\ Opens(t, rows[t], refresh[t])
        \/ /\ session[t] # None
           /\ rows[t].by = session[t].by /\ rows[t].left = session[t].left
           /\ rows[t].age = session[t].age /\ rows[t].idle = session[t].idle

LEMMA SeenSteps ==
    ASSUME Typed, NEW s \in Sessions, NEW rows \in Rows, Live(s), Seen(s, rows), Left(s, rows)
    PROVE  \A t \in Sessions : RowStep(t, session'[t], refresh'[t])
<1> SUFFICES ASSUME NEW t \in Sessions PROVE RowStep(t, session'[t], refresh'[t])
  OBVIOUS
<1>0. session[s] # None /\ session[s].left > 0 /\ session[s] \in Row
  BY DEF Live, Typed, Rows
<1>1. CASE t # s
  <2>1. session'[t] = rows[t] /\ refresh'[t] = refresh[t]
    BY <1>1 DEF Seen, Typed, Rows
  <2>2. QED
    BY <1>1, <2>1 DEF Left, RowStep, Drops, Keeps
<1>2. CASE t = s /\ rows[s] = None
  <2>1. session'[t] = None
    BY <1>2 DEF Seen, Rows
  <2>2. QED
    BY <2>1 DEF RowStep, Drops
<1>3. CASE t = s /\ rows[s] # None
  <2>1. /\ rows[s] \in Row
        /\ rows[s].by = session[s].by /\ rows[s].left = session[s].left
        /\ rows[s].age = session[s].age /\ rows[s].idle = session[s].idle
    BY <1>3 DEF Rows, Left
  <2>2. CASE session[s].age < UpdateAge
    <3>1. session'[s] = [rows[s] EXCEPT !.idle = 0] /\ refresh'[s] = refresh[s]
      BY <1>3, <2>2 DEF Seen, Rows
    <3>2. /\ session'[s].by = rows[s].by /\ session'[s].left = rows[s].left
          /\ session'[s].age = rows[s].age
      BY <2>1, <3>1 DEF Row
    <3>3. QED
      BY <1>0, <1>3, <2>1, <2>2, <3>1, <3>2 DEF RowStep, Keeps
  <2>3. CASE ~(session[s].age < UpdateAge)
    <3>1. session'[s] = rows[s] /\ session[s].age >= UpdateAge
      BY <1>0, <1>3, <2>3, SessionsAssumption DEF Seen, Row
    <3>2. QED
      BY <1>0, <1>3, <2>1, <3>1 DEF RowStep, Keeps
  <2>4. QED
    BY <2>2, <2>3
<1>4. QED
  BY <1>1, <1>2, <1>3

LEMMA LeftAlone ==
    ASSUME Typed, NEW s \in Sessions, NEW u \in Users
    PROVE  /\ session \in Rows /\ Left(s, session)
           /\ Left(s, Without(u)) /\ Left(s, Loosened(u))
           /\ \A t \in Sessions : Left(s, [session EXCEPT ![t] = None])
<1>1. Left(s, session) /\ session \in Rows
  BY DEF Left, Typed, Rows
<1>2. Left(s, Without(u))
  BY DEF Left, Without
<1>3. Left(s, Loosened(u))
  BY DEF Left, Loosened, Typed, Rows, Row
<1>4. ASSUME NEW t \in Sessions PROVE Left(s, [session EXCEPT ![t] = None])
  BY DEF Left, Typed, Rows
<1>5. QED
  BY <1>1, <1>2, <1>3, <1>4

\* Every step is one of these for every row.
LEMMA RowSteps ==
    ASSUME Typed, [Next]_vars
    PROVE  \A t \in Sessions : RowStep(t, session'[t], refresh'[t])
<1> DEFINE P == \A t \in Sessions : RowStep(t, session'[t], refresh'[t])
<1>1. CASE UNCHANGED <<session, refresh>>
  BY <1>1 DEF RowStep, Drops, Keeps
<1>2. ASSUME NEW r, Insert(r), refresh' = refresh, r.age = 0,
             r.left = IF r.by = None THEN SessionTTL ELSE ImpersonationTTL
      PROVE  P
  <2>1. PICK s \in Sessions : Unseen(s) /\ session' = [session EXCEPT ![s] = r]
    BY <1>2 DEF Insert
  <2>2. /\ session'[s] = r /\ refresh'[s] = "none"
        /\ \A t \in Sessions \ {s} : session'[t] = session[t] /\ refresh'[t] = refresh[t]
    BY <1>2, <2>1 DEF Unseen, Typed, Rows
  <2>3. QED
    BY <1>2, <2>1, <2>2 DEF RowStep, Opens, Drops, Keeps, Unseen
<1>3. ASSUME NEW h \in Handlers, Step(h) PROVE P
  <2>1. ASSUME SignedIn(h) \/ Reopen(h) PROVE P
    <3>1. PICK loose, stale, pw, u :
             Insert(Opened(u, None, SessionTTL, pw, loose, stale)) /\ refresh' = refresh
      BY <2>1 DEF SignedIn, Reopen
    <3>2. QED
      BY <1>2, <3>1 DEF Opened
  <2>2. ASSUME NEW u \in Users, session' = Without(u) \/ session' = Loosened(u), refresh' = refresh
        PROVE  P
    <3> SUFFICES ASSUME NEW t \in Sessions PROVE RowStep(t, session'[t], refresh'[t])
      OBVIOUS
    <3>1. \/ session'[t] = None \/ session'[t] = session[t]
          \/ session[t] # None /\ session'[t] = [session[t] EXCEPT !.loose = TRUE]
      BY <2>2 DEF Without, Loosened
    <3>2. session[t] # None => session[t] \in Row
      BY DEF Typed, Rows
    <3>3. QED
      BY <2>2, <3>1, <3>2 DEF RowStep, Drops, Keeps, Row
  <2>3. CASE DropOthers(h) \/ DropBanned(h)
    <3>1. op[h].user \in Users /\ session' = Without(op[h].user) /\ refresh' = refresh
      BY <2>3 DEF DropOthers, DropBanned, Typed, Ops, Opener, Changer, Banner
    <3>2. QED
      BY <2>2, <3>1
  <2>4. CASE Abort(h)
    <3>1. op[h].user \in Users
      BY <2>4 DEF Abort, Typed, Ops, Opener, Changer, Banner
    <3>2. QED
      BY <1>1, <2>2, <2>4, <3>1 DEF Abort
  <2>5. ASSUME NEW s \in Sessions, Live(s), Seen(s, session) PROVE P
    <3>1. PICK u \in Users : TRUE
      BY <2>5 DEF Live, Typed, Rows, Row
    <3>2. QED
      BY <2>5, <3>1, SeenSteps, LeftAlone
  <2>6. QED
    BY <1>1, <1>3, <2>1, <2>3, <2>4, <2>5
    DEF Step, Verify, VerifyBlind, BeginChange, SetPassword, BeginBan, WriteBan, AdminBy
<1>4. ASSUME NEW s \in Sessions, AtOnce(s) PROVE P
  <2>1. ASSUME NEW t \in Sessions, session' = [session EXCEPT ![t] = None], refresh' = refresh
        PROVE  P
    BY <2>1 DEF RowStep, Drops, Keeps, Typed, Rows
  <2>2. CASE Use(s)
    <3>1. PICK u \in Users : TRUE
      BY <2>2 DEF Use, Live, Typed, Rows, Row
    <3>2. QED
      BY <2>2, <3>1, SeenSteps, LeftAlone DEF Use
  <2>3. ASSUME NEW u \in Users, UpdateBan(s, u) \/ SetUserPassword(s, u) \/ RevokeAll(s, u) PROVE P
    BY <2>3, SeenSteps, LeftAlone, LoosenedTyped, WithoutTyped
    DEF UpdateBan, SetUserPassword, RevokeAll, AdminBy
  <2>4. ASSUME NEW u \in Users, Impersonate(s, u) PROVE P
    <3> DEFINE r == Opened(u, session[s].user, ImpersonationTTL, password[u], FALSE, FALSE)
    <3>1. PICK t \in Sessions : Unseen(t) /\ Seen(s, [session EXCEPT ![t] = r])
      BY <2>4 DEF Impersonate
    <3>2. Live(s) /\ session[s].user \in Users /\ ImpersonationTTL \in 0..SessionTTL
      BY <2>4, SessionsAssumption DEF Impersonate, AdminBy, Live, Typed, Rows, Row
    <3>3. r \in Row /\ r.age = 0 /\ r.left = ImpersonationTTL /\ r.by # None
      BY <3>2, OpenedTyped, SessionsAssumption DEF Typed, Opened
    <3> HIDE DEF r
    <3>4. [session EXCEPT ![t] = r] \in Rows /\ s # t
      BY <3>1, <3>2, <3>3 DEF Typed, Rows, Unseen, Live
    <3>5. Left(s, [session EXCEPT ![t] = r])
      BY <3>1, <3>3, <3>4 DEF Left, Opens, Unseen, Typed, Rows
    <3>6. QED
      BY <3>1, <3>2, <3>4, <3>5, SeenSteps
  <2>5. ASSUME NEW t \in Sessions, Revoke(s, t) PROVE P
    <3>1. PICK u \in Users : TRUE
      BY <2>5 DEF Revoke, Live, Typed, Rows, Row
    <3>2. [session EXCEPT ![t] = None] \in Rows
      BY DEF Typed, Rows
    <3>3. QED
      BY <2>5, <3>1, <3>2, SeenSteps, LeftAlone DEF Revoke
  <2>6. QED
    BY <1>4, <2>1, <2>2, <2>3, <2>4, <2>5 DEF AtOnce, SignOut, StopImpersonating
<1>5. ASSUME NEW s \in Sessions, RefreshWrite(s) \/ RefreshFails(s) PROVE P
  <2>1. \A t \in Sessions \ {s} : session'[t] = session[t] /\ refresh'[t] = refresh[t]
    BY <1>5 DEF RefreshWrite, RefreshFails, Typed, Rows
  <2>2. RowStep(s, session'[s], refresh'[s])
    BY <1>5 DEF RefreshWrite, RefreshFails, Typed, Rows, Row, RowStep, Drops, Keeps, Refreshes
  <2>3. QED
    BY <2>1, <2>2 DEF RowStep, Drops, Keeps
<1>6. CASE Tick
  BY <1>6 DEF Tick, Typed, Rows, Row, RowStep, Drops, Ages
<1>7. QED
  BY <1>1, <1>3, <1>4, <1>5, <1>6 DEF Next, vars

LEMMA ClockInit == Init => Rolling /\ ImpersonationsFade
BY DEF Init, Rolling, ImpersonationsFade

LEMMA ClockNext ==
    ASSUME Typed, Typed', Rolling, ImpersonationsFade, [Next]_vars
    PROVE  Rolling' /\ ImpersonationsFade'
<1> SUFFICES ASSUME NEW s \in Sessions, session'[s] # None
             PROVE  /\ session'[s].by = None =>
                         IF session'[s].age < UpdateAge
                         THEN session'[s].left = SessionTTL - session'[s].age
                         ELSE session'[s].left + session'[s].idle > SessionTTL - UpdateAge
                    /\ session'[s].by # None =>
                         /\ \/ session'[s].left + session'[s].age <= ImpersonationTTL
                            \/ session'[s].left = 0
                         /\ refresh'[s] = "none"
  BY DEF Rolling, ImpersonationsFade
<1>1. RowStep(s, session'[s], refresh'[s])
  BY RowSteps
<1>2. session'[s] \in Row /\ (session[s] # None => session[s] \in Row)
  BY DEF Typed, Rows
<1>3. CASE Opens(s, session'[s], refresh'[s])
  BY <1>2, <1>3, SessionsAssumption DEF Opens, Row
<1>4. CASE Keeps(s, session'[s], refresh'[s])
  BY <1>2, <1>4, SessionsAssumption DEF Keeps, Row, Rolling, ImpersonationsFade
<1>5. CASE Refreshes(s, session'[s])
  BY <1>2, <1>5, SessionsAssumption DEF Refreshes, Row, Rolling, ImpersonationsFade
<1>6. CASE Ages(s, session'[s], refresh'[s])
  BY <1>2, <1>6, SessionsAssumption DEF Ages, Row, Rolling, ImpersonationsFade, Nearer, Older
<1>7. QED
  BY <1>1, <1>3, <1>4, <1>5, <1>6 DEF RowStep, Drops

-----------------------------------------------------------------------------
(* Whose a session is, and what opened it. *)

\* A request on its way to opening a session.
Admits(h) == op[h] # Idle /\ op[h].kind # "ban"

Stays(s, n) ==
    /\ session[s] # None
    /\ n.user = session[s].user /\ n.by = session[s].by
    /\ n.pw = session[s].pw /\ n.stale = session[s].stale
    /\ session[s].loose => n.loose
OpenedBy(h, n) ==
    /\ Admits(h)
    /\ n.user = op[h].user /\ n.by = None
    /\ n.pw = op[h].pw /\ n.loose = op[h].loose /\ n.stale = op[h].stale

OwnerStep(n, s) ==
    n = None \/ Stays(s, n) \/ n.by # None \/ \E h \in Handlers : OpenedBy(h, n)

LEMMA SeenOwners ==
    ASSUME Typed, NEW s \in Sessions, NEW rows \in Rows, Seen(s, rows),
           \A t \in Sessions : OwnerStep(rows[t], t)
    PROVE  /\ \A t \in Sessions : OwnerStep(session'[t], t)
           /\ \A t \in Sessions : session'[t] # None /\ rows[t] # None =>
                 session'[t].loose = rows[t].loose /\ session'[t].user = rows[t].user
<1> SUFFICES ASSUME NEW t \in Sessions
             PROVE  /\ OwnerStep(session'[t], t)
                    /\ session'[t] # None /\ rows[t] # None =>
                          session'[t].loose = rows[t].loose /\ session'[t].user = rows[t].user
  OBVIOUS
<1>1. session'[t] = rows[t] \/ (rows[t] # None /\ session'[t] = [rows[t] EXCEPT !.idle = 0])
  BY DEF Seen, Rows
<1>2. CASE session'[t] = rows[t]
  BY <1>2
<1>3. CASE rows[t] # None /\ session'[t] = [rows[t] EXCEPT !.idle = 0]
  <2>1. rows[t] \in Row
    BY <1>3 DEF Rows
  <2>2. /\ session'[t].user = rows[t].user /\ session'[t].by = rows[t].by
        /\ session'[t].pw = rows[t].pw /\ session'[t].stale = rows[t].stale
        /\ session'[t].loose = rows[t].loose
    BY <1>3, <2>1 DEF Row
  <2>3. QED
    BY <1>3, <2>2 DEF OwnerStep, Stays, OpenedBy
<1>4. QED
  BY <1>1, <1>2, <1>3

LEMMA OwnersAlone ==
    ASSUME Typed, NEW u \in Users, NEW t \in Sessions
    PROVE  /\ session \in Rows /\ OwnerStep(session[t], t)
           /\ OwnerStep(Without(u)[t], t) /\ OwnerStep(Loosened(u)[t], t)
           /\ \A s \in Sessions : OwnerStep([session EXCEPT ![s] = None][t], t)
<1>0. session[t] # None => session[t] \in Row
  BY DEF Typed, Rows
<1>1. session \in Rows /\ OwnerStep(session[t], t)
  BY DEF Typed, OwnerStep, Stays
<1>2. OwnerStep(Without(u)[t], t)
  BY DEF Without, OwnerStep, Stays
<1>3. OwnerStep(Loosened(u)[t], t)
  BY <1>0 DEF Loosened, OwnerStep, Stays, Row
<1>4. ASSUME NEW s \in Sessions PROVE OwnerStep([session EXCEPT ![s] = None][t], t)
  BY DEF Typed, Rows, OwnerStep, Stays
<1>5. QED
  BY <1>1, <1>2, <1>3, <1>4

LEMMA OwnerSteps ==
    ASSUME Typed, [Next]_vars
    PROVE  \A t \in Sessions : OwnerStep(session'[t], t)
<1> DEFINE P == \A t \in Sessions : OwnerStep(session'[t], t)
<1>1. CASE UNCHANGED session
  BY <1>1 DEF OwnerStep, Stays
<1>2. ASSUME NEW h \in Handlers, Step(h) PROVE P
  <2>1. CASE SignedIn(h) \/ Reopen(h)
    <3> DEFINE r == Opened(op[h].user, None, SessionTTL, op[h].pw, op[h].loose, op[h].stale)
    <3>1. PICK s \in Sessions : session' = [session EXCEPT ![s] = r]
      BY <2>1 DEF SignedIn, Reopen, Insert
    <3>2. OpenedBy(h, r)
      BY <2>1 DEF SignedIn, Reopen, OpenedBy, Admits, Opened
    <3> HIDE DEF r
    <3>3. \A t \in Sessions : session'[t] = r \/ session'[t] = session[t]
      BY <3>1 DEF Typed, Rows
    <3>4. QED
      BY <3>2, <3>3 DEF OwnerStep, Stays
  <2>2. ASSUME NEW u \in Users, session' = Without(u) \/ session' = Loosened(u) PROVE P
    BY <2>2, OwnersAlone
  <2>3. CASE DropOthers(h) \/ DropBanned(h) \/ Abort(h)
    <3>1. op[h].user \in Users
      BY <2>3 DEF DropOthers, DropBanned, Abort, Typed, Ops, Opener, Changer, Banner
    <3>2. QED
      BY <1>1, <2>2, <2>3, <3>1 DEF DropOthers, DropBanned, Abort
  <2>4. ASSUME NEW s \in Sessions, Live(s), Seen(s, session) PROVE P
    <3>1. PICK u \in Users : TRUE
      BY <2>4 DEF Live, Typed, Rows, Row
    <3>2. QED
      BY <2>4, <3>1, SeenOwners, OwnersAlone
  <2>5. QED
    BY <1>1, <1>2, <2>1, <2>3, <2>4
    DEF Step, Verify, VerifyBlind, BeginChange, SetPassword, BeginBan, WriteBan, AdminBy
<1>3. ASSUME NEW s \in Sessions, AtOnce(s) PROVE P
  <2>1. ASSUME NEW u \in Users, NEW t \in Sessions, session' = [session EXCEPT ![t] = None] PROVE P
    BY <2>1, OwnersAlone
  <2>2. CASE SignOut(s) \/ \E t \in Sessions : StopImpersonating(s, t)
    <3>1. PICK u \in Users : TRUE
      BY <2>2 DEF SignOut, StopImpersonating, Typed, Rows, Row
    <3>2. QED
      BY <2>1, <2>2, <3>1 DEF SignOut, StopImpersonating
  <2>3. CASE Use(s)
    <3>1. PICK u \in Users : TRUE
      BY <2>3 DEF Use, Live, Typed, Rows, Row
    <3>2. QED
      BY <2>3, <3>1, SeenOwners, OwnersAlone DEF Use
  <2>4. ASSUME NEW u \in Users, UpdateBan(s, u) \/ SetUserPassword(s, u) \/ RevokeAll(s, u) PROVE P
    BY <2>4, SeenOwners, OwnersAlone, LoosenedTyped, WithoutTyped
    DEF UpdateBan, SetUserPassword, RevokeAll
  <2>5. ASSUME NEW u \in Users, Impersonate(s, u) PROVE P
    <3> DEFINE r == Opened(u, session[s].user, ImpersonationTTL, password[u], FALSE, FALSE)
    <3>1. PICK t \in Sessions : Seen(s, [session EXCEPT ![t] = r])
      BY <2>5 DEF Impersonate
    <3>2. session[s].user \in Users /\ ImpersonationTTL \in 0..SessionTTL
      BY <2>5, SessionsAssumption DEF Impersonate, AdminBy, Live, Typed, Rows, Row
    <3>3. r \in Row /\ r.by # None
      BY <3>2, OpenedTyped, SessionsAssumption DEF Typed, Opened
    <3> HIDE DEF r
    <3>4. [session EXCEPT ![t] = r] \in Rows
      BY <3>3 DEF Typed, Rows
    <3>5. \A i \in Sessions : OwnerStep([session EXCEPT ![t] = r][i], i)
      BY <3>3 DEF OwnerStep, Stays, Typed, Rows
    <3>6. QED
      BY <3>1, <3>4, <3>5, SeenOwners
  <2>6. ASSUME NEW t \in Sessions, Revoke(s, t) PROVE P
    <3>1. PICK u \in Users : TRUE
      BY <2>6 DEF Revoke, Live, Typed, Rows, Row
    <3>2. [session EXCEPT ![t] = None] \in Rows
      BY DEF Typed, Rows
    <3>3. QED
      BY <2>6, <3>1, <3>2, SeenOwners, OwnersAlone DEF Revoke
  <2>7. QED
    BY <1>3, <2>2, <2>3, <2>4, <2>5, <2>6 DEF AtOnce
<1>4. ASSUME NEW s \in Sessions, RefreshWrite(s) \/ RefreshFails(s) PROVE P
  BY <1>4 DEF RefreshWrite, RefreshFails, Typed, Rows, Row, OwnerStep, Stays
<1>5. CASE Tick
  BY <1>5, ZenonT(30) DEF Tick, Typed, Rows, Row, OwnerStep, Stays
<1>6. QED
  BY <1>1, <1>2, <1>3, <1>4, <1>5 DEF Next, vars

-----------------------------------------------------------------------------
(* Passwords. *)

\* A change of password that has stored the new one and is to sign everyone else out.
Announces(h) == op[h] # Idle /\ op[h].kind = "change" /\ op[h].step \in {"drop", "create"}

\* Who holds a password that a revoking change has replaced, or will have, is stale.
PasswordsKnown ==
    /\ \A u \in Users : revoked[u] <= password[u]
    /\ \A h \in Handlers : Admits(h) =>
          /\ op[h].pw <= password[op[h].user]
          /\ op[h].pw < revoked[op[h].user] => op[h].stale
    /\ \A g, h \in Handlers :
          Admits(g) /\ Announces(h) /\ op[g].user = op[h].user /\ op[g].pw < op[h].pw => op[g].stale

\* What a step does to a request of handler g, as far as passwords go.
SamePassword(g) ==
    Admits(g)' => /\ Admits(g)
                  /\ op'[g].user = op[g].user /\ op'[g].pw = op[g].pw
                  /\ op[g].stale => op'[g].stale
                  /\ Announces(g)' => Announces(g)
NewestPassword(g) ==
    /\ password' = password /\ Admits(g)' /\ ~Announces(g)'
    /\ op'[g].pw = password[op'[g].user]

LEMMA PasswordsKept ==
    ASSUME Typed, Typed', PasswordsKnown, revoked' = revoked,
           \A u \in Users : password[u] <= password'[u],
           \A g \in Handlers : SamePassword(g) \/ NewestPassword(g)
    PROVE  PasswordsKnown'
<1>0. \A g \in Handlers :
        /\ Admits(g) => op[g].user \in Users /\ op[g].pw \in Nat
        /\ Admits(g)' => op'[g].user \in Users /\ op'[g].pw \in Nat
        /\ Announces(g) => Admits(g)
  BY DEF Typed, Ops, Admits, Announces, Opener, Changer, Banner
<1>1. \A u \in Users : revoked'[u] <= password'[u]
  BY DEF Typed, PasswordsKnown
<1>2. ASSUME NEW g \in Handlers, Admits(g)'
      PROVE  op'[g].pw <= password'[op'[g].user] /\ (op'[g].pw < revoked'[op'[g].user] => op'[g].stale)
  <2>1. CASE SamePassword(g)
    BY <1>0, <1>2, <2>1 DEF SamePassword, PasswordsKnown, Typed
  <2>2. CASE NewestPassword(g)
    BY <1>0, <1>2, <2>2 DEF NewestPassword, PasswordsKnown, Typed
  <2>3. QED
    BY <2>1, <2>2
<1>3. ASSUME NEW g \in Handlers, NEW h \in Handlers,
             Admits(g)', Announces(h)', op'[g].user = op'[h].user, op'[g].pw < op'[h].pw
      PROVE  op'[g].stale
  <2>1. SamePassword(h) /\ Announces(h) /\ Admits(h) /\ op'[h].user = op[h].user /\ op'[h].pw = op[h].pw
    BY <1>0, <1>3 DEF NewestPassword, SamePassword, Announces, Admits
  <2>2. CASE SamePassword(g)
    BY <1>3, <2>1, <2>2 DEF SamePassword, PasswordsKnown
  <2>3. CASE NewestPassword(g)
    BY <1>0, <1>3, <2>1, <2>3 DEF NewestPassword, PasswordsKnown, Typed
  <2>4. QED
    BY <2>2, <2>3
<1>4. QED
  BY <1>1, <1>2, <1>3 DEF PasswordsKnown

\* The requests a step of handler h leaves alone.
LEMMA OthersAlone ==
    ASSUME Typed, NEW h \in Handlers, NEW o, op' = [op EXCEPT ![h] = o]
    PROVE  op'[h] = o /\ \A g \in Handlers \ {h} : op'[g] = op[g] /\ SamePassword(g)
BY DEF Typed, Ops, SamePassword, Admits, Announces

LEMMA CrossedSame ==
    ASSUME Typed, NEW u \in Users, NEW mark \in {"loose", "stale"}, NEW steps, NEW g \in Handlers,
           op'[g] = Crossed(mark, u, steps)[g]
    PROVE  SamePassword(g)
<1>1. /\ op'[g] = Idle <=> op[g] = Idle
      /\ op[g] # Idle => /\ op'[g].kind = op[g].kind /\ op'[g].user = op[g].user
                         /\ op'[g].step = op[g].step
      /\ op[g] # Idle /\ op[g].kind # "ban" =>
            /\ op'[g].pw = op[g].pw
            /\ op'[g].stale =
                  (op[g].stale \/ (op[g].user = u /\ op[g].step \in steps /\ mark = "stale"))
  BY CrossedOp
<1>2. QED
  BY <1>1 DEF SamePassword, Admits, Announces

LEMMA PasswordsNext ==
    ASSUME Typed, Typed', PasswordsKnown, [Next]_vars
    PROVE  PasswordsKnown'
<1>0. \A g \in Handlers : op[g] \in Opener \cup Changer \cup Banner \cup {Idle}
  BY DEF Typed, Ops
<1>1. CASE op' = op /\ password' = password /\ revoked' = revoked
  BY <1>1, PasswordsKept DEF SamePassword, Admits, Announces, Typed
<1>2. ASSUME NEW h \in Handlers, Step(h) PROVE PasswordsKnown'
  <2>1. ASSUME NEW u \in Users, Verify(h, u) \/ VerifyBlind(h, u) PROVE PasswordsKnown'
    <3>1. /\ op'[h].user = u /\ op'[h].pw = password[u] /\ op'[h].kind = "sign-in"
          /\ revoked' = revoked /\ password' = password
          /\ \A g \in Handlers \ {h} : SamePassword(g)
      BY <2>1, OthersAlone DEF Verify, VerifyBlind, SignIn
    <3>2. NewestPassword(h)
      BY <3>1 DEF NewestPassword, Admits, Announces, Idle
    <3>3. QED
      BY <3>1, <3>2, PasswordsKept DEF Typed
  <2>2. ASSUME NEW s \in Sessions, NEW revoke \in BOOLEAN, BeginChange(h, s, revoke)
        PROVE  PasswordsKnown'
    <3> DEFINE o == [kind |-> "change", user |-> session[s].user,
                     pw |-> password[session[s].user], step |-> "set", revoke |-> revoke,
                     loose |-> session[s].loose \/ session[s].by # None, stale |-> FALSE]
    <3>0. op' = [op EXCEPT ![h] = o] /\ revoked' = revoked /\ password' = password
      BY <2>2 DEF BeginChange
    <3>a. /\ o.user = session[s].user /\ o.pw = password[session[s].user]
          /\ o.kind = "change" /\ o.step = "set"
      OBVIOUS
    <3> HIDE DEF o
    <3>1. /\ op'[h].user = session[s].user /\ op'[h].pw = password[session[s].user]
          /\ op'[h].kind = "change" /\ op'[h].step = "set"
          /\ revoked' = revoked /\ password' = password
          /\ \A g \in Handlers \ {h} : SamePassword(g)
      BY <3>0, <3>a, OthersAlone
    <3>2. NewestPassword(h)
      BY <3>1 DEF NewestPassword, Admits, Announces, Idle
    <3>3. QED
      BY <3>1, <3>2, PasswordsKept DEF Typed
  <2>3. ASSUME NEW o, op' = [op EXCEPT ![h] = o], o = Idle \/ o.kind = "ban",
               revoked' = revoked, password' = password
        PROVE  PasswordsKnown'
    <3>1. op'[h] = o /\ \A g \in Handlers \ {h} : SamePassword(g)
      BY <2>3, OthersAlone DEF Typed, Ops
    <3>a. SamePassword(h)
      BY <2>3, <3>1 DEF SamePassword, Admits
    <3>2. QED
      BY <2>3, <3>1, <3>a, PasswordsKept DEF Typed
  <2>4. CASE SignedIn(h) \/ Reopen(h) \/ \E s \in Sessions, u \in Users : BeginBan(h, s, u)
    BY <2>3, <2>4 DEF SignedIn, Reopen, BeginBan, Finish
  <2>5. CASE WriteBan(h) \/ DropBanned(h) \/ Abort(h)
    <3>1. op[h].user \in Users
      BY <1>0, <2>5 DEF WriteBan, DropBanned, Abort, Opener, Changer, Banner
    <3>2. op' = [op EXCEPT ![h] = Idle] \/ \E steps, o :
            op' = [Crossed("loose", op[h].user, steps) EXCEPT ![h] = o] /\ (o = Idle \/ o.kind = "ban")
      BY <2>5 DEF WriteBan, DropBanned, Abort, Finish
    <3>3. revoked' = revoked /\ password' = password
      BY <2>5 DEF WriteBan, DropBanned, Abort
    <3>4. ASSUME NEW steps, NEW o,
                 op' = [Crossed("loose", op[h].user, steps) EXCEPT ![h] = o], o = Idle \/ o.kind = "ban"
          PROVE  PasswordsKnown'
      <4>1. op'[h] = o /\ \A g \in Handlers \ {h} : op'[g] = Crossed("loose", op[h].user, steps)[g]
        BY <3>4 DEF Crossed
      <4>2. \A g \in Handlers : SamePassword(g)
        BY <3>1, <3>4, <4>1, CrossedSame DEF SamePassword, Admits
      <4>3. QED
        BY <3>3, <4>2, PasswordsKept DEF Typed
    <3>5. QED
      BY <2>3, <3>2, <3>3, <3>4
  <2>6. CASE SetPassword(h)
    <3> DEFINE u == op[h].user  n == password[u] + 1
    <3>1. op[h] \in Changer /\ u \in Users /\ n \in Nat
      BY <1>0, <2>6 DEF SetPassword, Opener, Banner, Changer, Typed
    <3>2. /\ password'[u] = n /\ \A v \in Users \ {u} : password'[v] = password[v]
          /\ revoked' = revoked
          /\ \A g \in Handlers \ {h} : op'[g] = Crossed("stale", u, Opening)[g]
          /\ op'[h] = IF op[h].revoke THEN [op[h] EXCEPT !.step = "drop", !.pw = n] ELSE Idle
      BY <2>6, <3>1 DEF SetPassword, Crossed, Typed
    <3>3. Admits(h)' => op'[h].user = u /\ op'[h].pw = n
      BY <3>1, <3>2 DEF Admits, Changer
    <3>4. ASSUME NEW g \in Handlers \ {h}, Admits(g)'
          PROVE  /\ Admits(g) /\ op'[g].user = op[g].user /\ op'[g].pw = op[g].pw
                 /\ op'[g].user = u => op'[g].stale
                 /\ op[g].stale => op'[g].stale
                 /\ Announces(g)' => Announces(g)
                 /\ op[g].user \in Users /\ op[g].pw \in Nat
      <4>1. op[g].step \in Opening \/ ~Admits(g)
        BY <1>0 DEF Admits, Opening, Opener, Changer, Banner
      <4>2. Admits(g) => op[g].user \in Users /\ op[g].pw \in Nat
        BY <1>0 DEF Admits, Opener, Changer, Banner
      <4>3. /\ op'[g] = Idle <=> op[g] = Idle
            /\ op[g] # Idle => /\ op'[g].kind = op[g].kind /\ op'[g].user = op[g].user
                               /\ op'[g].step = op[g].step
            /\ op[g] # Idle /\ op[g].kind # "ban" =>
                  /\ op'[g].pw = op[g].pw
                  /\ op'[g].stale = (op[g].stale \/ (op[g].user = u /\ op[g].step \in Opening))
        BY <3>1, <3>2, CrossedOp
      <4>4. Admits(g)
        BY <3>4, <4>3 DEF Admits
      <4>5. QED
        BY <4>1, <4>2, <4>3, <4>4 DEF Admits, Announces
    <3>5. \A v \in Users : password[v] <= password'[v] /\ password[v] \in Nat /\ revoked[v] \in Nat
      BY <3>1, <3>2 DEF Typed
    <3> HIDE DEF u, n
    <3>6. n = password[u] + 1
      BY DEF n
    <3>7. \A v \in Users : revoked'[v] <= password'[v]
      BY <3>2, <3>5 DEF PasswordsKnown, Typed
    <3>8. ASSUME NEW g \in Handlers, Admits(g)'
          PROVE  /\ op'[g].pw <= password'[op'[g].user]
                 /\ op'[g].pw < revoked'[op'[g].user] => op'[g].stale
      <4>1. CASE g = h
        <5>1. op'[g].user = u /\ op'[g].pw = n /\ password'[u] = n
          BY <3>2, <3>3, <3>8, <4>1
        <5>2. revoked'[u] <= n /\ revoked'[u] \in Nat
          BY <3>1, <3>2, <3>5, <3>7
        <5>3. QED
          BY <3>1, <5>1, <5>2
      <4>2. CASE g # h
        BY <3>2, <3>4, <3>5, <3>8, <4>2, Typed' DEF PasswordsKnown, Typed
      <4>3. QED
        BY <4>1, <4>2
    <3>9. ASSUME NEW g \in Handlers, NEW k \in Handlers,
                 Admits(g)', Announces(k)', op'[g].user = op'[k].user, op'[g].pw < op'[k].pw
          PROVE  op'[g].stale
      <4>0. Admits(k)'
        BY <3>9 DEF Admits, Announces
      <4>1. CASE g = h
        <5>1. k # h
          BY <3>1, <3>3, <3>9, <4>1
        <5>2. op[k].pw <= password[u] /\ op'[k].pw = op[k].pw /\ op[k].pw \in Nat
          BY <3>3, <3>4, <3>9, <4>0, <4>1, <5>1 DEF PasswordsKnown
        <5>3. QED
          BY <3>1, <3>3, <3>5, <3>6, <3>9, <4>1, <5>2
      <4>2. CASE g # h /\ k = h
        BY <3>3, <3>4, <3>9, <4>0, <4>2
      <4>3. CASE g # h /\ k # h
        BY <3>4, <3>9, <4>0, <4>3 DEF PasswordsKnown
      <4>4. QED
        BY <4>1, <4>2, <4>3
    <3>10. QED
      BY <3>7, <3>8, <3>9 DEF PasswordsKnown
  <2>7. CASE DropOthers(h)
    <3> DEFINE u == op[h].user
    <3>1. op[h] \in Changer /\ u \in Users /\ op[h].pw \in Nat
      BY <1>0, <2>7 DEF DropOthers, Opener, Banner, Changer
    <3>2. /\ op' = [op EXCEPT ![h].step = "create"] /\ password' = password
          /\ revoked' = [revoked EXCEPT ![u] = IF op[h].pw > revoked[u] THEN op[h].pw ELSE revoked[u]]
          /\ Announces(h) /\ Admits(h)
      BY <2>7 DEF DropOthers, Announces, Admits
    <3>3. \A g \in Handlers : SamePassword(g) /\ (Admits(g) => op[g].user \in Users /\ op[g].pw \in Nat)
      BY <1>0, <3>1, <3>2
      DEF SamePassword, Admits, Announces, Typed, Ops, Changer, Opener, Banner, Idle
    <3>4. \A v \in Users : revoked'[v] = revoked[v] \/ (v = u /\ revoked'[v] = op[h].pw)
      BY <3>1, <3>2 DEF Typed
    <3>5. \A v \in Users : revoked'[v] <= password'[v]
      BY <3>2, <3>4 DEF PasswordsKnown
    <3>6. ASSUME NEW g \in Handlers, Admits(g)'
          PROVE  /\ op'[g].pw <= password'[op'[g].user]
                 /\ op'[g].pw < revoked'[op'[g].user] => op'[g].stale
      <4>1. /\ Admits(g) /\ op'[g].user = op[g].user /\ op'[g].pw = op[g].pw
            /\ op[g].stale => op'[g].stale
            /\ op[g].user \in Users
        BY <3>3, <3>6 DEF SamePassword
      <4>2. op[g].pw <= password[op[g].user] /\ (op[g].pw < revoked[op[g].user] => op[g].stale)
        BY <4>1 DEF PasswordsKnown
      <4>3. op[g].user = u /\ op[g].pw < op[h].pw => op[g].stale
        BY <3>2, <4>1 DEF PasswordsKnown
      <4>4. QED
        BY <3>2, <3>4, <4>1, <4>2, <4>3
    <3>7. \A g, k \in Handlers : Admits(g)' /\ Announces(k)' /\ op'[g].user = op'[k].user
                                    /\ op'[g].pw < op'[k].pw => op'[g].stale
      BY <3>3 DEF SamePassword, PasswordsKnown, Announces, Admits
    <3>8. QED
      BY <3>5, <3>6, <3>7 DEF PasswordsKnown
  <2>8. QED
    BY <1>2, <2>1, <2>2, <2>4, <2>5, <2>6, <2>7 DEF Step
<1>3. ASSUME NEW s \in Sessions, NEW u \in Users, UpdateBan(s, u) PROVE PasswordsKnown'
  <2>1. op' = op \/ op' = Crossed("loose", u, Opening)
    BY <1>3 DEF UpdateBan
  <2>2. \A g \in Handlers : SamePassword(g)
    BY <2>1, CrossedSame DEF SamePassword, Admits, Announces
  <2>3. QED
    BY <1>3, <2>2, PasswordsKept DEF UpdateBan, Typed
<1>4. ASSUME NEW s \in Sessions, NEW u \in Users, SetUserPassword(s, u) PROVE PasswordsKnown'
  <2>1. \A g \in Handlers : SamePassword(g)
    BY <1>4 DEF SetUserPassword, SamePassword, Admits, Announces
  <2>2. revoked' = revoked /\ \A v \in Users : password[v] <= password'[v]
    BY <1>4 DEF SetUserPassword, Typed
  <2>3. QED
    BY <2>1, <2>2, PasswordsKept
<1>5. QED
  BY <1>1, <1>2, <1>3, <1>4
  DEF Next, vars, AtOnce, SignOut, Use, RevokeAll, Impersonate, Revoke, StopImpersonating,
      RefreshWrite, RefreshFails, Tick

LEMMA OldPasswordNext ==
    ASSUME Typed, Typed', PasswordsKnown, OldPasswordOut, [Next]_vars
    PROVE  OldPasswordOut'
<1> SUFFICES ASSUME NEW t \in Sessions, session'[t] # None,
                    session'[t].pw < revoked'[session'[t].user]
             PROVE  session'[t].stale \/ session'[t].by # None
  BY DEF OldPasswordOut
<1>1. \A u \in Users : \/ revoked'[u] = revoked[u]
                       \/ \A s \in Sessions : session'[s] # None => session'[s].user # u
  <2>1. CASE revoked' = revoked
    BY <2>1
  <2>2. ASSUME NEW h \in Handlers, DropOthers(h)
        PROVE  \A u \in Users : \/ revoked'[u] = revoked[u]
                                \/ \A s \in Sessions : session'[s] # None => session'[s].user # u
    BY <2>2 DEF DropOthers, Without, Typed
  <2>3. QED
    BY <2>1, <2>2
    DEF Next, vars, Step, AtOnce, Verify, VerifyBlind, SignedIn, BeginChange, SetPassword, Reopen,
        BeginBan, WriteBan, DropBanned, Abort, SignOut, Use, UpdateBan, SetUserPassword, RevokeAll,
        Impersonate, Revoke, StopImpersonating, RefreshWrite, RefreshFails, Tick
<1>2. session'[t].user \in Users
  BY DEF Typed, Rows, Row
<1>3. revoked'[session'[t].user] = revoked[session'[t].user]
  BY <1>1, <1>2
<1>4. CASE Stays(t, session'[t])
  BY <1>3, <1>4 DEF Stays, OldPasswordOut
<1>5. CASE \E h \in Handlers : OpenedBy(h, session'[t])
  BY <1>3, <1>5 DEF OpenedBy, PasswordsKnown
<1>6. QED
  BY <1>4, <1>5, OwnerSteps DEF OwnerStep
LEMMA PasswordsInit == Init => PasswordsKnown /\ OldPasswordOut
BY DEF Init, PasswordsKnown, OldPasswordOut, Admits, Announces

-----------------------------------------------------------------------------
(* Bans. *)

\* The ban of u is in force and its sessions are dropped.
Shut(u) == InForce(ban[u]) /\ ~Dropping(u)

\* A sign-in of a banned user crossed the ban, or could not see it; a change of password under way when
\* the sessions were dropped did too.
BansKnown ==
    \A h \in Handlers : Admits(h) =>
        /\ op[h].kind = "sign-in" /\ InForce(ban[op[h].user]) => op[h].loose
        /\ op[h].kind = "change" /\ Shut(op[h].user) => op[h].loose

\* What a step does to the ban of u: it shuts nobody out who was not; it stores a ban; it drops the
\* sessions; it lets those that are there stay.
NoSooner(u) == (InForce(ban'[u]) => InForce(ban[u])) /\ (Dropping(u) => Dropping(u)')
Loose(kinds, u) ==
    \A h \in Handlers : Admits(h)' /\ op'[h].kind \in kinds /\ op'[h].user = u => op'[h].loose
Stores(u) == Dropping(u)' /\ Loose({"sign-in"}, u)
SignsOut(u) ==
    /\ InForce(ban'[u]) => InForce(ban[u])
    /\ \A s \in Sessions : session'[s] # None => session'[s].user # u
    /\ Loose({"change"}, u)
LetsStay(u) ==
    /\ \A s \in Sessions : session'[s] # None /\ session'[s].user = u => session'[s].loose
    /\ Loose({"sign-in", "change"}, u)
BanMoves(u) == NoSooner(u) \/ Stores(u) \/ SignsOut(u) \/ LetsStay(u)

\* What it does to a request.
GoesOn(g) ==
    Admits(g)' => /\ Admits(g)
                  /\ op'[g].user = op[g].user /\ op'[g].kind = op[g].kind
                  /\ op[g].loose => op'[g].loose
Begins(g) ==
    Admits(g)' =>
        /\ op'[g].kind = "sign-in" /\ InForce(ban'[op'[g].user]) => op'[g].loose
        /\ op'[g].kind = "change" /\ Shut(op[g].user)' => op'[g].loose

LEMMA BansKept ==
    ASSUME Typed, Typed', BansKnown, BannedOut, [Next]_vars,
           \A u \in Users : BanMoves(u),
           \A g \in Handlers : GoesOn(g) \/ Begins(g)
    PROVE  BansKnown' /\ BannedOut'
<1>1. ASSUME NEW g \in Handlers, Admits(g)'
      PROVE  /\ op'[g].kind = "sign-in" /\ InForce(ban'[op'[g].user]) => op'[g].loose
             /\ op'[g].kind = "change" /\ Shut(op[g].user)' => op'[g].loose
  <2>1. CASE Begins(g)
    BY <1>1, <2>1 DEF Begins
  <2>2. CASE GoesOn(g)
    <3>0. PICK u \in Users : u = op'[g].user
      BY <1>1 DEF Typed, Ops, Admits, Opener, Changer, Banner
    <3>1. /\ Admits(g) /\ u = op[g].user /\ op'[g].kind = op[g].kind
          /\ op[g].loose => op'[g].loose
      BY <1>1, <2>2, <3>0 DEF GoesOn
    <3>2. CASE NoSooner(u)
      <4>1. (InForce(ban'[u]) => InForce(ban[u])) /\ (Shut(u)' => Shut(u))
        BY <3>2 DEF NoSooner, Shut
      <4>2. QED
        BY <3>0, <3>1, <4>1 DEF BansKnown
    <3>3. CASE Stores(u)
      BY <1>1, <3>0, <3>3 DEF Stores, Loose, Shut
    <3>4. CASE SignsOut(u)
      BY <1>1, <3>0, <3>1, <3>4 DEF SignsOut, Loose, BansKnown
    <3>5. CASE LetsStay(u)
      BY <1>1, <3>0, <3>5 DEF LetsStay, Loose
    <3>6. QED
      BY <3>0, <3>2, <3>3, <3>4, <3>5 DEF BanMoves
  <2>3. QED
    BY <2>1, <2>2
<1>2. ASSUME NEW t \in Sessions, NEW u \in Users, session'[t] # None, u = session'[t].user, Shut(u)'
      PROVE  session'[t].loose \/ session'[t].by # None
  <2>1. CASE ~NoSooner(u)
    <3>1. ~Dropping(u)'
      BY <1>2 DEF Shut
    <3>2. QED
      BY <1>2, <2>1, <3>1 DEF BanMoves, Stores, SignsOut, LetsStay
  <2>2. CASE NoSooner(u)
    <3>1. Shut(u)
      BY <1>2, <2>2 DEF NoSooner, Shut
    <3>2. CASE Stays(t, session'[t])
      BY <1>2, <3>1, <3>2 DEF Stays, BannedOut, Shut
    <3>3. ASSUME NEW h \in Handlers, OpenedBy(h, session'[t]) PROVE session'[t].loose
      <4>1. op[h].kind \in {"sign-in", "change"}
        BY <3>3 DEF OpenedBy, Admits, Typed, Ops, Opener, Changer, Banner
      <4>2. QED
        BY <1>2, <3>1, <3>3, <4>1 DEF OpenedBy, BansKnown, Shut
    <3>4. QED
      BY <1>2, <3>2, <3>3, OwnerSteps DEF OwnerStep
  <2>3. QED
    BY <2>1, <2>2
<1>3. BansKnown'
  BY <1>1 DEF BansKnown
<1>4. BannedOut'
  <2>1. \A t \in Sessions : session'[t] # None => session'[t].user \in Users
    BY DEF Typed, Rows, Row
  <2>2. QED
    BY <1>2, <2>1 DEF BannedOut, Shut
<1>5. QED
  BY <1>3, <1>4

\* Nobody is shut out by a step that leaves the bans and those who drop sessions alone.
Dropper(g) == op[g] # Idle /\ op[g].kind = "ban" /\ op[g].step = "drop"

LEMMA NobodySooner ==
    ASSUME Typed, \A u \in Users : InForce(ban'[u]) => InForce(ban[u]),
           \A g \in Handlers : Dropper(g) => op'[g] = op[g]
    PROVE  \A u \in Users : NoSooner(u)
BY DEF NoSooner, Dropping, Dropper

LEMMA OthersGoOn ==
    ASSUME Typed, NEW h \in Handlers, NEW o, op' = [op EXCEPT ![h] = o]
    PROVE  op'[h] = o /\ \A g \in Handlers \ {h} : op'[g] = op[g] /\ GoesOn(g)
BY DEF Typed, Ops, GoesOn, Admits

LEMMA CrossedGoOn ==
    ASSUME Typed, NEW u \in Users, NEW mark \in {"loose", "stale"}, NEW steps, NEW g \in Handlers,
           op'[g] = Crossed(mark, u, steps)[g]
    PROVE  /\ GoesOn(g) /\ (Dropper(g) => op'[g] = op[g])
           /\ mark = "loose" /\ Admits(g)' /\ op'[g].user = u /\ op[g].step \in steps => op'[g].loose
<1>1. /\ op'[g] = Idle <=> op[g] = Idle
      /\ op[g] # Idle => /\ op'[g].kind = op[g].kind /\ op'[g].user = op[g].user
                         /\ op'[g].step = op[g].step
      /\ op[g] # Idle /\ op[g].kind = "ban" => op'[g] = op[g]
      /\ op[g] # Idle /\ op[g].kind # "ban" =>
            op'[g].loose = (op[g].loose \/ (op[g].user = u /\ op[g].step \in steps /\ mark = "loose"))
  BY CrossedOp
<1>2. QED
  BY <1>1 DEF GoesOn, Dropper, Admits

LEMMA BansStep ==
    ASSUME Typed, BannedOut, NEW h \in Handlers, Step(h)
    PROVE  (\A u \in Users : BanMoves(u)) /\ \A g \in Handlers : GoesOn(g) \/ Begins(g)
<1> DEFINE P == (\A u \in Users : BanMoves(u)) /\ \A g \in Handlers : GoesOn(g) \/ Begins(g)
<1>0. \A g \in Handlers : op[g] \in Opener \cup Changer \cup Banner \cup {Idle}
  BY DEF Typed, Ops
<1>1. ASSUME NEW o, op' = [op EXCEPT ![h] = o], ban' = ban, ~Dropper(h), GoesOn(h) \/ Begins(h)
      PROVE  P
  <2>1. op'[h] = o /\ \A g \in Handlers \ {h} : op'[g] = op[g] /\ GoesOn(g)
    BY <1>1, OthersGoOn
  <2>2. \A u \in Users : NoSooner(u)
    BY <1>1, <2>1, NobodySooner
  <2>3. QED
    BY <1>1, <2>1, <2>2 DEF BanMoves
<1>2. ASSUME NEW o, op' = [op EXCEPT ![h] = o], ban' = ban, ~Dropper(h), o = Idle \/ o.kind = "ban"
      PROVE  P
  <2>1. op'[h] = o
    BY <1>2, OthersGoOn
  <2>2. GoesOn(h)
    BY <1>2, <2>1 DEF GoesOn, Admits
  <2>3. QED
    BY <1>1, <1>2, <2>2
<1>3. ASSUME NEW u \in Users, Verify(h, u) \/ VerifyBlind(h, u) PROVE P
  <2>1. PICK loose \in BOOLEAN : /\ op' = [op EXCEPT ![h] = SignIn(u, loose)]
                                 /\ InForce(ban[u]) => loose
    BY <1>3 DEF Verify, VerifyBlind
  <2>2. op'[h] = SignIn(u, loose) /\ ban' = ban /\ ~Dropper(h)
    BY <1>3, <2>1, OthersGoOn DEF Verify, VerifyBlind, Dropper
  <2>3. Begins(h)
    BY <2>1, <2>2 DEF Begins, SignIn
  <2>4. QED
    BY <1>1, <2>1, <2>2, <2>3
<1>4. ASSUME NEW s \in Sessions, NEW revoke \in BOOLEAN, BeginChange(h, s, revoke) PROVE P
  <2> DEFINE o == [kind |-> "change", user |-> session[s].user,
                   pw |-> password[session[s].user], step |-> "set", revoke |-> revoke,
                   loose |-> session[s].loose \/ session[s].by # None, stale |-> FALSE]
  <2>1. op' = [op EXCEPT ![h] = o] /\ ban' = ban /\ op[h] = Idle /\ session[s] # None
    BY <1>4 DEF BeginChange, Live
  <2>2. PICK u \in Users : u = session[s].user
    BY <2>1 DEF Typed, Rows, Row
  <2>3. o.kind = "change" /\ o.user = u /\ o.loose = (session[s].loose \/ session[s].by # None)
    BY <2>2
  <2> HIDE DEF o
  <2>4. op'[h] = o /\ \A g \in Handlers \ {h} : op'[g] = op[g]
    BY <2>1, OthersGoOn
  <2>5. Shut(u)' => Shut(u)
    BY <2>1, <2>4 DEF Shut, Dropping
  <2>6. Shut(u) => o.loose
    BY <2>1, <2>2, <2>3 DEF BannedOut, Shut
  <2>7. Begins(h)
    BY <2>3, <2>4, <2>5, <2>6 DEF Begins
  <2>8. QED
    BY <1>1, <2>1, <2>7 DEF Dropper
<1>5. CASE SetPassword(h)
  <2> DEFINE o == IF op[h].revoke THEN [op[h] EXCEPT !.step = "drop", !.pw = password[op[h].user] + 1]
                  ELSE Idle
  <2>1. op[h] \in Changer
    BY <1>0, <1>5 DEF SetPassword, Opener, Banner
  <2>2. /\ op' = [Crossed("stale", op[h].user, Opening) EXCEPT ![h] = o]
        /\ ban' = ban /\ op[h] # Idle /\ op[h].kind = "change" /\ op[h].user \in Users
    BY <1>5, <2>1 DEF SetPassword, Changer
  <2>3. op'[h] = o /\ \A g \in Handlers \ {h} : op'[g] = Crossed("stale", op[h].user, Opening)[g]
    BY <2>2 DEF Crossed
  <2>4. o = Idle \/ (o.user = op[h].user /\ o.kind = op[h].kind /\ o.loose = op[h].loose)
    BY <2>1 DEF Changer
  <2> HIDE DEF o
  <2>5. GoesOn(h) /\ ~Dropper(h)
    BY <2>2, <2>3, <2>4 DEF GoesOn, Admits, Dropper
  <2>6. \A g \in Handlers \ {h} : GoesOn(g) /\ (Dropper(g) => op'[g] = op[g])
    BY <2>2, <2>3, CrossedGoOn
  <2>7. \A u \in Users : NoSooner(u)
    BY <2>2, <2>5, <2>6, NobodySooner
  <2>8. QED
    BY <2>5, <2>6, <2>7 DEF BanMoves
<1>6. CASE DropOthers(h)
  <2>1. op[h] \in Changer
    BY <1>0, <1>6 DEF DropOthers, Opener, Banner
  <2>2. op' = [op EXCEPT ![h] = [op[h] EXCEPT !.step = "create"]] /\ ban' = ban /\ op[h] # Idle
    BY <1>6 DEF DropOthers
  <2>3. LET o == [op[h] EXCEPT !.step = "create"] IN
        o.user = op[h].user /\ o.kind = op[h].kind /\ o.loose = op[h].loose
    BY <2>1 DEF Changer
  <2>4. op'[h] = [op[h] EXCEPT !.step = "create"] /\ op[h].kind = "change"
    BY <1>6, <2>2, OthersGoOn DEF DropOthers
  <2>5. GoesOn(h) /\ ~Dropper(h)
    BY <2>2, <2>3, <2>4 DEF GoesOn, Admits, Dropper
  <2>6. QED
    BY <1>1, <2>2, <2>5
<1>7. CASE SignedIn(h) \/ Reopen(h)
  <2>1. op' = [op EXCEPT ![h] = Idle] /\ ban' = ban /\ ~Dropper(h)
    BY <1>7 DEF SignedIn, Reopen, Finish, Dropper
  <2>2. QED
    BY <1>2, <2>1
<1>8. ASSUME NEW s \in Sessions, NEW u \in Users, BeginBan(h, s, u) PROVE P
  <2>1. PICK until : op' = [op EXCEPT ![h] = [kind |-> "ban", user |-> u, step |-> "write", until |-> until]]
    BY <1>8 DEF BeginBan
  <2>2. ban' = ban /\ ~Dropper(h)
    BY <1>8 DEF BeginBan, Dropper
  <2>3. QED
    BY <1>2, <2>1, <2>2
<1>9. CASE WriteBan(h)
  <2> DEFINE o == [kind |-> "ban", user |-> op[h].user, step |-> "drop"]
  <2>1. /\ op[h] # Idle /\ op[h].kind = "ban" /\ op[h].step = "write" /\ op[h].user \in Users
        /\ op' = [Crossed("loose", op[h].user, {"admitted"}) EXCEPT ![h] = o]
        /\ \A u \in Users \ {op[h].user} : ban'[u] = ban[u]
    BY <1>0, <1>9 DEF WriteBan, Typed, Opener, Changer, Banner
  <2>2. /\ op'[h] = o /\ ~Dropper(h)
        /\ \A g \in Handlers \ {h} : op'[g] = Crossed("loose", op[h].user, {"admitted"})[g]
    BY <2>1 DEF Crossed, Dropper
  <2>3. o # Idle /\ o.kind = "ban" /\ o.user = op[h].user /\ o.step = "drop"
    BY DEF Idle
  <2> HIDE DEF o
  <2>4. ASSUME NEW g \in Handlers \ {h}
        PROVE  /\ GoesOn(g) /\ (Dropper(g) => op'[g] = op[g])
               /\ Admits(g)' /\ op'[g].user = op[h].user /\ op[g].step = "admitted" => op'[g].loose
    BY <2>1, <2>2, CrossedGoOn
  <2>5. \A g \in Handlers : GoesOn(g) /\ (Admits(g)' => g # h)
    BY <2>2, <2>3, <2>4 DEF GoesOn, Admits
  <2>6. \A u \in Users \ {op[h].user} : NoSooner(u)
    BY <2>1, <2>2, <2>4 DEF NoSooner, Dropping, Dropper
  <2>7. Dropping(op[h].user)'
    BY <2>2, <2>3 DEF Dropping
  <2>8. ASSUME NEW g \in Handlers, Admits(g)', op'[g].kind = "sign-in", op'[g].user = op[h].user
        PROVE  op'[g].loose
    <3>1. Admits(g) /\ op[g].kind = "sign-in" /\ g # h
      BY <2>5, <2>8 DEF GoesOn
    <3>2. op[g].step = "admitted"
      BY <1>0, <3>1 DEF Admits, Opener, Changer, Banner
    <3>3. QED
      BY <2>4, <2>8, <3>1, <3>2
  <2>9. Stores(op[h].user)
    BY <2>7, <2>8 DEF Stores, Loose
  <2>10. QED
    BY <2>5, <2>6, <2>9 DEF BanMoves
<1>10. ASSUME NEW steps, op[h] # Idle, op[h].user \in Users,
              op' = [Crossed("loose", op[h].user, steps) EXCEPT ![h] = Idle], ban' = ban,
              Dropper(h)
       PROVE  /\ \A g \in Handlers : GoesOn(g)
              /\ \A u \in Users \ {op[h].user} : NoSooner(u)
              /\ \A g \in Handlers :
                    Admits(g)' /\ op'[g].user = op[h].user /\ op[g].step \in steps => op'[g].loose
  <2>1. op'[h] = Idle /\ \A g \in Handlers \ {h} : op'[g] = Crossed("loose", op[h].user, steps)[g]
    BY <1>10 DEF Crossed
  <2>2. ASSUME NEW g \in Handlers \ {h}
        PROVE  /\ GoesOn(g) /\ (Dropper(g) => op'[g] = op[g])
               /\ Admits(g)' /\ op'[g].user = op[h].user /\ op[g].step \in steps => op'[g].loose
    BY <1>10, <2>1, CrossedGoOn
  <2>3. ~Admits(h)' /\ GoesOn(h)
    BY <2>1 DEF Admits, GoesOn
  <2>4. \A u \in Users \ {op[h].user} : NoSooner(u)
    BY <1>10, <2>1, <2>2 DEF NoSooner, Dropping, Dropper
  <2>5. QED
    BY <2>2, <2>3, <2>4
<1>11. CASE DropBanned(h)
  <2>1. /\ op[h] # Idle /\ op[h].user \in Users /\ ban' = ban /\ Dropper(h)
        /\ op' = [Crossed("loose", op[h].user, Opening \ {"admitted"}) EXCEPT ![h] = Idle]
        /\ session' = Without(op[h].user)
    BY <1>0, <1>11 DEF DropBanned, Dropper, Opener, Changer, Banner
  <2>2. /\ \A g \in Handlers : GoesOn(g)
        /\ \A u \in Users \ {op[h].user} : NoSooner(u)
        /\ \A g \in Handlers : Admits(g)' /\ op'[g].user = op[h].user
                                /\ op[g].step \in Opening \ {"admitted"} => op'[g].loose
    BY <1>10, <2>1
  <2>3. ASSUME NEW g \in Handlers, Admits(g)', op'[g].kind = "change", op'[g].user = op[h].user
        PROVE  op'[g].loose
    <3>1. Admits(g) /\ op[g].kind = "change"
      BY <2>2, <2>3 DEF GoesOn
    <3>2. op[g].step \in Opening \ {"admitted"}
      BY <1>0, <3>1 DEF Admits, Opener, Changer, Banner, Opening
    <3>3. QED
      BY <2>2, <2>3, <3>2
  <2>4. \A s \in Sessions : session'[s] # None => session'[s].user # op[h].user
    BY <2>1 DEF Without
  <2>5. SignsOut(op[h].user)
    BY <2>1, <2>3, <2>4 DEF SignsOut, Loose
  <2>6. QED
    BY <2>2, <2>5 DEF BanMoves
<1>12. CASE Abort(h)
  <2>1. CASE Dropper(h)
    <3>1. /\ op[h] # Idle /\ op[h].user \in Users /\ ban' = ban
          /\ op' = [Crossed("loose", op[h].user, Opening) EXCEPT ![h] = Idle]
          /\ session' = Loosened(op[h].user)
      BY <1>0, <1>12, <2>1 DEF Abort, Dropper, Opener, Changer, Banner
    <3>2. /\ \A g \in Handlers : GoesOn(g)
          /\ \A u \in Users \ {op[h].user} : NoSooner(u)
          /\ \A g \in Handlers : Admits(g)' /\ op'[g].user = op[h].user
                                  /\ op[g].step \in Opening => op'[g].loose
      BY <1>10, <2>1, <3>1
    <3>3. ASSUME NEW g \in Handlers, Admits(g)', op'[g].user = op[h].user PROVE op'[g].loose
      <4>1. Admits(g)
        BY <3>2, <3>3 DEF GoesOn
      <4>2. op[g].step \in Opening
        BY <1>0, <4>1 DEF Admits, Opener, Changer, Banner, Opening
      <4>3. QED
        BY <3>2, <3>3, <4>2
    <3>4. ASSUME NEW s \in Sessions, session'[s] # None, session'[s].user = op[h].user
          PROVE  session'[s].loose
      <4>1. session[s] # None => session[s] \in Row
        BY DEF Typed, Rows
      <4>2. QED
        BY <3>1, <3>4, <4>1 DEF Loosened, Row
    <3>5. LetsStay(op[h].user)
      BY <3>3, <3>4 DEF LetsStay, Loose
    <3>6. QED
      BY <3>2, <3>5 DEF BanMoves
  <2>2. CASE ~Dropper(h)
    BY <1>2, <1>12, <2>2 DEF Abort, Dropper, Finish
  <2>3. QED
    BY <2>1, <2>2
<1>13. QED
  BY <1>3, <1>4, <1>5, <1>6, <1>7, <1>8, <1>9, <1>11, <1>12 DEF Step

LEMMA BansNext ==
    ASSUME Typed, Typed', BansKnown, BannedOut, [Next]_vars
    PROVE  BansKnown' /\ BannedOut'
<1> DEFINE P == (\A u \in Users : BanMoves(u)) /\ \A g \in Handlers : GoesOn(g) \/ Begins(g)
<1>1. ASSUME op' = op, \A u \in Users : InForce(ban'[u]) => InForce(ban[u]) PROVE P
  <2>1. (\A u \in Users : NoSooner(u)) /\ \A g \in Handlers : GoesOn(g)
    BY <1>1 DEF NoSooner, Dropping, GoesOn, Admits
  <2>2. QED
    BY <2>1 DEF BanMoves
<1>2. ASSUME NEW s \in Sessions, NEW u \in Users, UpdateBan(s, u) PROVE P
  <2>1. PICK b : /\ ban' = [ban EXCEPT ![u] = b]
                 /\ Seen(s, IF InForce(b) /\ ~InForce(ban[u]) THEN Loosened(u) ELSE session)
                 /\ op' = IF InForce(b) /\ ~InForce(ban[u]) THEN Crossed("loose", u, Opening) ELSE op
    BY <1>2 DEF UpdateBan
  <2>2. ban'[u] = b /\ \A v \in Users \ {u} : ban'[v] = ban[v]
    BY <2>1 DEF Typed
  <2>3. CASE ~(InForce(b) /\ ~InForce(ban[u]))
    BY <1>1, <2>1, <2>2, <2>3
  <2>4. CASE InForce(b) /\ ~InForce(ban[u])
    <3>1. Seen(s, Loosened(u)) /\ \A g \in Handlers : op'[g] = Crossed("loose", u, Opening)[g]
      BY <2>1, <2>4
    <3>2. ASSUME NEW g \in Handlers
          PROVE  /\ GoesOn(g) /\ (Dropper(g) => op'[g] = op[g])
                 /\ Admits(g)' /\ op'[g].user = u /\ op[g].step \in Opening => op'[g].loose
      BY <3>1, CrossedGoOn
    <3>3. \A v \in Users \ {u} : NoSooner(v)
      BY <2>2, <3>2 DEF NoSooner, Dropping, Dropper
    <3>4. ASSUME NEW g \in Handlers, Admits(g)', op'[g].user = u PROVE op'[g].loose
      <4>1. Admits(g)
        BY <3>2, <3>4 DEF GoesOn
      <4>2. op[g].step \in Opening
        BY <4>1 DEF Typed, Ops, Admits, Opener, Changer, Banner, Opening
      <4>3. QED
        BY <3>2, <3>4, <4>2
    <3>5. ASSUME NEW t \in Sessions, session'[t] # None, session'[t].user = u
          PROVE  session'[t].loose
      <4>1. session[t] # None => session[t] \in Row
        BY DEF Typed, Rows
      <4>2. Loosened(u) \in Rows /\ \A i \in Sessions : OwnerStep(Loosened(u)[i], i)
        BY LoosenedTyped, OwnersAlone
      <4>3. Loosened(u)[t] # None => /\ session'[t].loose = Loosened(u)[t].loose
                                     /\ session'[t].user = Loosened(u)[t].user
        BY <3>1, <3>5, <4>2, SeenOwners
      <4>4. Loosened(u)[t] # None
        BY <3>1, <3>5, <4>2 DEF Seen, Rows
      <4>5. QED
        BY <3>5, <4>1, <4>3, <4>4 DEF Loosened, Row
    <3>6. LetsStay(u)
      BY <3>4, <3>5 DEF LetsStay, Loose
    <3>7. QED
      BY <3>2, <3>3, <3>6 DEF BanMoves
  <2>5. QED
    BY <2>3, <2>4
<1>3. ASSUME Tick PROVE P
  <2>1. \A u \in Users : ban[u] \in Ban /\ ban'[u] = [ban[u] EXCEPT !.left = Nearer(@)]
    BY <1>3 DEF Tick, Typed
  <2>2. ASSUME NEW u \in Users, InForce(ban'[u]) PROVE InForce(ban[u])
    <3>1. ban'[u].on = ban[u].on /\ ban'[u].left = Nearer(ban[u].left)
      BY <2>1 DEF Ban
    <3>2. QED
      BY <2>2, <3>1 DEF InForce, Nearer
  <2>3. op' = op
    BY <1>3 DEF Tick
  <2>4. QED
    BY <1>1, <2>2, <2>3
<1>4. P
  <2>1. CASE op' = op /\ ban' = ban
    BY <1>1, <2>1
  <2>2. CASE \E h \in Handlers : Step(h)
    BY <2>2, BansStep
  <2>3. QED
    BY <1>2, <1>3, <2>1, <2>2
  DEF Next, vars, AtOnce, SignOut, Use, SetUserPassword, RevokeAll, Impersonate, Revoke,
      StopImpersonating, RefreshWrite, RefreshFails
<1>5. QED
  BY <1>4, BansKept

LEMMA BansInit == Init => BansKnown /\ BannedOut
BY DEF Init, BansKnown, BannedOut, Admits

-----------------------------------------------------------------------------
\* The inductive invariant.
SInv ==
    /\ Typed
    /\ Rolling /\ ImpersonationsFade
    /\ PasswordsKnown /\ OldPasswordOut
    /\ BansKnown /\ BannedOut

\* For every constant: the clocks of the sessions, the passwords that opened them and the bans fit
\* together in every reachable state.
THEOREM SessionsCorrect == Spec => []SInv
<1>1. Init => SInv
  BY TypedInit, ClockInit, PasswordsInit, BansInit DEF SInv
<1>2. SInv /\ [Next]_vars => SInv'
  <2> SUFFICES ASSUME SInv, [Next]_vars PROVE SInv'
    OBVIOUS
  <2>1. Typed'
    BY TypedNext DEF SInv
  <2>2. Rolling' /\ ImpersonationsFade'
    BY <2>1, ClockNext DEF SInv
  <2>3. PasswordsKnown' /\ OldPasswordOut'
    BY <2>1, PasswordsNext, OldPasswordNext DEF SInv
  <2>4. BansKnown' /\ BannedOut'
    BY <2>1, BansNext DEF SInv
  <2>5. QED
    BY <2>1, <2>2, <2>3, <2>4 DEF SInv
<1>3. QED
  BY <1>1, <1>2, PTL DEF Spec

\* Neither the banned nor the holder of an older password stays signed in, nor an impersonating admin
\* for longer than an impersonation lasts, whoever crosses whom.
THEOREM TheShutOutStayOut == Spec => []ShutOut
<1>1. SInv => ShutOut
  <2> SUFFICES ASSUME SInv PROVE ImpersonationEnds
    BY DEF SInv, ShutOut
  <2>1. \A s \in Sessions : session[s] # None => session[s].left \in Nat /\ session[s].age \in Nat
    BY SessionsAssumption DEF SInv, Typed, Rows, Row
  <2>2. QED
    BY <2>1, SessionsAssumption DEF SInv, ImpersonationsFade, ImpersonationEnds
<1>2. QED
  BY <1>1, SessionsCorrect, PTL

\* A session that keeps being used is not signed out by its expiry, whatever the windows are.
THEOREM ActiveSessionsStay == Spec => []ActiveStays
<1>1. SInv => ActiveStays
  <2> SUFFICES ASSUME SInv, NEW s \in Sessions, session[s] # None, session[s].by = None,
                      session[s].idle <= SessionTTL - UpdateAge
               PROVE  session[s].left > 0
    BY DEF ActiveStays
  <2>1. session[s] \in Row
    BY DEF SInv, Typed, Rows
  <2>2. IF session[s].age < UpdateAge
        THEN session[s].left = SessionTTL - session[s].age
        ELSE session[s].left + session[s].idle > SessionTTL - UpdateAge
    BY DEF SInv, Rolling
  <2>3. QED
    BY <2>1, <2>2, SessionsAssumption DEF Row
<1>2. QED
  BY <1>1, SessionsCorrect, PTL

-----------------------------------------------------------------------------
(* The doors behind the sessions (module Doors): what a call reaches is within *)
(* the bounds of its caller, and the two doors agree, for any number of users, *)
(* projects, tokens and calls under way.                                       *)

\* Whoever owns a project is one of its members.
OwnersBelong == \A p \in Projects : There(p) => Member(project[p].owner, p)

\* A token keeps what the first of its line was given, and one token of a line is in use.
LinesKept ==
    /\ \A t \in Tokens : token[t] # None =>
          LET root == token[token[t].root] IN
          /\ root # None
          /\ root.root = token[t].root
          /\ token[t].user = root.user /\ token[t].scope = root.scope /\ token[t].project = root.project
    /\ \A s, t \in Tokens :
          /\ token[s] # None /\ token[t] # None
          /\ token[s].state \in {"live", "expired"} /\ token[t].state \in {"live", "expired"}
          /\ token[s].root = token[t].root
          => s = t

\* What a call knows: what it may do, the projects of its caller, and what it was confined to.
LetIn(o) ==
    /\ o.who.via = "obo" => o.who.project = None /\ o.who.scope = "full"
    /\ o.who.via # "obo" => o.who.user \in Users /\ Mine(o.who.user) \subseteq o.was
    /\ o.who.scope = "read_only" => o.kind # "write"
    /\ o.kind = "active" => o.who.via # "obo"
    /\ o.step = "act" /\ o.kind \in DataPlane =>
          /\ o.shelves \subseteq o.was \cup {Own}
          /\ o.who.project # None => o.shelves = {o.who.project}

DInv ==
    /\ DoorsTypeOK
    /\ OwnersBelong
    /\ LinesKept
    /\ \A h \in Handlers : call[h] # NoCall => LetIn(call[h])

\* A set of numbers has a least one.
LEMMA Least ==
    ASSUME NEW S, S \subseteq Nat, S # {}
    PROVE  \E p \in S : \A q \in S : p <= q
<1>1. PICK p \in S : \A q \in S : <<q, p>> \notin OpToRel(<, Nat)
  BY NatLessThanWellFounded, WFMin
<1>2. \A q \in S : ~(q < p)
  BY <1>1 DEF OpToRel
<1> QED
  BY <1>2

\* A reference leads to a project that is there or that the caller belongs to, or nowhere.
LEMMA ResolveTyped ==
    ASSUME Deployment, DoorsTypeOK, NEW u \in Users, NEW ref \in Refs
    PROVE  /\ Resolve(u, ref) \in Projects \cup {None}
           /\ Resolve(u, ref) # None => There(Resolve(u, ref)) \/ Member(u, Resolve(u, ref))
<1>1. CASE ref \in Projects
  BY <1>1 DEF Resolve
<1>2. CASE ref \notin Projects /\ Mine(u) = {}
  BY <1>2 DEF Resolve
<1>3. CASE ref \notin Projects /\ Mine(u) # {}
  <2>1. Mine(u) \subseteq Nat
    BY DEF Mine, Deployment
  <2>2. \E p \in Mine(u) : \A q \in Mine(u) : p <= q
    BY <1>3, <2>1, Least
  <2>3. Resolve(u, ref) \in Mine(u)
    BY <1>3, <2>2 DEF Resolve
  <2> QED
    BY <2>3 DEF Mine
<1> QED
  BY <1>1, <1>2, <1>3

\* The projects a call is let into, and the shelves it reads, are its caller's.
LEMMA MembersBelong ==
    ASSUME Deployment, DoorsTypeOK, NEW u \in Users, NEW at \in Scopes
    PROVE  Members(u, at) \subseteq Mine(u)
<1>1. \A ref \in Given(at) : ref \in Refs
  BY DEF Given, Scopes
<1> QED
  BY <1>1, ResolveTyped DEF Members, Mine

LEMMA ShelvesBelong ==
    ASSUME Deployment, DoorsTypeOK, NEW u \in Users, NEW at \in Scopes
    PROVE  Shelves(u, at) \subseteq Mine(u) \cup {Own}
BY MembersBelong DEF Shelves

\* An on-behalf-of caller is the service's, and unrestricted; any other is a user.
LEMMA CallersTyped ==
    ASSUME Deployment, DoorsTypeOK, NEW c \in Callers
    PROVE  /\ c \in Caller
           /\ c.via = "obo" => c.user = Service /\ c.project = None /\ c.scope = "full"
           /\ c.via # "obo" => c.user \in Users
<1>1. CASE c \in [user: Users, via: {"session"}, scope: {"full"}, project: {None}]
  BY <1>1 DEF Caller
<1>2. CASE \E t \in Tokens : Usable(t) /\ c = [user |-> token[t].user, via |-> "token",
                                               scope |-> token[t].scope, project |-> token[t].project]
  <2>1. PICK t \in Tokens : Usable(t) /\ c = [user |-> token[t].user, via |-> "token",
                                              scope |-> token[t].scope, project |-> token[t].project]
    BY <1>2
  <2>2. token[t] \in Token
    BY <2>1 DEF Usable, DoorsTypeOK
  <2> QED
    BY <2>1, <2>2 DEF Caller, Token
<1>3. CASE key /\ c \in [user: {Service}, via: {"obo"}, scope: {"full"}, project: {None}]
  BY <1>3 DEF Caller
<1> QED
  BY <1>1, <1>2, <1>3 DEF Callers

\* Who is granted a call of a kind, and on which shelves.
LEMMA Granted ==
    ASSUME Deployment, DoorsTypeOK, NEW k \in Kinds, NEW g \in Grants(k)
    PROVE  /\ g[1] \in Users
           /\ k \in Managed => g[2] \in Projects /\ project[g[2]].owner = g[1]
           /\ k = "leave" => g[2] \in Projects
           /\ k = "activate" => g[2] \in Projects
           /\ k = "mint" => g[2] \in Projects \cup {Own}
<1>1. PICK d \in {"http", "mcp"} \X Callers :
        d[2].user # Service /\ Gate(d[1], d[2], k) /\ g \in {d[2].user} \X Reach(d[1], d[2], k)
  BY DEF Grants
<1> DEFINE c == d[2]
<1>2. /\ c \in Callers /\ c \in Caller /\ c.via # "obo" /\ c.user \in Users
      /\ g[1] = c.user
  BY <1>1, CallersTyped
<1>3. PICK at \in Askable[k] : g[2] \in Scope(d[1], c, k, at)
  BY <1>1 DEF Reach
<1>4. /\ at \in Scopes
      /\ k \in Managed \cup {"activate", "leave"} => at # Unscoped
      /\ k # "read" => at.include = {}
  BY <1>3 DEF Askable
<1>5. \A ref \in Given(at) : ref \in Refs
  BY <1>4 DEF Given, Scopes
<1>6. MeProject(c.user, at) \subseteq Projects
  BY <1>2, <1>5, ResolveTyped DEF MeProject
<1>7. /\ Members(c.user, at) \subseteq Projects
      /\ Shelves(c.user, at) \subseteq Projects \cup {Own}
  BY <1>2, <1>4, MembersBelong, ShelvesBelong DEF Mine
<1>8. CASE d[1] = "http"
  BY <1>2, <1>3, <1>6, <1>7, <1>8 DEF Scope, HTTPScope, DataPlane, Managed
<1>9. CASE d[1] # "http"
  <2>1. c.project # None => k \notin Account
    BY <1>1, <1>9 DEF Gate, MCPGate
  <2>2. k \in Account => ResolveScopeMCP(c, at) = Shelves(c.user, at)
    BY <1>2, <2>1 DEF ResolveScopeMCP
  <2>3. k \in Tools
    BY <1>1, <1>9 DEF Gate
  <2>4. k \in Managed \cup {"activate"} =>
           Shelves(c.user, at) \subseteq Projects
    <3>1. k \in Managed \cup {"activate"} => Given(at) # {}
      BY <1>4 DEF Given, Scopes, Unscoped, Managed
    <3> QED
      BY <1>4, <1>7, <3>1 DEF Shelves, Managed
  <2> QED
    BY <1>2, <1>3, <1>9, <2>2, <2>3, <2>4
    DEF Scope, MCPScope, Managed, Account, Tools, DataPlane, WholeStore
<1> QED
  BY <1>8, <1>9

LEMMA DoorsStart == ASSUME Deployment, DoorsInit PROVE DInv
<1>1. 1 \in Projects /\ 0 \in 0..MaxChanges
  BY DEF Deployment
<1>2. DoorsTypeOK
  BY <1>1 DEF DoorsInit, DoorsTypeOK, Token
<1>3. OwnersBelong
  BY DEF DoorsInit, Deployment, OwnersBelong, There, Member
<1>4. LinesKept
  BY DEF DoorsInit, LinesKept
<1> QED
  BY <1>2, <1>3, <1>4 DEF DInv, DoorsInit

\* A step of a call that leaves projects, members and tokens alone.
LEMMA CallStep ==
    ASSUME Deployment, DInv, NEW h \in Handlers, NEW o \in Call \cup {NoCall},
           o # NoCall => LetIn(o), call' = [call EXCEPT ![h] = o],
           UNCHANGED <<made, project, token, key, changes>>,
           active' \in [Users -> Projects \cup {None}]
    PROVE  DInv'
<1>1. DoorsTypeOK'
  BY DEF DInv, DoorsTypeOK
<1>2. OwnersBelong' /\ LinesKept'
  BY DEF DInv, OwnersBelong, LinesKept, There, Member
<1>3. ASSUME NEW g \in Handlers, call'[g] # NoCall
      PROVE  LetIn(call[g])'
  <2>1. call'[g] \in Call
    BY <1>1, <1>3 DEF DoorsTypeOK
  <2>2. call'[g] = o \/ call'[g] = call[g]
    BY DEF DInv, DoorsTypeOK
  <2> QED
    BY <1>3, <2>1, <2>2 DEF DInv, LetIn, Mine, Member
<1> QED
  BY <1>1, <1>2, <1>3 DEF DInv

LEMMA CallNotIdle == \A o \in Call : o # NoCall
BY DEF Call, NoCall, Served, DataPlane

LEMMA DoorsArrive ==
    ASSUME Deployment, DInv, NEW h \in Handlers, Arrive(h)
    PROVE  DInv'
<1>1. PICK door \in {"http", "mcp"}, c \in Callers, k \in Served :
        /\ Gate(door, c, k)
        /\ \E at \in Askable[k] :
              call' = [call EXCEPT ![h] =
                  [door |-> door, who |-> c, kind |-> k, at |-> at,
                   step |-> IF at = Unscoped THEN "default" ELSE "confirm", shelves |-> {},
                   was |-> IF c.via = "obo" THEN {} ELSE Mine(c.user)]]
  BY DEF Arrive
<1>2. PICK at \in Askable[k] :
        call' = [call EXCEPT ![h] =
            [door |-> door, who |-> c, kind |-> k, at |-> at,
             step |-> IF at = Unscoped THEN "default" ELSE "confirm", shelves |-> {},
             was |-> IF c.via = "obo" THEN {} ELSE Mine(c.user)]]
  BY <1>1
<1> DEFINE o == [door |-> door, who |-> c, kind |-> k, at |-> at,
                 step |-> IF at = Unscoped THEN "default" ELSE "confirm", shelves |-> {},
                 was |-> IF c.via = "obo" THEN {} ELSE Mine(c.user)]
<1>3. k \in Kinds
  BY DEF Served, Kinds, Tools, DataPlane
<1>4. at \in Scopes
  BY <1>2, <1>3 DEF Askable
<1>5. /\ c \in Caller
      /\ c.via = "obo" => c.project = None /\ c.scope = "full"
      /\ c.via # "obo" => c.user \in Users
  BY CallersTyped DEF DInv
<1>6. o \in Call
  BY <1>4, <1>5 DEF Call, Mine
<1>7. /\ c.scope = "read_only" => k # "write"
      /\ k = "active" => c.via # "obo"
  BY <1>1 DEF Gate, HTTPGate, MCPGate, Tools, DataPlane, WholeStore, Account, Managed
<1>8. LetIn(o)
  BY <1>5, <1>7 DEF LetIn
<1>9. UNCHANGED <<made, project, token, key, changes>> /\ active' \in [Users -> Projects \cup {None}]
  BY DEF Arrive, DInv, DoorsTypeOK
<1> HIDE DEF o
<1> QED
  BY <1>2, <1>6, <1>8, <1>9, CallStep DEF o

LEMMA ActiveScoped ==
    ASSUME DoorsTypeOK, NEW u \in Users, NEW k
    PROVE  ActiveDefault(u, k) \in Scopes
<1>1. active[u] \in Projects \cup {None}
  BY DEF DoorsTypeOK
<1> QED
  BY <1>1 DEF ActiveDefault, Scopes, Unscoped, Refs

\* Neither door takes a data plane call beyond the bounds of its caller.
LEMMA ScopeInBounds ==
    ASSUME Deployment, DoorsTypeOK, NEW o \in Call, LetIn(o), o.kind \in DataPlane
    PROVE  LET shelves == Scope(o.door, o.who, o.kind, o.at) IN
           /\ shelves \subseteq o.was \cup {Own}
           /\ o.who.project # None => shelves \subseteq {o.who.project}
<1> DEFINE c == o.who
<1>1. c \in Caller /\ o.at \in Scopes
  BY DEF Call
<1>2. Scope(o.door, c, o.kind, o.at) = CheckProjectAccess(c, o.at)
  BY DEF Scope, HTTPScope, MCPScope, CheckProjectAccess, ResolveScopeMCP,
         Managed, DataPlane
<1>3. CASE c.via = "obo"
  BY <1>2, <1>3 DEF CheckProjectAccess, LetIn
<1>4. CASE c.via # "obo" /\ c.project # None
  <2>1. CheckProjectAccess(c, o.at) = ConfineScope(c, o.at)
    BY <1>4 DEF CheckProjectAccess
  <2>2. c.project \in Projects
    BY <1>1, <1>4 DEF Caller
  <2>3. ConfineScope(c, o.at) \subseteq Mine(c.user) \cap {c.project}
    BY <2>2 DEF ConfineScope, Mine
  <2> QED
    BY <1>2, <1>4, <2>1, <2>3 DEF LetIn
<1>5. CASE c.via # "obo" /\ c.project = None
  <2>1. CheckProjectAccess(c, o.at) = Shelves(c.user, o.at)
    BY <1>5 DEF CheckProjectAccess
  <2> QED
    BY <1>1, <1>2, <1>5, <2>1, ShelvesBelong DEF LetIn
<1> QED
  BY <1>3, <1>4, <1>5

LEMMA DoorsStep ==
    ASSUME Deployment, DInv, NEW h \in Handlers, Advance(h)
    PROVE  DInv'
<1> DEFINE o == call[h]
<1>1. CASE Arrive(h)
  BY <1>1, DoorsArrive
<1>2. CASE ~Arrive(h)
  <2>1. /\ o # NoCall /\ o \in Call /\ LetIn(o)
        /\ DoorsTypeOK
    BY <1>2 DEF Advance, TakeDefault, Confirm, Done, ReadActive, CheckActive, ClearActive,
                DInv, DoorsTypeOK
  <2>2. UNCHANGED <<made, project, token, key, changes>>
    BY <1>2 DEF Advance, TakeDefault, Confirm, Done, ReadActive, CheckActive, ClearActive
  <2>3. active' \in [Users -> Projects \cup {None}]
    BY <1>2, <2>1 DEF Advance, TakeDefault, Confirm, Done, ReadActive, CheckActive, ClearActive,
                DoorsTypeOK
  <2>4. \E n \in Call \cup {NoCall} :
           (n # NoCall => LetIn(n)) /\ call' = [call EXCEPT ![h] = n]
    <3>1. CASE TakeDefault(h)
      <4> DEFINE n == [o EXCEPT !.at = Default(o.door, o.who, o.kind, o.at), !.step = "confirm"]
      <4>1. Default(o.door, o.who, o.kind, o.at) \in Scopes
        BY <2>1, ActiveScoped DEF Default, HTTPDefault, MCPDefault, Call, LetIn
      <4>2. n \in Call
        BY <2>1, <4>1 DEF Call
      <4>3. LetIn(n)
        BY <2>1 DEF LetIn, Call
      <4>4. call' = [call EXCEPT ![h] = n]
        BY <3>1, <2>1 DEF TakeDefault, DoorsTypeOK, Call
      <4> QED
        BY <4>2, <4>3, <4>4
    <3>2. CASE Confirm(h)
      <4> DEFINE shelves == Scope(o.door, o.who, o.kind, o.at)
                 n == [o EXCEPT !.at = Unscoped, !.shelves = shelves, !.step = "act"]
      <4>1. o.kind \in DataPlane
        BY <2>1, <3>2 DEF Confirm, Call, Served
      <4>2. /\ shelves \subseteq o.was \cup {Own}
            /\ o.who.project # None => shelves \subseteq {o.who.project}
        BY <2>1, <4>1, ScopeInBounds
      <4>3. call' = [call EXCEPT ![h] = IF shelves = {} THEN NoCall ELSE n]
        BY <3>2 DEF Confirm
      <4>4. n \in Call
        <5>1. shelves \subseteq Projects \cup {Own}
          BY <2>1, <4>2 DEF Call
        <5>2. Unscoped \in Scopes
          BY DEF Unscoped, Scopes
        <5> HIDE DEF shelves
        <5> QED
          BY <2>1, <5>1, <5>2 DEF Call
      <4>5. shelves # {} => LetIn(n)
        <5> HIDE DEF shelves
        <5> QED
          BY <2>1, <4>2 DEF LetIn, Call
      <4> HIDE DEF shelves, n
      <4> QED
        BY <4>3, <4>4, <4>5
    <3>3. CASE Done(h) \/ ClearActive(h)
      BY <3>3 DEF Done, ClearActive, Return
    <3>4. CASE ReadActive(h)
      <4> DEFINE n == [o EXCEPT !.at.project = active[o.who.user], !.step = "confirm"]
      <4>1. CASE active[o.who.user] = None
        BY <3>4, <4>1 DEF ReadActive
      <4>2. CASE active[o.who.user] # None
        <5>1. o.kind = "active"
          BY <3>4 DEF ReadActive
        <5>2. active[o.who.user] \in Projects
          BY <2>1, <4>2, <5>1 DEF LetIn, DoorsTypeOK
        <5>3. n \in Call
          BY <2>1, <5>2 DEF Call, Scopes, Refs
        <5>4. LetIn(n)
          BY <2>1, <5>1 DEF Call, LetIn, DataPlane
        <5>5. call' = [call EXCEPT ![h] = n]
          BY <3>4, <4>2, <5>1 DEF ReadActive
        <5> QED
          BY <5>3, <5>4, <5>5
      <4> QED
        BY <4>1, <4>2
    <3>5. CASE CheckActive(h)
      <4> DEFINE n == [o EXCEPT !.step = "act"]
      <4>1. o.kind = "active"
        BY <3>5 DEF CheckActive
      <4>2. n \in Call /\ LetIn(n)
        BY <2>1, <4>1 DEF Call, LetIn, DataPlane
      <4>3. call' = [call EXCEPT ![h] = NoCall] \/ call' = [call EXCEPT ![h] = n]
        BY <3>5 DEF CheckActive
      <4> QED
        BY <4>2, <4>3
    <3> QED
      BY <1>2, <3>1, <3>2, <3>3, <3>4, <3>5 DEF Advance
  <2> QED
    BY <2>2, <2>3, <2>4, CallStep
<1> QED
  BY <1>1, <1>2

\* A change that leaves the calls alone and adds nobody to a project.
LEMMA QuietChange ==
    ASSUME Deployment, DInv, DoorsTypeOK', OwnersBelong', LinesKept', UNCHANGED call,
           \A p \in Projects : project'[p].members \subseteq project[p].members
    PROVE  DInv'
<1>1. ASSUME NEW h \in Handlers, call[h] # NoCall
      PROVE  LetIn(call[h])'
  BY <1>1 DEF DInv, LetIn, Mine, Member
<1> QED
  BY <1>1 DEF DInv

\* A change that lets u into p, and tells the calls of u.
LEMMA Joined ==
    ASSUME Deployment, DInv, NEW u \in Users, NEW p \in Projects, Joins(u, p),
           UNCHANGED <<active, token, key>>, made' \in Projects, changes' \in 0..MaxChanges,
           project' \in [Projects -> [owner: Users \cup {None}, members: SUBSET Users]],
           OwnersBelong',
           \A v \in Users, q \in Projects :
               v \in project'[q].members => v \in project[q].members \/ (v = u /\ q = p)
    PROVE  DInv'
<1>1. ASSUME NEW h \in Handlers
      PROVE  /\ call'[h] \in Call \cup {NoCall}
             /\ call'[h] # NoCall => LetIn(call[h])'
  <2>1. CASE call[h] = NoCall
    BY <2>1 DEF Joins
  <2>2. CASE call[h] # NoCall
    <3>1. call[h] \in Call /\ LetIn(call[h])
      BY <2>2 DEF DInv, DoorsTypeOK
    <3>2. CASE call[h].who.user = u
      <4>1. call'[h] = [call[h] EXCEPT !.was = @ \cup {p}]
        BY <2>2, <3>2 DEF Joins
      <4>2. call'[h] \in Call
        BY <3>1, <4>1 DEF Call
      <4>3. Mine(u)' \subseteq Mine(u) \cup {p}
        BY DEF Mine, Member
      <4> QED
        BY <3>1, <3>2, <4>1, <4>2, <4>3 DEF LetIn, Call
    <3>3. CASE call[h].who.user # u
      <4>1. call'[h] = call[h]
        BY <3>3 DEF Joins
      <4> QED
        BY <3>1, <3>3, <4>1 DEF LetIn, Mine, Member
    <3> QED
      BY <3>2, <3>3
  <2> QED
    BY <2>1, <2>2
<1>2. call' \in [Handlers -> Call \cup {NoCall}]
  BY <1>1 DEF Joins
<1>3. DoorsTypeOK' /\ LinesKept'
  BY <1>2 DEF DInv, DoorsTypeOK, LinesKept
<1> QED
  BY <1>1, <1>3 DEF DInv

LEMMA DoorsCreate == ASSUME Deployment, DInv, CreateProject PROVE DInv'
<1>1. DoorsTypeOK /\ "create" \in Kinds
  BY DEF DInv, Kinds, Tools, Account
<1>2. PICK g \in Grants("create") :
        /\ project' = [project EXCEPT ![made'] = [owner |-> g[1], members |-> {g[1]}]]
        /\ Joins(g[1], made')
  BY DEF CreateProject
<1>3. g[1] \in Users
  BY <1>1, <1>2, Granted
<1>4. /\ UNCHANGED <<active, token, key>> /\ made' \in Projects /\ changes' \in 0..MaxChanges
      /\ project' \in [Projects -> [owner: Users \cup {None}, members: SUBSET Users]]
  BY <1>1, <1>2, <1>3 DEF CreateProject, Counted, DoorsTypeOK, Deployment
<1>5. OwnersBelong'
  BY <1>1, <1>2, <1>4 DEF DInv, OwnersBelong, There, Member, DoorsTypeOK
<1>6. \A v \in Users, q \in Projects :
         v \in project'[q].members => v \in project[q].members \/ (v = g[1] /\ q = made')
  BY <1>1, <1>2, <1>4 DEF DoorsTypeOK
<1> QED
  BY <1>2, <1>3, <1>4, <1>5, <1>6, Joined

LEMMA DoorsAdd == ASSUME Deployment, DInv, NEW u \in Users, AddMember(u) PROVE DInv'
<1>1. DoorsTypeOK /\ "share" \in Kinds /\ "share" \in Managed
  BY DEF DInv, Kinds, Tools, Account, Managed
<1>2. PICK g \in Grants("share") :
        /\ project' = [project EXCEPT ![g[2]].members = @ \cup {u}]
        /\ Joins(u, g[2])
  BY DEF AddMember
<1>3. g[2] \in Projects
  BY <1>1, <1>2, Granted
<1>4. /\ UNCHANGED <<active, token, key>> /\ made' \in Projects /\ changes' \in 0..MaxChanges
      /\ project' \in [Projects -> [owner: Users \cup {None}, members: SUBSET Users]]
  <2>1. /\ UNCHANGED <<made, active, token, key>> /\ changes' \in 0..MaxChanges
    BY <1>1 DEF AddMember, Counted, DoorsTypeOK, Deployment
  <2>2. project' \in [Projects -> [owner: Users \cup {None}, members: SUBSET Users]]
    BY <1>1, <1>2, <1>3 DEF DoorsTypeOK
  <2> QED
    BY <1>1, <2>1, <2>2 DEF DoorsTypeOK
<1>5. OwnersBelong'
  BY <1>1, <1>2, <1>3, <1>4 DEF DInv, OwnersBelong, There, Member, DoorsTypeOK
<1>6. \A v \in Users, q \in Projects :
         v \in project'[q].members => v \in project[q].members \/ (v = u /\ q = g[2])
  BY <1>1, <1>2, <1>3, <1>4 DEF DoorsTypeOK
<1> QED
  BY <1>2, <1>3, <1>4, <1>5, <1>6, Joined

LEMMA DoorsRemove == ASSUME Deployment, DInv, NEW u \in Users, RemoveMember(u) PROVE DInv'
<1>1. /\ DoorsTypeOK /\ {"unshare", "leave"} \subseteq Kinds /\ "unshare" \in Managed
  BY DEF DInv, Kinds, Tools, Account, Managed
<1>2. PICK g \in Grants("unshare") \cup Grants("leave") :
        /\ u # project[g[2]].owner
        /\ project' = [project EXCEPT ![g[2]].members = @ \ {u}]
  BY DEF RemoveMember
<1>3. g[2] \in Projects
  BY <1>1, <1>2, Granted
<1>4. DoorsTypeOK' /\ UNCHANGED call
  <2>1. UNCHANGED <<made, active, token, key, call>> /\ changes' \in 0..MaxChanges
    BY <1>1 DEF RemoveMember, Counted, DoorsTypeOK, Deployment
  <2>2. project' \in [Projects -> [owner: Users \cup {None}, members: SUBSET Users]]
    BY <1>1, <1>2, <1>3 DEF DoorsTypeOK
  <2> QED
    BY <1>1, <2>1, <2>2 DEF DoorsTypeOK
<1>5. OwnersBelong'
  BY <1>1, <1>2, <1>3, <1>4 DEF DInv, OwnersBelong, There, Member, DoorsTypeOK
<1>6. LinesKept' /\ \A p \in Projects : project'[p].members \subseteq project[p].members
  BY <1>1, <1>2, <1>3 DEF RemoveMember, DInv, LinesKept, DoorsTypeOK
<1> QED
  BY <1>4, <1>5, <1>6, QuietChange

LEMMA DoorsDelete == ASSUME Deployment, DInv, DeleteProject PROVE DInv'
<1>1. /\ DoorsTypeOK /\ "delete" \in Kinds /\ "delete" \in Managed
  BY DEF DInv, Kinds, Tools, Account, Managed
<1>2. PICK g \in Grants("delete") :
        /\ project' = [project EXCEPT ![g[2]] = [owner |-> None, members |-> {}]]
        /\ active' = [u \in Users |-> IF active[u] = g[2] THEN None ELSE active[u]]
  BY DEF DeleteProject
<1>3. g[2] \in Projects
  BY <1>1, <1>2, Granted
<1>4. DoorsTypeOK' /\ UNCHANGED call
  <2>1. UNCHANGED <<made, token, key, call>> /\ changes' \in 0..MaxChanges
    BY <1>1 DEF DeleteProject, Counted, DoorsTypeOK, Deployment
  <2>2. project' \in [Projects -> [owner: Users \cup {None}, members: SUBSET Users]]
    BY <1>1, <1>2, <1>3 DEF DoorsTypeOK
  <2>3. active' \in [Users -> Projects \cup {None}]
    BY <1>1, <1>2 DEF DoorsTypeOK
  <2> QED
    BY <1>1, <2>1, <2>2, <2>3 DEF DoorsTypeOK
<1>5. OwnersBelong'
  BY <1>1, <1>2, <1>3, <1>4 DEF DInv, OwnersBelong, There, Member, DoorsTypeOK
<1>6. LinesKept' /\ \A p \in Projects : project'[p].members \subseteq project[p].members
  BY <1>1, <1>2, <1>3 DEF DeleteProject, DInv, LinesKept, DoorsTypeOK
<1> QED
  BY <1>4, <1>5, <1>6, QuietChange

LEMMA DoorsActive == ASSUME Deployment, DInv, Activate \/ Deactivate PROVE DInv'
<1>1. /\ DoorsTypeOK /\ {"activate", "deactivate"} \subseteq Kinds
  BY DEF DInv, Kinds, Tools, Account
<1>2. active' \in [Users -> Projects \cup {None}]
  <2>1. CASE Activate
    <3>1. PICK g \in Grants("activate") : active' = [active EXCEPT ![g[1]] = g[2]]
      BY <2>1 DEF Activate
    <3>2. g[1] \in Users /\ g[2] \in Projects
      BY <1>1, <3>1, Granted
    <3> QED
      BY <1>1, <3>1, <3>2 DEF DoorsTypeOK
  <2>2. CASE Deactivate
    <3>1. PICK g \in Grants("deactivate") : active' = [active EXCEPT ![g[1]] = None]
      BY <2>2 DEF Deactivate
    <3> QED
      BY <1>1, <3>1 DEF DoorsTypeOK
  <2> QED
    BY <2>1, <2>2
<1>3. DoorsTypeOK' /\ UNCHANGED <<call, project, token>>
  BY <1>1, <1>2 DEF Activate, Deactivate, Counted, DoorsTypeOK, Deployment
<1> QED
  BY <1>3, QuietChange DEF DInv, OwnersBelong, LinesKept, There, Member

\* A change of one token, or a new one of an old line.
LEMMA TokenStep ==
    ASSUME Deployment, DInv, Counted, UNCHANGED <<made, project, active, call>>, key' \in BOOLEAN,
           token' \in [Tokens -> Token \cup {None}], LinesKept'
    PROVE  DInv'
<1>1. DoorsTypeOK'
  BY DEF DInv, DoorsTypeOK, Counted, Deployment
<1> QED
  BY <1>1, QuietChange DEF DInv, OwnersBelong, There, Member

LEMMA DoorsMint == ASSUME Deployment, DInv, NEW t \in Tokens, Mint(t) PROVE DInv'
<1>1. DoorsTypeOK /\ "mint" \in Kinds
  BY DEF DInv, Kinds
<1>2. PICK g \in Grants("mint"), scope \in {"full", "read_only"} :
        token' = [token EXCEPT ![t] =
              [user |-> g[1], scope |-> scope, project |-> IF g[2] = Own THEN None ELSE g[2],
               state |-> "live", root |-> t]]
  BY DEF Mint
<1>3. g[1] \in Users /\ g[2] \in Projects \cup {Own}
  BY <1>1, <1>2, Granted
<1>4. token' \in [Tokens -> Token \cup {None}]
  BY <1>1, <1>2, <1>3 DEF DoorsTypeOK, Token
<1>5. token[t] = None
  BY DEF Mint, Fresh
<1>6. LinesKept'
  BY <1>1, <1>2, <1>4, <1>5 DEF DInv, LinesKept, DoorsTypeOK, Token
<1> QED
  BY <1>1, <1>4, <1>6, TokenStep DEF Mint, DoorsTypeOK

\* A token keeps all but its state, which no longer counts.
LEMMA Ended ==
    ASSUME Deployment, DInv, NEW t \in Tokens, token[t] # None, NEW state \in {"revoked", "gone"},
           token' = [token EXCEPT ![t].state = state],
           Counted, UNCHANGED <<made, project, active, key, call>>
    PROVE  DInv'
<1>1. DoorsTypeOK
  BY DEF DInv
<1>2. token' \in [Tokens -> Token \cup {None}]
  BY <1>1 DEF DoorsTypeOK, Token
<1>3. \A s \in Tokens : token[s] # None => token[s] \in Token
  BY <1>1 DEF DoorsTypeOK
<1>4. LinesKept'
  BY <1>1, <1>2, <1>3 DEF DInv, LinesKept, DoorsTypeOK, Token, Deployment
<1> QED
  BY <1>1, <1>2, <1>4, TokenStep DEF DoorsTypeOK

LEMMA DoorsEnd ==
    ASSUME Deployment, DInv, NEW t \in Tokens, DeleteToken(t) \/ RevokeToken(t)
    PROVE  DInv'
BY Ended DEF DeleteToken, RevokeToken, Fresh

LEMMA DoorsExpire == ASSUME Deployment, DInv, NEW t \in Tokens, Expire(t) PROVE DInv'
<1>1. DoorsTypeOK
  BY DEF DInv
<1>2. token' \in [Tokens -> Token \cup {None}]
  BY <1>1 DEF Expire, Fresh, DoorsTypeOK, Token
<1>3. \A s \in Tokens : token[s] # None => token[s] \in Token
  BY <1>1 DEF DoorsTypeOK
<1>4. LinesKept'
  BY <1>1, <1>2, <1>3 DEF DInv, LinesKept, DoorsTypeOK, Token, Deployment, Expire, Fresh
<1> QED
  BY <1>1, <1>2, <1>4, TokenStep DEF Expire, DoorsTypeOK

LEMMA DoorsRotate == ASSUME Deployment, DInv, NEW t \in Tokens, Rotate(t) PROVE DInv'
<1>1. DoorsTypeOK
  BY DEF DInv
<1>2. PICK heir \in Tokens :
        token[heir] = None /\ token' = [token EXCEPT ![t].state = "revoked", ![heir] = token[t]]
  BY DEF Rotate, Fresh
<1>3. token[t] # None /\ token[t] \in Token /\ token[t].state \in {"live", "expired"} /\ heir # t
  BY <1>1, <1>2 DEF Rotate, Fresh, DoorsTypeOK
<1>4. token' \in [Tokens -> Token \cup {None}]
  BY <1>1, <1>2, <1>3 DEF DoorsTypeOK, Token
<1>5. \A s \in Tokens : token[s] # None => token[s] \in Token
  BY <1>1 DEF DoorsTypeOK
<1>6. /\ token'[heir] = token[t]
      /\ token'[t] = [token[t] EXCEPT !.state = "revoked"]
      /\ token'[t] # None
      /\ \A s \in Tokens \ {t, heir} : token'[s] = token[s]
  BY <1>1, <1>2, <1>3, <1>4, SMTT(30) DEF DoorsTypeOK, Token, Deployment
<1> DEFINE old(s) == IF s = heir THEN t ELSE s
<1>7. ASSUME NEW s \in Tokens, token'[s] # None
      PROVE  /\ old(s) \in Tokens /\ token[old(s)] # None
             /\ token'[s].user = token[old(s)].user /\ token'[s].scope = token[old(s)].scope
             /\ token'[s].project = token[old(s)].project /\ token'[s].root = token[old(s)].root
             /\ token'[s].state \in {"live", "expired"} => s # t /\ token'[s] = token[old(s)]
  <2>1. CASE s = heir
    BY <1>3, <1>6, <2>1
  <2>2. CASE s = t
    BY <1>2, <1>3, <1>6, <2>2 DEF Token
  <2>3. CASE s \notin {heir, t}
    BY <1>6, <1>7, <2>3
  <2> QED
    BY <2>1, <2>2, <2>3
<1> HIDE DEF old
<1>8. LinesKept'
  <2>1. ASSUME NEW s \in Tokens, token'[s] # None
        PROVE  LET root == token'[token'[s].root] IN
               /\ root # None
               /\ root.root = token'[s].root
               /\ token'[s].user = root.user /\ token'[s].scope = root.scope
               /\ token'[s].project = root.project
    <3> DEFINE r == token'[s].root
    <3>1. /\ old(s) \in Tokens /\ token[old(s)] # None /\ r = token[old(s)].root
          /\ token'[s].user = token[old(s)].user /\ token'[s].scope = token[old(s)].scope
          /\ token'[s].project = token[old(s)].project
      BY <1>7, <2>1
    <3>2. /\ r \in Tokens /\ token[r] # None /\ token[r].root = r
          /\ token'[s].user = token[r].user /\ token'[s].scope = token[r].scope
          /\ token'[s].project = token[r].project
      BY <1>5, <3>1 DEF DInv, LinesKept, Token
    <3>3. token'[r] # None /\ old(r) = r
      BY <1>2, <1>6, <3>2 DEF old
    <3> QED
      BY <1>7, <3>2, <3>3
  <2>2. ASSUME NEW s \in Tokens, NEW q \in Tokens, token'[s] # None, token'[q] # None,
               token'[s].state \in {"live", "expired"}, token'[q].state \in {"live", "expired"},
               token'[s].root = token'[q].root
        PROVE  s = q
    <3>1. old(s) = old(q)
      BY <1>7, <2>2 DEF DInv, LinesKept
    <3>2. s # t /\ q # t
      BY <1>7, <2>2
    <3> QED
      BY <3>1, <3>2 DEF old
  <2> QED
    BY <2>1, <2>2 DEF LinesKept
<1> QED
  BY <1>1, <1>4, <1>8, TokenStep DEF Rotate, DoorsTypeOK

LEMMA DoorsPreserved == ASSUME Deployment, DInv, [DoorsNext]_doorsVars PROVE DInv'
<1>1. CASE SetServiceKey
  BY <1>1, TokenStep DEF SetServiceKey, DInv, DoorsTypeOK, LinesKept
<1>2. CASE Change /\ ~SetServiceKey
  BY <1>2, DoorsCreate, DoorsAdd, DoorsRemove, DoorsDelete, DoorsActive, DoorsMint, DoorsEnd, DoorsRotate,
     DoorsExpire
  DEF Change
<1>3. CASE \E h \in Handlers : Advance(h)
  BY <1>3, DoorsStep
<1>4. CASE UNCHANGED doorsVars
  BY <1>4 DEF doorsVars, DInv, DoorsTypeOK, OwnersBelong, LinesKept, LetIn, There, Member, Mine
<1> QED
  BY <1>1, <1>2, <1>3, <1>4 DEF DoorsNext

LEMMA DoorsInBounds == ASSUME DInv PROVE InBounds
<1> SUFFICES ASSUME NEW h \in Handlers, call[h] # NoCall, call[h].step = "act",
                    call[h].kind \in DataPlane \cup WholeStore
             PROVE  /\ call[h].shelves \subseteq call[h].was \cup {Own}
                    /\ call[h].who.project # None => call[h].shelves = {call[h].who.project}
                    /\ call[h].who.scope = "read_only" => call[h].kind # "write"
  BY DEF InBounds
<1>1. call[h].kind \in DataPlane
  BY DEF DInv, DoorsTypeOK, Call, Served, DataPlane, WholeStore
<1> QED
  BY <1>1 DEF DInv, LetIn

LEMMA DoorsLineHeld == ASSUME DInv PROVE LineHeld
<1> SUFFICES ASSUME NEW t \in Tokens, token[t] # None, token[t].state = "live"
             PROVE  LET root == token[t].root IN
                    /\ token[t].user = token[root].user
                    /\ token[t].scope = token[root].scope /\ token[t].project = token[root].project
                    /\ token[root].state # "expired"
                    /\ \A s \in Tokens : Usable(s) /\ token[s].root = root => s = t
  BY DEF LineHeld, Usable
<1>1. token[t].root \in Tokens
  BY DEF DInv, DoorsTypeOK, Token
<1> QED
  BY <1>1 DEF DInv, LinesKept, Usable

\* Both doors let the same calls in.
LEMMA GatesAgree ==
    ASSUME Deployment, DoorsTypeOK, NEW c \in Callers, NEW k \in Tools,
           c.scope # "read_only", ~(c.project # None /\ k \in Account)
    PROVE  HTTPGate(c, k) = MCPGate(c, k)
<1>1. /\ c \in Caller
      /\ c.via = "obo" => c.project = None
  BY CallersTyped
<1>2. k \in Tools /\ k \notin {"mint", "unmint", "leave", "active", "export"}
  BY DEF Tools, DataPlane, WholeStore, Account, Managed
<1>3. HTTPGate(c, k) <=> /\ c.via = "obo" => k \in DataPlane \cup WholeStore
                         /\ c.project # None => k \notin WholeStore
                         /\ k = "admin" => c.project = None /\ c.user \in Admins
  BY <1>2 DEF HTTPGate, Restricted
<1>4. MCPGate(c, k) <=> /\ c.via = "obo" => k \notin Account \cup {"admin"}
                        /\ c.project # None => k \notin WholeStore
                        /\ k = "admin" => c.project = None /\ c.user \in Admins
  BY DEF MCPGate, Restricted
<1>5. k \in DataPlane \cup WholeStore <=> k \notin Account \cup {"admin"}
  BY <1>2 DEF Tools, DataPlane, WholeStore, Account, Managed
<1>6. HTTPGate(c, k) \in BOOLEAN /\ MCPGate(c, k) \in BOOLEAN
  BY DEF HTTPGate, MCPGate
<1> QED
  BY <1>3, <1>4, <1>5, <1>6

\* Both doors take a scope for the same shelves.
LEMMA ScopesAgree ==
    ASSUME Deployment, DoorsTypeOK, OwnersBelong, NEW c \in Callers, NEW k \in Tools,
           ~(c.project # None /\ k \in Account), HTTPGate(c, k), NEW at \in Askable[k]
    PROVE  HTTPScope(c, k, HTTPDefault(c, k, at)) = MCPScope(c, k, MCPDefault(c, k, at))
<1>1. /\ c \in Caller
      /\ c.via # "obo" => c.user \in Users
  BY CallersTyped
<1>2. k \in Kinds
  BY DEF Kinds
<1>3. /\ at \in Scopes
      /\ k # "read" => at.include = {}
      /\ k \in Managed \cup {"activate"} => at # Unscoped
  BY <1>2 DEF Askable
<1>4. CASE k \in DataPlane
  BY <1>4 DEF HTTPScope, HTTPDefault, MCPScope, MCPDefault, CheckProjectAccess, ResolveScopeMCP,
              DataPlane, Managed
<1>5. CASE k \in Managed \cup {"activate"}
  <2>1. k \in Account /\ k \notin DataPlane \cup WholeStore
    BY <1>5 DEF Account, Managed, DataPlane, WholeStore
  <2>2. c.via # "obo" /\ c.project = None /\ c.user \in Users
    BY <1>1, <2>1 DEF HTTPGate
  <2>3. HTTPDefault(c, k, at) = at /\ MCPDefault(c, k, at) = at
    BY <2>1 DEF HTTPDefault, MCPDefault
  <2>4. at.include = {} /\ at.project # None /\ at.project \in Refs
    BY <1>3, <1>5 DEF Scopes, Unscoped, Managed
  <2>5. Given(at) = {at.project}
    BY <2>4 DEF Given
  <2>6. ResolveScopeMCP(c, at) = Members(c.user, at)
    BY <2>2, <2>4, <2>5 DEF ResolveScopeMCP, Shelves
  <2>7. CASE k = "activate"
    BY <2>3, <2>6, <2>7 DEF HTTPScope, MCPScope, DataPlane, Managed
  <2>8. CASE k \in Managed
    <3> DEFINE p == Resolve(c.user, at.project)
    <3>1. MeProject(c.user, at) = {p} \ {None}
      BY <2>5 DEF MeProject
    <3>2. Members(c.user, at) = IF p # None /\ Member(c.user, p) THEN {p} ELSE {}
      BY <2>5 DEF Members
    <3>3. p # None => p \in Projects
      BY <2>2, <2>4, ResolveTyped
    <3>4. p # None /\ project[p].owner = c.user => Member(c.user, p)
      BY <2>2, <3>3 DEF OwnersBelong, There, Deployment
    <3>5. HTTPScope(c, k, at) = {q \in MeProject(c.user, at) : project[q].owner = c.user}
      BY <2>8 DEF HTTPScope, DataPlane, Managed
    <3>6. MCPScope(c, k, at) = {q \in Members(c.user, at) : project[q].owner = c.user}
      BY <2>6, <2>8 DEF MCPScope, DataPlane, Managed
    <3> HIDE DEF p
    <3> QED
      BY <2>3, <3>1, <3>2, <3>4, <3>5, <3>6
  <2> QED
    BY <1>5, <2>7, <2>8
<1>6. CASE k \notin DataPlane \cup Managed \cup {"activate"}
  BY <1>6 DEF HTTPScope, MCPScope, Tools, Account, WholeStore, Managed, DataPlane
<1> QED
  BY <1>4, <1>5, <1>6

LEMMA DoorsDoAgree == ASSUME Deployment, DInv PROVE DoorsAgree
BY GatesAgree, ScopesAgree DEF DInv, DoorsAgree

\* The inductive invariant of the doors: types, owners who belong, lines of tokens that keep to their
\* first, and calls that know what they may do.
THEOREM DoorsCorrect == DoorsSpec => []DInv
<1>1. DoorsInit => DInv
  BY DoorsStart, DoorsAssumption
<1>2. DInv /\ [DoorsNext]_doorsVars => DInv'
  BY DoorsPreserved, DoorsAssumption
<1> QED
  BY <1>1, <1>2, PTL DEF DoorsSpec

\* A call reaches no shelf beyond its caller's bounds, whoever joins, leaves, activates or deletes what
\* while it is under way.
THEOREM CallsInBounds == DoorsSpec => []InBounds
<1>1. DInv => InBounds
  BY DoorsInBounds, DoorsAssumption
<1> QED
  BY <1>1, DoorsCorrect, PTL

\* Rotation gives a token's restrictions and its end away, to one heir at a time.
THEOREM LinesHold == DoorsSpec => []LineHeld
<1>1. DInv => LineHeld
  BY DoorsLineHeld, DoorsAssumption
<1> QED
  BY <1>1, DoorsCorrect, PTL

\* Both doors answer the same question alike, for any number of users, projects and tokens.
THEOREM TheDoorsAgree == DoorsSpec => []DoorsAgree
<1>1. DInv => DoorsAgree
  BY DoorsDoAgree, DoorsAssumption
<1> QED
  BY <1>1, DoorsCorrect, PTL
-----------------------------------------------------------------------------
(* The budgets *)

Stage == [pc : {"new", "throttle", "lock", "verify", "settle", "quota", "insert", "done"},
          kind : RequestKinds \cup {"none"}, at : Replicas \cup {Nobody}]

\* A call under way is somewhere, and one on its way to a lock has a key.
Placed(q) ==
    /\ q.pc \notin {"new", "done"} => q.at \in Replicas
    /\ q.pc \in {"throttle", "lock", "verify", "settle"} => q.kind \in RequestKinds \ {"write"}

LimitsTyped ==
    /\ now \in 0 .. MaxTime /\ entries \in Nat /\ passed \in Nat /\ margin \in Nat
    /\ shared \in [count : Nat, reset : Nat]
    /\ fails \in [Keys -> [count : Nat, reset : Nat]]
    /\ guesses \in [Keys -> [wrong : Nat, abreast : Nat]]
    /\ quota \in [Replicas -> [start : Nat, writes : Nat, count : Nat, checked : Nat, on : BOOLEAN]]
    /\ ledger \in [Replicas -> [writes : Nat, unseen : Nat]]
    /\ request \in [Calls -> Stage]
    /\ throttle = [r \in Replicas |-> throttle[r]]
    /\ \A c \in Calls : Placed(request[c])

\* The shared counter counts whom it lets through.
WindowCounted == passed <= shared.count /\ (MaxRequests > 0 => passed <= MaxRequests)

\* The log of a replica never holds more than it may let through.
LogHeld == \A r \in Replicas : IsFiniteSet(throttle[r]) /\ Cardinality(throttle[r]) <= ThrottleMax

\* A lock counts every failure, and those under verification were let in below the limit.
FailuresCounted ==
    \A k \in Keys :
        /\ guesses[k].wrong = fails[k].count
        /\ Cardinality(Verifying(k)) <= guesses[k].abreast
        /\ guesses[k].wrong + Cardinality(Verifying(k)) <= FailMax - 1 + guesses[k].abreast

\* A window counts the writes it admits.
WritesCounted ==
    \A r \in Replicas :
        /\ WritesPerMinute > 0 => ledger[r].writes <= WritesPerMinute
        /\ quota[r].on => ledger[r].writes = quota[r].writes

\* Entries that are there or under way are counted, or the cached count could not know of them.
EntriesKnown ==
    MaxEntries > 0 =>
        /\ \A r \in Replicas : quota[r].on /\ quota[r].checked # 0 =>
              entries + Cardinality(Storing) <= quota[r].count + ledger[r].unseen
        /\ entries + Cardinality(Storing) <= MaxEntries + margin

LInv == LimitsTyped /\ WindowCounted /\ LogHeld /\ FailuresCounted /\ WritesCounted /\ EntriesKnown
-----------------------------------------------------------------------------
One(b) == IF b THEN 1 ELSE 0

\* One member more or less in a finite set.
LEMMA OneMore ==
    ASSUME NEW S, IsFiniteSet(S), NEW c, NEW T, NEW b \in BOOLEAN,
           T = IF b THEN S \cup {c} ELSE S \ {c}
    PROVE  /\ Cardinality(S) \in Nat /\ Cardinality(T) \in Nat /\ IsFiniteSet(T)
           /\ Cardinality(T) = Cardinality(S) + One(b) - One(c \in S)
<1>1. Cardinality(S) \in Nat
  BY FS_CardinalityType
<1>2. CASE b
  BY <1>1, <1>2, FS_AddElement DEF One
<1>3. CASE ~b
  <2>1. CASE c \in S
    BY <1>1, <1>3, <2>1, FS_RemoveElement, FS_CardinalityType DEF One
  <2>2. CASE c \notin S
    <3>1. T = S
      BY <1>3, <2>2
    <3> QED
      BY <1>1, <1>3, <2>2, <3>1 DEF One
  <2> QED
    BY <2>1, <2>2
<1> QED
  BY <1>2, <1>3

\* A call that moves on is counted where it goes and no longer where it was.
LEMMA CountsMove ==
    ASSUME LimitsTyped, NEW c \in Calls, NEW u \in Stage, request' = [request EXCEPT ![c] = u],
           NEW k
    PROVE  /\ Cardinality(Verifying(k)) \in Nat /\ Cardinality(Verifying(k))' \in Nat
           /\ Cardinality(Verifying(k))' = Cardinality(Verifying(k))
                 + One(u.pc = "verify" /\ <<u.at, u.kind>> = k) - One(request[c].pc = "verify" /\ Key(c) = k)
           /\ Cardinality(Storing) \in Nat /\ Cardinality(Storing)' \in Nat
           /\ Cardinality(Storing)' = Cardinality(Storing)
                 + One(u.pc = "insert") - One(request[c].pc = "insert")
<1>1. /\ request'[c] = u
      /\ \A d \in Calls \ {c} : request'[d] = request[d]
  BY DEF LimitsTyped
<1>2. IsFiniteSet(Verifying(k)) /\ IsFiniteSet(Storing)
  BY LimitsAssumption, FS_Subset DEF Verifying, Storing
<1>3. Verifying(k)' = IF u.pc = "verify" /\ <<u.at, u.kind>> = k THEN Verifying(k) \cup {c} ELSE Verifying(k) \ {c}
  BY <1>1 DEF Verifying, Stands, Key
<1>4. Storing' = IF u.pc = "insert" THEN Storing \cup {c} ELSE Storing \ {c}
  BY <1>1 DEF Storing, Stands
<1>5. (c \in Verifying(k)) = (request[c].pc = "verify" /\ Key(c) = k)
  BY DEF Verifying, Stands
<1>6. (c \in Storing) = (request[c].pc = "insert")
  BY DEF Storing, Stands
<1>7. /\ Cardinality(Verifying(k)) \in Nat /\ Cardinality(Verifying(k)') \in Nat
      /\ Cardinality(Verifying(k)') = Cardinality(Verifying(k))
            + One(u.pc = "verify" /\ <<u.at, u.kind>> = k) - One(c \in Verifying(k))
  BY <1>2, <1>3, OneMore
<1>8. /\ Cardinality(Storing) \in Nat /\ Cardinality(Storing') \in Nat
      /\ Cardinality(Storing') = Cardinality(Storing) + One(u.pc = "insert") - One(c \in Storing)
  BY <1>2, <1>4, OneMore
<1> QED
  BY <1>5, <1>6, <1>7, <1>8

\* A call let in to the password is one more that is verified under its key.
LEMMA OneLetIn ==
    ASSUME LimitsTyped, NEW c \in Calls, NEW u \in Stage, request' = [request EXCEPT ![c] = u],
           NEW k, u.pc = "verify", <<u.at, u.kind>> = k, request[c].pc # "verify"
    PROVE  Cardinality(Verifying(k))' = Cardinality(Verifying(k)) + 1
<1>1. /\ Cardinality(Verifying(k)) \in Nat /\ Cardinality(Verifying(k))' \in Nat
      /\ Cardinality(Verifying(k))' = Cardinality(Verifying(k))
            + One(u.pc = "verify" /\ <<u.at, u.kind>> = k) - One(request[c].pc = "verify" /\ Key(c) = k)
  BY CountsMove
<1>2. /\ One(u.pc = "verify" /\ <<u.at, u.kind>> = k) = 1
      /\ One(request[c].pc = "verify" /\ Key(c) = k) = 0
  BY DEF One
<1> QED
  BY <1>1, <1>2

\* A call that goes anywhere but to the password or the table leaves the budgets behind them alone.
LEMMA MoveOn ==
    ASSUME LInv, NEW c \in Calls, NEW u \in Stage, request' = [request EXCEPT ![c] = u],
           u.pc \notin {"verify", "insert"}, Placed(u),
           UNCHANGED <<now, fails, quota, entries, guesses, ledger, margin>>
    PROVE  /\ request' \in [Calls -> Stage]
           /\ \A d \in Calls : Placed(request'[d])
           /\ FailuresCounted' /\ WritesCounted' /\ EntriesKnown'
<1>1. LimitsTyped
  BY DEF LInv
<1>2. request' \in [Calls -> Stage] /\ \A d \in Calls : Placed(request'[d])
  BY <1>1 DEF LimitsTyped
<1>3. ASSUME NEW k
      PROVE  /\ Cardinality(Verifying(k)) \in Nat /\ Cardinality(Verifying(k))' \in Nat
             /\ Cardinality(Verifying(k))' <= Cardinality(Verifying(k))
             /\ Cardinality(Storing) \in Nat /\ Cardinality(Storing)' \in Nat
             /\ Cardinality(Storing)' <= Cardinality(Storing)
  <2>1. /\ Cardinality(Verifying(k)) \in Nat /\ Cardinality(Verifying(k))' \in Nat
        /\ Cardinality(Verifying(k))' = Cardinality(Verifying(k))
              + One(u.pc = "verify" /\ <<u.at, u.kind>> = k) - One(request[c].pc = "verify" /\ Key(c) = k)
        /\ Cardinality(Storing) \in Nat /\ Cardinality(Storing)' \in Nat
        /\ Cardinality(Storing)' = Cardinality(Storing) + One(u.pc = "insert") - One(request[c].pc = "insert")
    BY <1>1, CountsMove
  <2>2. One(u.pc = "verify" /\ <<u.at, u.kind>> = k) = 0 /\ One(u.pc = "insert") = 0
    BY DEF One
  <2>3. One(request[c].pc = "verify" /\ Key(c) = k) \in Nat /\ One(request[c].pc = "insert") \in Nat
    BY DEF One
  <2> QED
    BY <2>1, <2>2, <2>3
<1>4. FailuresCounted'
  <2> SUFFICES ASSUME NEW k \in Keys
               PROVE  /\ guesses[k].wrong = fails[k].count
                      /\ Cardinality(Verifying(k))' <= guesses[k].abreast
                      /\ guesses[k].wrong + Cardinality(Verifying(k))' <= FailMax - 1 + guesses[k].abreast
    BY DEF FailuresCounted, Keys
  <2>1. guesses[k].wrong \in Nat /\ guesses[k].abreast \in Nat
    BY <1>1 DEF LimitsTyped
  <2> QED
    BY <1>3, <2>1, LimitsAssumption DEF LInv, FailuresCounted
<1>5. WritesCounted'
  BY DEF LInv, WritesCounted
<1>6. EntriesKnown'
  <2>1. PICK n : n = Cardinality(Storing)
    OBVIOUS
  <2>2. PICK m : m = Cardinality(Storing)'
    OBVIOUS
  <2>3. n \in Nat /\ m \in Nat /\ m <= n
    BY <1>3, <2>1, <2>2
  <2>4. /\ entries \in Nat /\ margin \in Nat
        /\ \A r \in Replicas : ledger[r].unseen \in Nat /\ quota[r].count \in Nat
    BY <1>1 DEF LimitsTyped
  <2>5. MaxEntries > 0 =>
          /\ \A r \in Replicas : quota[r].on /\ quota[r].checked # 0 => entries + n <= quota[r].count + ledger[r].unseen
          /\ entries + n <= MaxEntries + margin
    BY <2>1 DEF LInv, EntriesKnown
  <2>6. MaxEntries > 0 =>
          /\ \A r \in Replicas : quota[r].on /\ quota[r].checked # 0 => entries + m <= quota[r].count + ledger[r].unseen
          /\ entries + m <= MaxEntries + margin
    BY <2>3, <2>4, <2>5, LimitsAssumption
  <2> QED
    BY <2>2, <2>6 DEF EntriesKnown
<1> QED
  BY <1>2, <1>4, <1>5, <1>6

\* Where a call goes.
LEMMA EndsMoves ==
    ASSUME LimitsTyped, NEW c \in Calls, Ends(c)
    PROVE  \E u \in Stage : u.pc = "done" /\ u.at = Nobody /\ request' = [request EXCEPT ![c] = u]
<1>1. [Unmade EXCEPT !.pc = "done"] \in Stage
  BY DEF Unmade, Stage
<1>2. [Unmade EXCEPT !.pc = "done"].pc = "done" /\ [Unmade EXCEPT !.pc = "done"].at = Nobody
  BY DEF Unmade
<1> QED
  BY <1>1, <1>2 DEF Ends

LEMMA GoesMoves ==
    ASSUME LimitsTyped, NEW c \in Calls, NEW pc \in {"lock", "verify", "settle", "insert"}, Goes(c, pc)
    PROVE  \E u \in Stage : u.pc = pc /\ u.at = request[c].at /\ u.kind = request[c].kind /\ request' = [request EXCEPT ![c] = u]
<1>1. PICK u : u = [request[c] EXCEPT !.pc = pc]
  OBVIOUS
<1>2. u \in Stage /\ u.pc = pc /\ u.at = request[c].at /\ u.kind = request[c].kind
  <2>1. request[c] \in Stage
    BY DEF LimitsTyped
  <2> QED
    BY <1>1, <2>1 DEF Stage
<1>3. request' = [request EXCEPT ![c] = u]
  BY <1>1 DEF Goes
<1> QED
  BY <1>2, <1>3

LEMMA ArrivesMoves ==
    ASSUME LimitsTyped, NEW c \in Calls, NEW r \in Replicas, NEW kind \in RequestKinds,
           NEW w, Arrives(c, r, kind, w)
    PROVE  \E u \in Stage : /\ u.pc \notin {"new", "verify", "insert"} /\ Placed(u)
                            /\ request' = [request EXCEPT ![c] = u]
<1>1. /\ [Unmade EXCEPT !.pc = "done"] \in Stage /\ [Unmade EXCEPT !.pc = "done"].pc = "done"
      /\ Placed([Unmade EXCEPT !.pc = "done"])
  BY DEF Unmade, Stage, Placed
<1>2. /\ [pc |-> FirstGate(kind), kind |-> kind, at |-> r] \in Stage
      /\ FirstGate(kind) \notin {"new", "verify", "insert"}
      /\ Placed([pc |-> FirstGate(kind), kind |-> kind, at |-> r])
  BY DEF FirstGate, Stage, Placed
<1> QED
  BY <1>1, <1>2 DEF Arrives

LEMMA CountOneTyped ==
    ASSUME LimitsTyped, NEW w \in [count : Nat, reset : Nat]
    PROVE  /\ CountOne(w) \in [count : Nat, reset : Nat]
           /\ IF MaxRequests = 0 THEN CountOne(w) = w
              ELSE CountOne(w).count = 1 \/ CountOne(w).count = w.count + 1
<1>1. now \in Nat
  BY LimitsAssumption DEF LimitsTyped
<1> QED
  BY <1>1, LimitsAssumption DEF CountOne

LEMMA TakeSharedStep ==
    ASSUME LInv, NEW c \in Calls, NEW r \in Replicas, NEW kind \in RequestKinds, TakeShared(c, r, kind)
    PROVE  LInv'
<1>1. LimitsTyped /\ shared \in [count : Nat, reset : Nat]
  BY DEF LInv, LimitsTyped
<1>2. PICK w : w = CountOne(shared)
  OBVIOUS
<1>3. /\ w \in [count : Nat, reset : Nat] /\ shared' = w
      /\ IF MaxRequests = 0 THEN w = shared ELSE w.count = 1 \/ w.count = shared.count + 1
  BY <1>1, <1>2, CountOneTyped DEF TakeShared
<1>4. PICK u \in Stage : u.pc \notin {"new", "verify", "insert"} /\ Placed(u) /\ request' = [request EXCEPT ![c] = u]
  BY <1>1, <1>2, ArrivesMoves DEF TakeShared
<1>5. /\ request' \in [Calls -> Stage] /\ \A d \in Calls : Placed(request'[d])
      /\ FailuresCounted' /\ WritesCounted' /\ EntriesKnown'
  BY <1>4, MoveOn DEF TakeShared
<1>6. passed' = IF MaxRequests = 0 \/ Exceeded(w) THEN passed ELSE IF w.count = 1 THEN 1 ELSE passed + 1
  BY <1>2 DEF TakeShared, Passing
<1>7. passed' \in Nat
  BY <1>1, <1>6 DEF LimitsTyped
<1>8. WindowCounted'
  <2>1. /\ passed \in Nat /\ passed <= shared.count /\ (MaxRequests > 0 => passed <= MaxRequests)
        /\ shared.count \in Nat /\ w.count \in Nat
    BY <1>1, <1>3 DEF LInv, LimitsTyped, WindowCounted
  <2>2. CASE MaxRequests = 0
    BY <1>3, <1>6, <2>1, <2>2 DEF WindowCounted
  <2>3. CASE MaxRequests > 0 /\ Exceeded(w)
    BY <1>3, <1>6, <2>1, <2>3, LimitsAssumption DEF WindowCounted, Exceeded
  <2>4. CASE MaxRequests > 0 /\ ~Exceeded(w)
    <3>1. w.count <= MaxRequests
      BY <2>1, <2>4, LimitsAssumption DEF Exceeded
    <3>2. passed' <= w.count
      BY <1>3, <1>6, <2>1, <2>4, <3>1
    <3> QED
      BY <1>3, <1>7, <2>1, <3>1, <3>2, LimitsAssumption DEF WindowCounted
  <2> QED
    BY <2>2, <2>3, <2>4, LimitsAssumption
<1>9. LimitsTyped'
  BY <1>1, <1>3, <1>5, <1>7 DEF TakeShared, LimitsTyped
<1> QED
  BY <1>5, <1>8, <1>9 DEF TakeShared, LInv, LogHeld

\* A call moves on and nothing but the counter of a replica or the log of sign-ins changes.
LEMMA OtherMoves ==
    ASSUME LInv, NEW c \in Calls, NEW u \in Stage, request' = [request EXCEPT ![c] = u],
           u.pc \notin {"verify", "insert"}, Placed(u),
           UNCHANGED <<now, shared, fails, quota, entries, histories>>,
           LogHeld', throttle' = [r \in Replicas |-> throttle'[r]]
    PROVE  LInv'
<1>1. /\ request' \in [Calls -> Stage] /\ \A d \in Calls : Placed(request'[d])
      /\ FailuresCounted' /\ WritesCounted' /\ EntriesKnown'
  BY MoveOn DEF histories
<1>2. LimitsTyped'
  BY <1>1 DEF LInv, LimitsTyped, histories
<1> QED
  BY <1>1, <1>2 DEF LInv, WindowCounted, histories

LEMMA TakeLocalStep ==
    ASSUME LInv, NEW c \in Calls, NEW r \in Replicas, NEW kind \in RequestKinds, TakeLocal(c, r, kind)
    PROVE  LInv'
<1>1. PICK u \in Stage : u.pc \notin {"new", "verify", "insert"} /\ Placed(u) /\ request' = [request EXCEPT ![c] = u]
  BY ArrivesMoves DEF TakeLocal, LInv
<1> QED
  BY <1>1, OtherMoves DEF TakeLocal, LInv, LogHeld, LimitsTyped

\* The log after an attempt: what is recent of it and, if that is let through, the attempt.
LEMMA ThrottledStep ==
    ASSUME LInv, NEW c \in Calls, Throttled(c)
    PROVE  LInv'
<1>1. LimitsTyped /\ request[c].at \in Replicas /\ request[c].kind \in RequestKinds \ {"write"}
  BY DEF Throttled, Stands, LInv, LimitsTyped, Placed
<1>2. PICK r \in Replicas : r = request[c].at
  BY <1>1
<1>3. /\ IsFiniteSet(Recent(r)) /\ Cardinality(Recent(r)) \in Nat
      /\ Cardinality(Recent(r)) <= ThrottleMax
  <2>1. IsFiniteSet(throttle[r]) /\ Cardinality(throttle[r]) <= ThrottleMax /\ Recent(r) \subseteq throttle[r]
    BY DEF LInv, LogHeld, Recent
  <2>2. IsFiniteSet(Recent(r)) /\ Cardinality(Recent(r)) <= Cardinality(throttle[r])
    BY <2>1, FS_Subset
  <2>3. Cardinality(Recent(r)) \in Nat /\ Cardinality(throttle[r]) \in Nat
    BY <2>1, <2>2, FS_CardinalityType
  <2> QED
    BY <2>1, <2>2, <2>3, LimitsAssumption
<1>4. /\ throttle' = [throttle EXCEPT ![r] = throttle'[r]]
      /\ IsFiniteSet(throttle'[r]) /\ Cardinality(throttle'[r]) <= ThrottleMax
      /\ Ends(c) \/ Goes(c, "lock")
  <2>1. CASE Cardinality(Recent(r)) >= ThrottleMax
    <3>1. Ends(c) /\ throttle' = [throttle EXCEPT ![r] = Recent(r)]
      BY <1>2, <2>1 DEF Throttled
    <3> QED
      BY <1>1, <1>3, <3>1 DEF LimitsTyped
  <2>2. CASE ~(Cardinality(Recent(r)) >= ThrottleMax)
    <3>1. Goes(c, "lock") /\ throttle' = [throttle EXCEPT ![r] = Recent(r) \cup {<<c, now>>}]
      BY <1>2, <2>2 DEF Throttled
    <3>2. throttle'[r] = Recent(r) \cup {<<c, now>>}
      BY <1>1, <3>1 DEF LimitsTyped
    <3>3. /\ IsFiniteSet(throttle'[r])
          /\ Cardinality(throttle'[r]) = Cardinality(Recent(r))
             \/ Cardinality(throttle'[r]) = Cardinality(Recent(r)) + 1
      <4>1. /\ IsFiniteSet(Recent(r) \cup {<<c, now>>})
            /\ Cardinality(Recent(r) \cup {<<c, now>>}) =
                  IF <<c, now>> \in Recent(r) THEN Cardinality(Recent(r)) ELSE Cardinality(Recent(r)) + 1
        BY <1>3, FS_AddElement
      <4> QED
        BY <3>2, <4>1
    <3>4. Cardinality(throttle'[r]) <= ThrottleMax
      BY <1>3, <2>2, <3>3, LimitsAssumption
    <3> QED
      BY <3>1, <3>2, <3>3, <3>4
  <2> QED
    BY <2>1, <2>2
<1>5. LogHeld' /\ throttle' = [s \in Replicas |-> throttle'[s]]
  <2>1. \A s \in Replicas : s # r => throttle'[s] = throttle[s]
    BY <1>1, <1>4 DEF LimitsTyped
  <2>2. throttle' = [s \in Replicas |-> throttle'[s]]
    BY <1>1, <1>4 DEF LimitsTyped
  <2> QED
    BY <1>4, <2>1, <2>2 DEF LInv, LogHeld
<1>6. PICK u \in Stage : u.pc \in {"done", "lock"} /\ Placed(u) /\ request' = [request EXCEPT ![c] = u]
  <2>1. CASE Ends(c)
    BY <1>1, <2>1, EndsMoves DEF Placed
  <2>2. CASE Goes(c, "lock")
    BY <1>1, <2>2, GoesMoves DEF Placed
  <2> QED
    BY <1>4, <2>1, <2>2
<1> QED
  BY <1>5, <1>6, OtherMoves DEF Throttled

\* A call goes on or ends, and nothing is counted.
LEMMA NothingCounted ==
    ASSUME LInv, NEW c \in Calls,
           Verified(c) \/ VerifyErrors(c) \/ SettlesNothing(c) \/ QuotaErrors(c) \/ StoreNothing(c)
    PROVE  LInv'
<1>1. UNCHANGED <<now, counters, entries, histories>> /\ LimitsTyped
  BY DEF Verified, VerifyErrors, SettlesNothing, QuotaErrors, StoreNothing, LInv
<1>2. PICK u \in Stage : u.pc \notin {"verify", "insert"} /\ Placed(u) /\ request' = [request EXCEPT ![c] = u]
  <2>1. CASE Verified(c)
    <3>1. Goes(c, "settle") /\ request[c].pc = "verify" /\ Placed(request[c])
      BY <1>1, <2>1 DEF Verified, Stands, LimitsTyped
    <3> QED
      BY <1>1, <3>1, GoesMoves DEF Placed
  <2>2. CASE Ends(c)
    BY <1>1, <2>2, EndsMoves DEF Placed
  <2> QED
    BY <2>1, <2>2 DEF VerifyErrors, SettlesNothing, QuotaErrors, StoreNothing
<1> QED
  BY <1>1, <1>2, OtherMoves DEF counters, LInv, LogHeld, LimitsTyped
-----------------------------------------------------------------------------
\* The lock: what the conjuncts say of one key, in numbers.
LEMMA LockStep ==
    ASSUME LInv, NEW c \in Calls, NEW u \in Stage, request' = [request EXCEPT ![c] = u],
           request[c].pc \in {"lock", "verify", "settle"}, u.pc \in {"verify", "done"}, Placed(u),
           NEW k \in Keys, k = Key(c), u.pc = "verify" => <<u.at, u.kind>> = k,
           UNCHANGED <<now, shared, throttle, quota, entries, passed, ledger, margin>>,
           NEW f \in [count : Nat, reset : Nat], fails' = [fails EXCEPT ![k] = f],
           NEW g \in [wrong : Nat, abreast : Nat], guesses' = [guesses EXCEPT ![k] = g],
           g.wrong = f.count,
           Cardinality(Verifying(k))' <= g.abreast,
           g.wrong + Cardinality(Verifying(k))' <= FailMax - 1 + g.abreast
    PROVE  LInv'
<1>1. LimitsTyped
  BY DEF LInv
<1>2. LimitsTyped'
  BY <1>1 DEF LimitsTyped
<1>3. /\ guesses'[k] = g /\ fails'[k] = f
      /\ \A j \in Keys : j # k => guesses'[j] = guesses[j] /\ fails'[j] = fails[j]
  BY <1>1 DEF LimitsTyped
<1>4. ASSUME NEW j \in Keys, j # k
      PROVE  Verifying(j)' = Verifying(j)
  BY <1>1, <1>4 DEF Verifying, Stands, Key, LimitsTyped
<1>5. Storing' = Storing
  BY <1>1 DEF Storing, Stands, LimitsTyped
<1>6. FailuresCounted'
  <2>1. ASSUME NEW j \in Keys, j # k
        PROVE  /\ guesses'[j].wrong = fails'[j].count
               /\ Cardinality(Verifying(j))' <= guesses'[j].abreast
               /\ guesses'[j].wrong + Cardinality(Verifying(j))' <= FailMax - 1 + guesses'[j].abreast
    <3>1. guesses'[j] = guesses[j] /\ fails'[j] = fails[j] /\ Verifying(j)' = Verifying(j)
      BY <1>3, <1>4, <2>1
    <3> QED
      BY <3>1 DEF LInv, FailuresCounted
  <2>2. /\ guesses'[k].wrong = fails'[k].count
        /\ Cardinality(Verifying(k))' <= guesses'[k].abreast
        /\ guesses'[k].wrong + Cardinality(Verifying(k))' <= FailMax - 1 + guesses'[k].abreast
    BY <1>3
  <2> QED
    BY <2>1, <2>2 DEF FailuresCounted, Keys
<1>7. WritesCounted' /\ EntriesKnown'
  BY <1>5 DEF LInv, WritesCounted, EntriesKnown
<1> QED
  BY <1>2, <1>6, <1>7 DEF LInv, WindowCounted, LogHeld

\* What is known of the lock of a call that is at it.
LEMMA LockKnown ==
    ASSUME LInv, NEW c \in Calls, request[c].pc \in {"lock", "verify", "settle"}
    PROVE  \E k \in Keys, n, w, a \in Nat :
              /\ k = Key(c) /\ n = Cardinality(Verifying(k))
              /\ guesses[k] = [wrong |-> w, abreast |-> a]
              /\ fails[k] \in [count : Nat, reset : Nat] /\ fails[k].count = w
              /\ n <= a /\ w + n <= FailMax - 1 + a
<1>1. LimitsTyped /\ Placed(request[c])
  BY DEF LInv, LimitsTyped
<1>2. Key(c) \in Keys
  BY <1>1 DEF Placed, Key, Keys
<1>3. IsFiniteSet(Verifying(Key(c)))
  BY LimitsAssumption, FS_Subset DEF Verifying
<1>4. Cardinality(Verifying(Key(c))) \in Nat
  BY <1>3, FS_CardinalityType
<1>5. /\ guesses[Key(c)] \in [wrong : Nat, abreast : Nat]
      /\ fails[Key(c)] \in [count : Nat, reset : Nat]
  BY <1>1, <1>2 DEF LimitsTyped
<1>6. PICK k \in Keys : k = Key(c)
  BY <1>2
<1>7. PICK n \in Nat : n = Cardinality(Verifying(k))
  BY <1>4, <1>6
<1>8. PICK w, a \in Nat : guesses[k] = [wrong |-> w, abreast |-> a]
  BY <1>5, <1>6
<1>9. fails[k].count = w /\ n <= a /\ w + n <= FailMax - 1 + a
  BY <1>7, <1>8 DEF LInv, FailuresCounted
<1> QED
  BY <1>5, <1>6, <1>7, <1>8, <1>9

LEMMA CheckLockStep ==
    ASSUME LInv, NEW c \in Calls, CheckLock(c)
    PROVE  LInv'
<1>1. LimitsTyped /\ request[c].pc = "lock" /\ Placed(request[c])
  BY DEF CheckLock, Stands, LInv, LimitsTyped
<1>2. PICK k \in Keys, n, w, a \in Nat :
              /\ k = Key(c) /\ n = Cardinality(Verifying(k))
              /\ guesses[k] = [wrong |-> w, abreast |-> a]
              /\ fails[k] \in [count : Nat, reset : Nat] /\ fails[k].count = w
              /\ n <= a /\ w + n <= FailMax - 1 + a
  BY <1>1, LockKnown
<1>3. CASE Locked(k)
  <2>1. Ends(c) /\ fails' = fails /\ guesses' = guesses
    BY <1>2, <1>3 DEF CheckLock, Locked
  <2>2. PICK u \in Stage : u.pc = "done" /\ request' = [request EXCEPT ![c] = u]
    BY <1>1, <2>1, EndsMoves
  <2> QED
    BY <2>1, <2>2, OtherMoves DEF CheckLock, LInv, LogHeld, LimitsTyped, histories, Placed
<1>4. CASE ~Locked(k)
  <2>1. PICK f : f = IF Expired(k) THEN Closed ELSE fails[k]
    OBVIOUS
  <2>2. PICK g : g = IF Expired(k) THEN [wrong |-> 0, abreast |-> n + 1]
                     ELSE [wrong |-> w, abreast |-> Greater(a, n + 1)]
    OBVIOUS
  <2>3. /\ Goes(c, "verify")
        /\ fails' = [fails EXCEPT ![k] = f]
        /\ guesses' = [guesses EXCEPT ![k] = g]
    <3>1. /\ Goes(c, "verify") /\ fails' = IF Expired(k) THEN [fails EXCEPT ![k] = Closed] ELSE fails
          /\ guesses' = [guesses EXCEPT ![k] = OneAbreast(k)]
      BY <1>2, <1>4 DEF CheckLock
    <3>2. OneAbreast(k) = g
      BY <1>2, <2>2 DEF OneAbreast
    <3>3. fails = [fails EXCEPT ![k] = fails[k]]
      BY <1>1 DEF LimitsTyped
    <3> QED
      BY <2>1, <3>1, <3>2, <3>3
  <2>4. PICK u \in Stage : /\ u.pc = "verify" /\ u.at = request[c].at /\ u.kind = request[c].kind
                           /\ request' = [request EXCEPT ![c] = u]
    BY <1>1, <2>3, GoesMoves
  <2>5. <<u.at, u.kind>> = k /\ Placed(u)
    BY <1>1, <1>2, <2>4 DEF Key, Placed
  <2>6. Cardinality(Verifying(k))' = n + 1
    <3>1. request[c].pc # "verify"
      BY <1>1
    <3>2. Cardinality(Verifying(k))' = Cardinality(Verifying(k)) + 1
      BY <1>1, <2>4, <2>5, <3>1, OneLetIn
    <3> QED
      BY <1>2, <3>2
  <2>7. /\ f \in [count : Nat, reset : Nat] /\ g \in [wrong : Nat, abreast : Nat]
        /\ g.wrong = f.count /\ g.wrong <= FailMax - 1 /\ n + 1 <= g.abreast
    <3>1. CASE Expired(k)
      BY <2>1, <2>2, <3>1, LimitsAssumption DEF Closed
    <3>2. CASE ~Expired(k)
      <4>1. ~(w >= FailMax) /\ w <= FailMax - 1
        BY <1>2, <1>4, <3>2, LimitsAssumption DEF Locked
      <4>2. Greater(a, n + 1) \in Nat /\ n + 1 <= Greater(a, n + 1)
        BY DEF Greater
      <4> QED
        BY <1>2, <2>1, <2>2, <3>2, <4>1, <4>2
    <3> QED
      BY <3>1, <3>2
  <2>8. g.wrong + (n + 1) <= FailMax - 1 + g.abreast
    BY <2>7, LimitsAssumption
  <2>9. UNCHANGED <<now, shared, throttle, quota, entries, passed, ledger, margin>>
    BY DEF CheckLock
  <2> QED
    BY <1>1, <1>2, <2>3, <2>4, <2>5, <2>6, <2>7, <2>8, <2>9, LockStep
<1> QED
  BY <1>3, <1>4

LEMMA RecordFailureStep ==
    ASSUME LInv, NEW c \in Calls, RecordFailure(c)
    PROVE  LInv'
<1>1. LimitsTyped /\ request[c].pc = "verify" /\ Ends(c)
  BY DEF RecordFailure, Stands, LInv
<1>2. PICK k \in Keys, n, w, a \in Nat :
              /\ k = Key(c) /\ n = Cardinality(Verifying(k))
              /\ guesses[k] = [wrong |-> w, abreast |-> a]
              /\ fails[k] \in [count : Nat, reset : Nat] /\ fails[k].count = w
              /\ n <= a /\ w + n <= FailMax - 1 + a
  BY <1>1, LockKnown
<1>3. PICK u \in Stage : u.pc = "done" /\ request' = [request EXCEPT ![c] = u]
  BY <1>1, EndsMoves
<1>4. Cardinality(Verifying(k))' = n - 1 /\ n - 1 \in Nat
  <2>1. /\ Cardinality(Verifying(k))' = n + One(u.pc = "verify" /\ <<u.at, u.kind>> = k)
                                          - One(request[c].pc = "verify" /\ Key(c) = k)
        /\ Cardinality(Verifying(k))' \in Nat
    BY <1>1, <1>2, <1>3, CountsMove
  <2>2. /\ One(u.pc = "verify" /\ <<u.at, u.kind>> = k) = 0
        /\ One(request[c].pc = "verify" /\ Key(c) = k) = 1
    BY <1>1, <1>2, <1>3 DEF One
  <2> QED
    BY <2>1, <2>2
<1>5. PICK f : f = Failed(k)
  OBVIOUS
<1>6. PICK g : g = IF Expired(k) THEN [wrong |-> 1, abreast |-> n] ELSE [wrong |-> w + 1, abreast |-> a]
  OBVIOUS
<1>7. f \in [count : Nat, reset : Nat] /\ g \in [wrong : Nat, abreast : Nat] /\ g.wrong = f.count
  <2>1. now + FailWindow \in Nat
    BY <1>1, LimitsAssumption DEF LimitsTyped
  <2>2. f = IF Expired(k) THEN [count |-> 1, reset |-> now + FailWindow] ELSE [fails[k] EXCEPT !.count = w + 1]
    BY <1>2, <1>5 DEF Failed
  <2> QED
    BY <1>2, <1>6, <2>1, <2>2
<1>8. n - 1 <= g.abreast /\ g.wrong + (n - 1) <= FailMax - 1 + g.abreast
  BY <1>2, <1>4, <1>6, LimitsAssumption
<1>9. fails' = [fails EXCEPT ![k] = f] /\ guesses' = [guesses EXCEPT ![k] = g]
  <2>1. OneWrong(k) = g
    BY <1>2, <1>6 DEF OneWrong
  <2> QED
    BY <1>2, <1>5, <2>1 DEF RecordFailure
<1>10. UNCHANGED <<now, shared, throttle, quota, entries, passed, ledger, margin>> /\ Placed(u)
  BY <1>3 DEF RecordFailure, Placed
<1> QED
  BY <1>1, <1>2, <1>3, <1>4, <1>7, <1>8, <1>9, <1>10, LockStep

LEMMA ClearStep ==
    ASSUME LInv, NEW c \in Calls, Clear(c)
    PROVE  LInv'
<1>1. LimitsTyped /\ request[c].pc = "settle" /\ Ends(c)
  BY DEF Clear, Stands, LInv
<1>2. PICK k \in Keys, n, w, a \in Nat : k = Key(c) /\ n = Cardinality(Verifying(k))
  BY <1>1, LockKnown
<1>3. PICK u \in Stage : u.pc = "done" /\ request' = [request EXCEPT ![c] = u]
  BY <1>1, EndsMoves
<1>4. Cardinality(Verifying(k))' = n
  <2>1. Cardinality(Verifying(k))' = n + One(u.pc = "verify" /\ <<u.at, u.kind>> = k)
                                       - One(request[c].pc = "verify" /\ Key(c) = k)
    BY <1>1, <1>2, <1>3, CountsMove
  <2>2. /\ One(u.pc = "verify" /\ <<u.at, u.kind>> = k) = 0
        /\ One(request[c].pc = "verify" /\ Key(c) = k) = 0
    BY <1>1, <1>3 DEF One
  <2> QED
    BY <2>1, <2>2
<1>5. PICK g : g = [wrong |-> 0, abreast |-> n]
  OBVIOUS
<1>6. /\ Closed \in [count : Nat, reset : Nat] /\ g \in [wrong : Nat, abreast : Nat]
      /\ g.wrong = Closed.count /\ g.wrong = 0 /\ g.abreast = n
  BY <1>5 DEF Closed
<1>7. fails' = [fails EXCEPT ![k] = Closed] /\ guesses' = [guesses EXCEPT ![k] = g]
  BY <1>2, <1>5 DEF Clear
<1>8. n <= g.abreast /\ g.wrong + n <= FailMax - 1 + g.abreast
  BY <1>6, LimitsAssumption
<1>9. UNCHANGED <<now, shared, throttle, quota, entries, passed, ledger, margin>> /\ Placed(u)
  BY <1>3 DEF Clear, Placed
<1> QED
  BY <1>1, <1>2, <1>3, <1>4, <1>6, <1>7, <1>8, <1>9, LockStep
-----------------------------------------------------------------------------
QuotaRow == [start : Nat, writes : Nat, count : Nat, checked : Nat, on : BOOLEAN]

LEMMA StoringCounted == Cardinality(Storing) \in Nat
<1>1. IsFiniteSet(Storing)
  BY LimitsAssumption, FS_Subset DEF Storing
<1> QED
  BY <1>1, FS_CardinalityType

\* What a replica's window says when it is looked at.
LEMMA WindowKnown ==
    ASSUME LInv, NEW r \in Replicas
    PROVE  /\ Window(r) \in QuotaRow
           /\ (IF NewWindow(r) THEN 0 ELSE ledger[r].writes) = Window(r).writes
           /\ WritesPerMinute > 0 => Window(r).writes <= WritesPerMinute
           /\ MaxEntries > 0 /\ Window(r).checked # 0 =>
                 entries + Cardinality(Storing) <= Window(r).count + ledger[r].unseen
<1>1. quota[r] \in QuotaRow /\ now \in Nat /\ ledger[r].writes \in Nat
  BY LimitsAssumption DEF LInv, LimitsTyped, QuotaRow
<1>2. CASE NewWindow(r)
  <2>1. Window(r) = [start |-> now, writes |-> 0, count |-> 0, checked |-> 0, on |-> TRUE]
    BY <1>2 DEF Window, NewWindow, NoQuota
  <2> QED
    BY <1>1, <1>2, <2>1, LimitsAssumption DEF QuotaRow
<1>3. CASE ~NewWindow(r)
  <2>1. Window(r) = quota[r] /\ quota[r].on
    BY <1>3 DEF Window, NewWindow
  <2>2. /\ ledger[r].writes = quota[r].writes
        /\ WritesPerMinute > 0 => ledger[r].writes <= WritesPerMinute
    BY <2>1 DEF LInv, WritesCounted
  <2>3. MaxEntries > 0 /\ quota[r].checked # 0 =>
            entries + Cardinality(Storing) <= quota[r].count + ledger[r].unseen
    BY <2>1 DEF LInv, EntriesKnown
  <2> QED
    BY <1>1, <1>3, <2>1, <2>2, <2>3
<1> QED
  BY <1>2, <1>3

\* The history once replica r has checked: it admitted n in its window.
LedgerThen(r, n, x, k) ==
    [s \in Replicas |->
        [ledger[s] EXCEPT !.writes = IF s = r THEN n ELSE ledger[s].writes,
                          !.unseen = IF s = r THEN x ELSE ledger[s].unseen + k]]

\* A quota check leaves the replica with row q, of which x entries may be unknown, k calls on their
\* way to the table, and every other replica without knowledge of those.
LEMMA QuotaStep ==
    ASSUME LInv, NEW c \in Calls, NEW u \in Stage, request' = [request EXCEPT ![c] = u],
           request[c].pc = "quota", u.pc \in {"done", "insert"}, Placed(u),
           UNCHANGED <<now, shared, throttle, fails, entries, passed, guesses>>,
           NEW r \in Replicas, NEW q \in QuotaRow, quota' = [quota EXCEPT ![r] = q],
           NEW k \in Nat, k = (IF u.pc = "insert" THEN 1 ELSE 0), NEW x \in Nat, NEW n \in Nat,
           ledger' = LedgerThen(r, n, x, k), margin' = (IF k = 1 THEN x ELSE margin),
           n = q.writes, WritesPerMinute > 0 => n <= WritesPerMinute,
           MaxEntries > 0 /\ q.checked # 0 => entries + Cardinality(Storing) + k <= q.count + x,
           MaxEntries > 0 /\ k = 1 => entries + Cardinality(Storing) + 1 <= MaxEntries + x
    PROVE  LInv'
<1>1. LimitsTyped
  BY DEF LInv
<1>2. PICK t \in Nat : t = Cardinality(Storing)
  BY StoringCounted
<1>3. Cardinality(Storing)' = t + k /\ \A j : Verifying(j)' = Verifying(j)
  <2>1. Cardinality(Storing)' = Cardinality(Storing) + One(u.pc = "insert") - One(request[c].pc = "insert")
    BY <1>1, CountsMove
  <2>2. One(request[c].pc = "insert") = 0 /\ One(u.pc = "insert") = k
    BY DEF One
  <2>3. \A j : Verifying(j)' = Verifying(j)
    BY <1>1 DEF Verifying, Stands, Key, LimitsTyped
  <2> QED
    BY <1>2, <2>1, <2>2, <2>3
<1>4. ASSUME NEW s \in Replicas
      PROVE  /\ ledger[s].writes \in Nat /\ ledger[s].unseen \in Nat
             /\ ledger'[s] \in [writes : Nat, unseen : Nat]
             /\ s = r => ledger'[s].writes = n /\ ledger'[s].unseen = x
             /\ s # r => ledger'[s].writes = ledger[s].writes /\ ledger'[s].unseen = ledger[s].unseen + k
  <2>1. ledger[s] \in [writes : Nat, unseen : Nat]
    BY <1>1 DEF LimitsTyped
  <2>2. ledger'[s] = [ledger[s] EXCEPT !.writes = IF s = r THEN n ELSE ledger[s].writes,
                                       !.unseen = IF s = r THEN x ELSE ledger[s].unseen + k]
    BY DEF LedgerThen
  <2>3. PICK v \in Nat : v = IF s = r THEN n ELSE ledger[s].writes
    BY <2>1
  <2>4. PICK y \in Nat : y = IF s = r THEN x ELSE ledger[s].unseen + k
    BY <2>1
  <2>5. ledger'[s] = [writes |-> v, unseen |-> y]
    BY <2>1, <2>2, <2>3, <2>4
  <2> QED
    BY <2>1, <2>3, <2>4, <2>5
<1>5. LimitsTyped'
  <2>1. ledger' \in [Replicas -> [writes : Nat, unseen : Nat]]
    <3>1. ledger' = [s \in Replicas |-> ledger'[s]]
      BY DEF LedgerThen
    <3> QED
      BY <1>4, <3>1
  <2>2. quota' \in [Replicas -> [start : Nat, writes : Nat, count : Nat, checked : Nat, on : BOOLEAN]]
    BY <1>1 DEF LimitsTyped, QuotaRow
  <2>3. request' \in [Calls -> Stage] /\ \A d \in Calls : Placed(request'[d])
    BY <1>1 DEF LimitsTyped
  <2>4. margin' \in Nat
    BY <1>1 DEF LimitsTyped
  <2> QED
    BY <1>1, <2>1, <2>2, <2>3, <2>4 DEF LimitsTyped
<1>6. FailuresCounted'
  BY <1>3 DEF LInv, FailuresCounted
<1>7. quota'[r] = q /\ \A s \in Replicas : s # r => quota'[s] = quota[s]
  BY <1>1 DEF LimitsTyped
<1>8. WritesCounted'
  <2> SUFFICES ASSUME NEW s \in Replicas
               PROVE  /\ WritesPerMinute > 0 => ledger'[s].writes <= WritesPerMinute
                      /\ quota'[s].on => ledger'[s].writes = quota'[s].writes
    BY DEF WritesCounted
  <2>1. CASE s = r
    BY <1>4, <1>7, <2>1
  <2>2. CASE s # r
    <3>1. ledger'[s].writes = ledger[s].writes /\ quota'[s] = quota[s]
      BY <1>4, <1>7, <2>2
    <3> QED
      BY <3>1 DEF LInv, WritesCounted
  <2> QED
    BY <2>1, <2>2
<1>9. EntriesKnown'
  <2> SUFFICES ASSUME MaxEntries > 0
               PROVE  /\ \A s \in Replicas : quota'[s].on /\ quota'[s].checked # 0 =>
                            entries + (t + k) <= quota'[s].count + ledger'[s].unseen
                      /\ entries + (t + k) <= MaxEntries + margin'
    BY <1>3 DEF EntriesKnown
  <2>1. entries \in Nat /\ margin \in Nat
    BY <1>1 DEF LimitsTyped
  <2>2. ASSUME NEW s \in Replicas, quota'[s].on, quota'[s].checked # 0
        PROVE  entries + (t + k) <= quota'[s].count + ledger'[s].unseen
    <3>1. CASE s = r
      <4>1. /\ q.count \in Nat /\ q.checked # 0 /\ quota'[s] = q /\ ledger'[s].unseen = x
            /\ entries + t + k <= q.count + x
        BY <1>2, <1>4, <1>7, <2>2, <3>1 DEF QuotaRow
      <4> QED
        BY <2>1, <4>1
    <3>2. CASE s # r
      <4>1. entries + t <= quota[s].count + ledger[s].unseen
        BY <1>2, <1>7, <2>2, <3>2 DEF LInv, EntriesKnown
      <4>2. quota[s].count \in Nat /\ ledger[s].unseen \in Nat
        BY <1>1, <1>4 DEF LimitsTyped
      <4>3. quota'[s] = quota[s] /\ ledger'[s].unseen = ledger[s].unseen + k
        BY <1>4, <1>7, <3>2
      <4> QED
        BY <2>1, <4>1, <4>2, <4>3
    <3> QED
      BY <3>1, <3>2
  <2>3. entries + (t + k) <= MaxEntries + margin'
    <3>1. CASE k = 0
      <4>1. entries + t <= MaxEntries + margin
        BY <1>2 DEF LInv, EntriesKnown
      <4> QED
        BY <2>1, <3>1, <4>1
    <3>2. CASE k = 1
      <4>1. entries + t + 1 <= MaxEntries + x
        BY <1>2, <3>2
      <4> QED
        BY <2>1, <3>2, <4>1
    <3> QED
      BY <3>1, <3>2
  <2> QED
    BY <2>2, <2>3
<1> QED
  BY <1>5, <1>6, <1>8, <1>9 DEF LInv, WindowCounted, LogHeld

\* Without quotas a call passes and nothing is counted.
LEMMA UnlimitedStep ==
    ASSUME LInv, NEW c \in Calls, EnforceQuota(c), Unlimited
    PROVE  LInv'
<1>1. LimitsTyped /\ request[c].pc = "quota" /\ Placed(request[c])
  BY DEF EnforceQuota, Stands, LInv, LimitsTyped
<1>2. MaxEntries = 0 /\ WritesPerMinute = 0
  BY DEF Unlimited
<1>3. /\ quota' = quota /\ ledger' = ledger /\ Goes(c, "insert")
      /\ UNCHANGED <<now, shared, throttle, fails, entries, passed, guesses>>
  <2>1. ~Reached(Window(request[c].at).writes, WritesPerMinute) /\ ~Reached(Known(request[c].at), MaxEntries)
    BY <1>2 DEF Reached
  <2> QED
    BY <2>1 DEF EnforceQuota
<1>4. PICK u \in Stage : /\ u.pc = "insert" /\ u.at = request[c].at
                         /\ request' = [request EXCEPT ![c] = u]
  BY <1>1, <1>3, GoesMoves
<1>5. margin' \in Nat
  <2>1. margin' = Uncounted(request[c].at, request[c].at, FALSE, FALSE)
    BY <1>2 DEF EnforceQuota, Reached
  <2>2. margin' = IF Recount(request[c].at) THEN Cardinality(Storing) ELSE ledger[request[c].at].unseen
    BY <2>1 DEF Uncounted
  <2>3. ledger[request[c].at].unseen \in Nat
    BY <1>1 DEF LimitsTyped, Placed
  <2> QED
    BY <2>2, <2>3, StoringCounted
<1>6. \A j : Verifying(j)' = Verifying(j)
  BY <1>1, <1>4 DEF Verifying, Stands, Key, LimitsTyped
<1>7. LimitsTyped'
  <2>1. request' \in [Calls -> Stage] /\ \A d \in Calls : Placed(request'[d])
    BY <1>1, <1>4 DEF LimitsTyped, Placed
  <2> QED
    BY <1>1, <1>3, <1>5, <2>1 DEF LimitsTyped
<1>8. FailuresCounted' /\ WritesCounted' /\ EntriesKnown'
  BY <1>2, <1>3, <1>6 DEF LInv, FailuresCounted, WritesCounted, EntriesKnown
<1> QED
  BY <1>3, <1>7, <1>8 DEF LInv, WindowCounted, LogHeld

LEMMA EnforceQuotaStep ==
    ASSUME LInv, NEW c \in Calls, EnforceQuota(c), ~Unlimited
    PROVE  LInv'
<1>1. /\ LimitsTyped /\ request[c].pc = "quota" /\ request[c].at \in Replicas /\ now \in Nat
      /\ Placed(request[c])
  <2>1. LimitsTyped /\ request[c].pc = "quota"
    BY DEF EnforceQuota, Stands, LInv
  <2>2. Placed(request[c]) /\ now \in Nat
    BY <2>1, LimitsAssumption DEF LimitsTyped
  <2> QED
    BY <2>1, <2>2 DEF Placed
<1>2. PICK r \in Replicas : r = request[c].at
  BY <1>1
<1>3. PICK q : q = Window(r)
  OBVIOUS
<1>4. /\ q \in QuotaRow /\ Cardinality(Storing) \in Nat
      /\ (IF NewWindow(r) THEN 0 ELSE ledger[r].writes) = q.writes
      /\ WritesPerMinute > 0 => q.writes <= WritesPerMinute
      /\ MaxEntries > 0 /\ q.checked # 0 => entries + Cardinality(Storing) <= q.count + ledger[r].unseen
  BY <1>3, WindowKnown, StoringCounted
<1>5. /\ q.writes \in Nat /\ q.count \in Nat /\ q.checked \in Nat /\ entries \in Nat
      /\ \A s \in Replicas : ledger[s].unseen \in Nat
      /\ q = [start |-> q.start, writes |-> q.writes, count |-> q.count, checked |-> q.checked, on |-> q.on]
  BY <1>1, <1>4 DEF QuotaRow, LimitsTyped
<1>6. UNCHANGED <<now, shared, throttle, fails, entries, passed, guesses>>
  BY DEF EnforceQuota
<1>7. PICK full \in BOOLEAN : full = Reached(q.writes, WritesPerMinute)
  BY DEF Reached
<1>8. PICK over \in BOOLEAN : over = Reached(Known(r), MaxEntries)
  BY DEF Reached
<1>9. /\ quota' = [quota EXCEPT ![r] =
               IF full THEN q
               ELSE IF over THEN [q EXCEPT !.count = Known(r),
                                           !.checked = IF Recount(r) THEN now + 1 ELSE @]
               ELSE Admitted(r)]
      /\ IF full \/ over THEN Ends(c) ELSE Goes(c, "insert")
      /\ ledger' = [s \in Replicas |-> [ledger[s] EXCEPT
               !.writes = IF s = r THEN (IF NewWindow(r) THEN 0 ELSE @)
                                        + (IF full \/ over THEN 0 ELSE 1) ELSE @,
               !.unseen = Uncounted(s, r, full, full \/ over)]]
      /\ margin' = IF full \/ over THEN margin ELSE Uncounted(r, r, FALSE, FALSE)
  BY <1>2, <1>3, <1>7, <1>8 DEF EnforceQuota
<1>10. CASE full
  <2>1. quota' = [quota EXCEPT ![r] = q] /\ Ends(c) /\ margin' = margin
    BY <1>9, <1>10
  <2>2. PICK k \in Nat : k = 0
    OBVIOUS
  <2>3. ledger' = LedgerThen(r, q.writes, ledger[r].unseen, k)
    <3>1. \A s \in Replicas : Uncounted(s, r, TRUE, TRUE) = IF s = r THEN ledger[r].unseen
                                                             ELSE ledger[s].unseen + k
      BY <2>2 DEF Uncounted
    <3>2. (IF NewWindow(r) THEN 0 ELSE ledger[r].writes) + 0 = q.writes
      BY <1>4, <1>5
    <3> QED
      BY <1>9, <1>10, <3>1, <3>2 DEF LedgerThen
  <2>4. PICK u \in Stage : u.pc = "done" /\ request' = [request EXCEPT ![c] = u]
    BY <1>1, <2>1, EndsMoves
  <2>5. k = (IF u.pc = "insert" THEN 1 ELSE 0) /\ Placed(u) /\ u.pc \in {"done", "insert"}
    BY <2>2, <2>4 DEF Placed
  <2>6. PICK x \in Nat : x = ledger[r].unseen
    BY <1>5
  <2>7. /\ margin' = (IF k = 1 THEN x ELSE margin) /\ ledger' = LedgerThen(r, q.writes, x, k)
        /\ MaxEntries > 0 /\ q.checked # 0 => entries + Cardinality(Storing) + k <= q.count + x
        /\ MaxEntries > 0 /\ k = 1 => entries + Cardinality(Storing) + 1 <= MaxEntries + x
    BY <1>4, <1>5, <2>1, <2>2, <2>3, <2>6
  <2> QED
    BY <1>1, <1>4, <1>5, <1>6, <2>1, <2>4, <2>5, <2>7, QuotaStep
<1>11. CASE ~full
  <2>1. PICK x, known, checked :
           /\ x = IF Recount(r) THEN Cardinality(Storing) ELSE ledger[r].unseen
           /\ known = Known(r)
           /\ checked = IF Recount(r) THEN now + 1 ELSE q.checked
    OBVIOUS
  <2>2. /\ x \in Nat /\ known \in Nat /\ checked \in Nat
        /\ MaxEntries > 0 => entries + Cardinality(Storing) <= known + x
    <3>1. CASE Recount(r)
      BY <1>1, <1>3, <1>4, <1>5, <2>1, <3>1 DEF Known
    <3>2. CASE ~Recount(r)
      <4>1. MaxEntries > 0 => q.checked # 0
        BY <1>3, <3>2 DEF Recount
      <4>2. x = ledger[r].unseen /\ known = q.count /\ checked = q.checked
        BY <1>3, <2>1, <3>2 DEF Known
      <4> QED
        BY <1>4, <1>5, <4>1, <4>2
    <3> QED
      BY <3>1, <3>2
  <2>3. CASE over
    <3>1. PICK w : w = [q EXCEPT !.count = known, !.checked = checked]
      OBVIOUS
    <3>2. w \in QuotaRow /\ w.writes = q.writes /\ w.count = known
      BY <1>4, <2>2, <3>1 DEF QuotaRow
    <3>3. quota' = [quota EXCEPT ![r] = w] /\ Ends(c) /\ margin' = margin
      BY <1>9, <1>11, <2>1, <2>3, <3>1
    <3>4. PICK k \in Nat : k = 0
      OBVIOUS
    <3>5. ledger' = LedgerThen(r, q.writes, x, k)
      <4>1. \A s \in Replicas : Uncounted(s, r, FALSE, TRUE) = IF s = r THEN x ELSE ledger[s].unseen + k
        BY <2>1, <3>4 DEF Uncounted
      <4>2. (IF NewWindow(r) THEN 0 ELSE ledger[r].writes) + 0 = q.writes
        BY <1>4, <1>5
      <4> QED
        BY <1>9, <1>11, <2>3, <4>1, <4>2 DEF LedgerThen
    <3>6. PICK u \in Stage : u.pc = "done" /\ request' = [request EXCEPT ![c] = u]
      BY <1>1, <3>3, EndsMoves
    <3>7. k = (IF u.pc = "insert" THEN 1 ELSE 0) /\ Placed(u) /\ u.pc \in {"done", "insert"}
      BY <3>4, <3>6 DEF Placed
    <3>8. /\ margin' = (IF k = 1 THEN x ELSE margin)
          /\ MaxEntries > 0 /\ w.checked # 0 => entries + Cardinality(Storing) + k <= w.count + x
          /\ MaxEntries > 0 /\ k = 1 => entries + Cardinality(Storing) + 1 <= MaxEntries + x
      BY <1>4, <1>5, <2>2, <3>2, <3>3, <3>4
    <3>9. q.writes = w.writes /\ (WritesPerMinute > 0 => q.writes <= WritesPerMinute)
      BY <1>4, <3>2
    <3> QED
      BY <1>1, <1>5, <1>6, <2>2, <3>2, <3>3, <3>5, <3>6, <3>7, <3>8, <3>9, QuotaStep
  <2>4. CASE ~over
    <3>1. PICK w : w = [q EXCEPT !.writes = q.writes + 1, !.count = IF MaxEntries > 0 THEN known + 1 ELSE q.count,
                                 !.checked = checked]
      OBVIOUS
    <3>2. /\ w \in QuotaRow /\ w.writes = q.writes + 1 /\ (MaxEntries > 0 => w.count = known + 1)
          /\ q.writes + 1 \in Nat /\ (WritesPerMinute > 0 => q.writes + 1 <= WritesPerMinute)
      <4>1. WritesPerMinute > 0 => ~(q.writes >= WritesPerMinute)
        BY <1>7, <1>11 DEF Reached
      <4>2. /\ q.writes + 1 \in Nat /\ known + 1 \in Nat
            /\ (WritesPerMinute > 0 => q.writes + 1 <= WritesPerMinute)
        BY <1>5, <2>2, <4>1, LimitsAssumption
      <4> QED
        BY <1>4, <1>5, <2>2, <3>1, <4>2 DEF QuotaRow
    <3>3. quota' = [quota EXCEPT ![r] = w] /\ Goes(c, "insert") /\ margin' = x
      <4>1. Admitted(r) = w
        BY <1>3, <2>1, <3>1 DEF Admitted
      <4>2. Uncounted(r, r, FALSE, FALSE) = x
        BY <2>1 DEF Uncounted
      <4> QED
        BY <1>9, <1>11, <2>4, <4>1, <4>2
    <3>4. ledger' = LedgerThen(r, q.writes + 1, x, 1)
      <4>1. \A s \in Replicas : Uncounted(s, r, FALSE, FALSE) = IF s = r THEN x ELSE ledger[s].unseen + 1
        BY <2>1 DEF Uncounted
      <4>2. (IF NewWindow(r) THEN 0 ELSE ledger[r].writes) + 1 = q.writes + 1
        BY <1>4, <1>5
      <4> QED
        BY <1>9, <1>11, <2>4, <4>1, <4>2 DEF LedgerThen
    <3>5. PICK u \in Stage : /\ u.pc = "insert" /\ u.at = request[c].at /\ u.kind = request[c].kind
                             /\ request' = [request EXCEPT ![c] = u]
      BY <1>1, <3>3, GoesMoves
    <3>6. MaxEntries > 0 => known < MaxEntries
      <4>1. ~(MaxEntries > 0 /\ known >= MaxEntries)
        BY <1>8, <2>1, <2>4 DEF Reached
      <4> QED
        BY <2>2, <4>1, LimitsAssumption
    <3>7. /\ 1 = (IF u.pc = "insert" THEN 1 ELSE 0) /\ Placed(u)
          /\ MaxEntries > 0 => /\ entries + Cardinality(Storing) + 1 <= w.count + x
                               /\ entries + Cardinality(Storing) + 1 <= MaxEntries + x
      BY <1>1, <1>4, <1>5, <2>2, <3>2, <3>5, <3>6, LimitsAssumption DEF Placed
    <3> QED
      BY <1>1, <1>6, <2>2, <3>2, <3>3, <3>4, <3>5, <3>7, QuotaStep
  <2> QED
    BY <2>3, <2>4
<1> QED
  BY <1>10, <1>11

\* A row that is stored was under way.
LEMMA StoreStep ==
    ASSUME LInv, NEW c \in Calls, Store(c)
    PROVE  LInv'
<1>1. LimitsTyped /\ request[c].pc = "insert" /\ Ends(c) /\ entries' = entries + 1 /\ entries \in Nat
  BY DEF Store, Stands, LInv, LimitsTyped
<1>2. PICK u \in Stage : u.pc = "done" /\ request' = [request EXCEPT ![c] = u]
  BY <1>1, EndsMoves
<1>3. UNCHANGED <<now, shared, throttle, fails, quota, histories>>
  BY DEF Store, counters
<1>4. entries' + Cardinality(Storing)' = entries + Cardinality(Storing)
  <2>1. /\ Cardinality(Storing) \in Nat
        /\ Cardinality(Storing)' = Cardinality(Storing) + One(u.pc = "insert") - One(request[c].pc = "insert")
    BY <1>1, <1>2, CountsMove
  <2>2. One(u.pc = "insert") = 0 /\ One(request[c].pc = "insert") = 1
    BY <1>1, <1>2 DEF One
  <2> QED
    BY <1>1, <2>1, <2>2
<1>5. \A k : Verifying(k)' = Verifying(k)
  BY <1>1, <1>2 DEF Verifying, Stands, Key, LimitsTyped
<1>6. LimitsTyped'
  <2>1. request' \in [Calls -> Stage] /\ \A d \in Calls : Placed(request'[d])
    BY <1>1, <1>2 DEF LimitsTyped, Placed
  <2> QED
    BY <1>1, <1>3, <2>1 DEF LimitsTyped, histories
<1>7. FailuresCounted'
  BY <1>3, <1>5 DEF LInv, FailuresCounted, histories
<1>8. EntriesKnown'
  BY <1>3, <1>4 DEF LInv, EntriesKnown, histories
<1> QED
  BY <1>3, <1>6, <1>7, <1>8 DEF LInv, WindowCounted, LogHeld, WritesCounted, histories

LEMMA DropQuotasStep ==
    ASSUME LInv, NEW r \in Replicas, DropQuotas(r)
    PROVE  LInv'
<1>1. /\ quota' = [quota EXCEPT ![r] = NoQuota]
      /\ UNCHANGED <<now, shared, throttle, fails, entries, request, histories>>
  BY DEF DropQuotas
<1>2. LimitsTyped'
  BY <1>1 DEF LInv, LimitsTyped, NoQuota, histories
<1>3. ~quota'[r].on /\ \A s \in Replicas : s # r => quota'[s] = quota[s]
  BY <1>1 DEF LInv, LimitsTyped, NoQuota
<1>4. Storing' = Storing /\ \A k : Verifying(k)' = Verifying(k)
  BY <1>1 DEF Verifying, Storing, Stands, Key
<1>5. FailuresCounted'
  BY <1>1, <1>4 DEF LInv, FailuresCounted, histories
<1>6. WritesCounted'
  BY <1>1, <1>3 DEF LInv, WritesCounted, histories
<1>7. EntriesKnown'
  BY <1>1, <1>3, <1>4 DEF LInv, EntriesKnown, histories
<1> QED
  BY <1>1, <1>2, <1>5, <1>6, <1>7 DEF LInv, WindowCounted, LogHeld, histories

\* The clock, an outage and its end: no counter moves.
LEMMA NoCounterMoves ==
    ASSUME LInv, now' \in 0 .. MaxTime,
           UNCHANGED <<shared, throttle, fails, quota, entries, request, histories>>
    PROVE  LInv'
<1>1. Storing' = Storing /\ \A k : Verifying(k)' = Verifying(k)
  BY DEF Verifying, Storing, Stands, Key
<1>2. FailuresCounted' /\ EntriesKnown'
  BY <1>1 DEF LInv, FailuresCounted, EntriesKnown, histories
<1> QED
  BY <1>2 DEF LInv, LimitsTyped, WindowCounted, LogHeld, WritesCounted, histories
-----------------------------------------------------------------------------
LEMMA LimitsStart == LimitsInit => LInv
<1> SUFFICES ASSUME LimitsInit PROVE LInv
  OBVIOUS
<1>1. LimitsTyped
  <2>1. Unmade \in Stage /\ Placed(Unmade) /\ Closed \in [count : Nat, reset : Nat]
    BY DEF Unmade, Stage, Closed, Placed
  <2>2. /\ NoQuota \in [start : Nat, writes : Nat, count : Nat, checked : Nat, on : BOOLEAN]
        /\ NoLedger \in [writes : Nat, unseen : Nat] /\ NoGuess \in [wrong : Nat, abreast : Nat]
    BY DEF NoQuota, NoLedger, NoGuess
  <2> QED
    BY <2>1, <2>2, LimitsAssumption DEF LimitsInit, LimitsTyped
<1>2. Storing = {} /\ \A k : Verifying(k) = {}
  BY DEF LimitsInit, Storing, Stands, Verifying, Unmade
<1>3. Cardinality({}) = 0
  BY FS_EmptySet
<1>4. WindowCounted
  BY LimitsAssumption DEF LimitsInit, WindowCounted, Closed
<1>5. LogHeld
  BY <1>3, FS_EmptySet, LimitsAssumption DEF LimitsInit, LogHeld
<1>6. FailuresCounted
  BY <1>2, <1>3, LimitsAssumption DEF LimitsInit, FailuresCounted, NoGuess, Closed
<1>7. WritesCounted
  BY LimitsAssumption DEF LimitsInit, WritesCounted, NoLedger, NoQuota
<1>8. EntriesKnown
  BY <1>2, <1>3, LimitsAssumption DEF LimitsInit, EntriesKnown, NoLedger, NoQuota
<1> QED
  BY <1>1, <1>4, <1>5, <1>6, <1>7, <1>8 DEF LInv

LEMMA LimitsPreserved == LInv /\ [LimitsNext]_limitVars => LInv'
<1> SUFFICES ASSUME LInv, [LimitsNext]_limitVars PROVE LInv'
  OBVIOUS
<1>1. ASSUME NEW c \in Calls, NEW r \in Replicas, NEW kind \in RequestKinds,
             TakeShared(c, r, kind) \/ TakeLocal(c, r, kind)
      PROVE  LInv'
  BY <1>1, TakeSharedStep, TakeLocalStep
<1>2. ASSUME NEW c \in Calls,
             \/ Throttled(c) \/ CheckLock(c) \/ RecordFailure(c) \/ Verified(c) \/ VerifyErrors(c)
             \/ Clear(c) \/ SettlesNothing(c)
             \/ EnforceQuota(c) \/ QuotaErrors(c) \/ Store(c) \/ StoreNothing(c)
      PROVE  LInv'
  BY <1>2, ThrottledStep, CheckLockStep, RecordFailureStep, ClearStep, NothingCounted,
     UnlimitedStep, EnforceQuotaStep, StoreStep
<1>3. ASSUME NEW r \in Replicas, DropQuotas(r) PROVE LInv'
  BY <1>3, DropQuotasStep
<1>4. CASE Outage \/ Recovery
  <2>1. /\ now' \in 0 .. MaxTime
        /\ UNCHANGED <<shared, throttle, fails, quota, entries, request, histories>>
    BY <1>4 DEF Outage, Recovery, counters, LInv, LimitsTyped
  <2> QED
    BY <2>1, NoCounterMoves
<1>5. CASE Later
  <2>1. /\ now' \in 0 .. MaxTime
        /\ UNCHANGED <<shared, throttle, fails, quota, entries, request, histories>>
    BY <1>5, LimitsAssumption DEF Later, counters, LInv, LimitsTyped
  <2> QED
    BY <2>1, NoCounterMoves
<1>6. CASE UNCHANGED limitVars
  <2>1. /\ now' \in 0 .. MaxTime
        /\ UNCHANGED <<shared, throttle, fails, quota, entries, request, histories>>
    BY <1>6 DEF limitVars, LInv, LimitsTyped, histories
  <2> QED
    BY <2>1, NoCounterMoves
<1> QED
  BY <1>1, <1>2, <1>3, <1>4, <1>5, <1>6 DEF LimitsNext

\* The counters say what the budgets need of them, in every state.
THEOREM LimitsCorrect == LimitsSpec => []LInv
<1> QED
  BY LimitsStart, LimitsPreserved, PTL DEF LimitsSpec

LEMMA LInvHolds == LInv => BudgetsHeld
<1> SUFFICES ASSUME LInv PROVE BudgetsHeld
  OBVIOUS
<1>1. OneBudget
  BY DEF LInv, WindowCounted, OneBudget
<1>2. ThrottleHeld
  <2> SUFFICES ASSUME NEW r \in Replicas, NEW t \in 0 .. MaxTime
               PROVE  Cardinality({a \in throttle[r] : t <= a[2] /\ a[2] < t + ThrottleWindow}) <= ThrottleMax
    BY DEF ThrottleHeld
  <2>1. PICK S : S = {a \in throttle[r] : t <= a[2] /\ a[2] < t + ThrottleWindow}
    OBVIOUS
  <2>2. S \subseteq throttle[r] /\ IsFiniteSet(throttle[r]) /\ Cardinality(throttle[r]) <= ThrottleMax
    BY <2>1 DEF LInv, LogHeld
  <2>3. IsFiniteSet(S) /\ Cardinality(S) <= Cardinality(throttle[r])
    BY <2>2, FS_Subset
  <2>4. Cardinality(S) \in Nat /\ Cardinality(throttle[r]) \in Nat
    BY <2>2, <2>3, FS_CardinalityType
  <2>5. Cardinality(S) <= ThrottleMax
    BY <2>2, <2>3, <2>4, LimitsAssumption
  <2> QED
    BY <2>1, <2>5
<1>3. GuessesHeld
  <2> SUFFICES ASSUME NEW k \in Keys
               PROVE  guesses[k].wrong <= FailMax - 1 + guesses[k].abreast
    BY DEF GuessesHeld
  <2>1. IsFiniteSet(Verifying(k))
    BY LimitsAssumption, FS_Subset DEF Verifying
  <2>2. Cardinality(Verifying(k)) \in Nat
    BY <2>1, FS_CardinalityType
  <2>3. guesses[k].wrong \in Nat /\ guesses[k].abreast \in Nat
    BY DEF LInv, LimitsTyped
  <2>4. guesses[k].wrong + Cardinality(Verifying(k)) <= FailMax - 1 + guesses[k].abreast
    BY DEF LInv, FailuresCounted
  <2> QED
    BY <2>2, <2>3, <2>4, LimitsAssumption
<1>4. QuotasHeld
  BY DEF LInv, WritesCounted, EntriesKnown, QuotasHeld
<1> QED
  BY <1>1, <1>2, <1>3, <1>4 DEF BudgetsHeld

\* The shared window lets through no more requests than configured, the
\* throttle no more sign-ins, a key no more failures than its limit and
\* those abreast, a window no more writes; entries exceed their quota only by
\* what the replica that let the last one in could not have counted.
THEOREM BudgetsAreHeld == LimitsSpec => []BudgetsHeld
<1> QED
  BY LimitsCorrect, LInvHolds, PTL
=============================================================================
