------------------------------ MODULE Sessions ------------------------------
(***************************************************************************)
(* Dashboard sessions: signing in, changing a password, banning, revoking  *)
(* and impersonating, each request a series of autocommit statements that  *)
(* others cross, and the rolling expiry refreshed off the response path.   *)
(* src/go/internal/httpapi/{auth,authroutes,authadmin,basessions}.go over  *)
(* src/go/internal/warmstore/{auth,bauser}.go.                             *)
(*                                                                         *)
(* Time is counted in ticks; a refresh has five seconds and so survives at *)
(* most one.  A session identifier names a token; it is used again only    *)
(* when nothing refers to it, which no caller can tell from a fresh one.   *)
(***************************************************************************)
EXTENDS Accounts, Integers, FiniteSets

CONSTANTS
    Sessions,          \* session identifiers
    SessionTTL,        \* sessionTTL, in ticks
    UpdateAge,         \* sessionUpdateAge, in ticks
    ImpersonationTTL,  \* impersonationTTL, in ticks
    BanTicks,          \* the length of a ban that ends
    MaxEvents          \* bound: passwords replaced, bans, unbans and updates of an account, aborted
                       \* requests and failed statements

ASSUME SessionsAssumption ==
    /\ Admins \subseteq Users
    /\ SessionTTL \in Nat /\ UpdateAge \in Nat /\ ImpersonationTTL \in Nat \ {0}
    /\ ImpersonationTTL < UpdateAge /\ UpdateAge < SessionTTL
    /\ BanTicks \in Nat \ {0}
    /\ MaxEvents \in Nat
    /\ None \notin Users

Forever == -1                  \* no banExpires

VARIABLES
    ban,        \* user -> banned and the ticks until banExpires
    password,   \* user -> how often the password was replaced
    session,    \* the session table
    refresh,    \* session -> whether its detached refresh has still to write, and a tick passed
    op,         \* handler -> the request it serves
    revoked,    \* history: user -> the password whose holders alone stay signed in
    events

vars == <<ban, password, session, refresh, op, revoked, events>>

Session == [user: Users, by: Users \cup {None},
            left: 0..SessionTTL,            \* until expiresAt
            age: 0..UpdateAge,              \* since updatedAt, capped
            idle: 0..SessionTTL - UpdateAge + 1,\* history: since it was last refreshed, capped
            pw: 0..MaxEvents,            \* history: the password it was opened with
            loose: BOOLEAN,                 \* history: no ban was to end it
            stale: BOOLEAN]                 \* history: it was opened across a change of password
Ban == [on: BOOLEAN, left: {Forever} \cup 0..BanTicks]
Refresh == {"none", "due", "late"}
Idle == [kind |-> "idle"]
SignIn(u, loose) == [kind |-> "sign-in", user |-> u, pw |-> password[u], step |-> "admitted", loose |-> loose, stale |-> FALSE]
Request == [kind: {"sign-in"}, user: Users, pw: 0..MaxEvents, step: {"admitted"},
            loose: BOOLEAN, stale: BOOLEAN]
   \cup [kind: {"change"}, user: Users, pw: 0..MaxEvents, step: {"set", "drop", "create"},
            revoke: BOOLEAN, loose: BOOLEAN, stale: BOOLEAN]
   \cup [kind: {"ban"}, user: Users, step: {"write"}, until: {Forever, BanTicks, None}]
   \cup [kind: {"ban"}, user: Users, step: {"drop"}]

TypeOK ==
    /\ ban \in [Users -> Ban]
    /\ password \in [Users -> 0..MaxEvents]
    /\ session \in [Sessions -> Session \cup {None}]
    /\ refresh \in [Sessions -> Refresh]
    /\ op \in [Handlers -> Request \cup {Idle}]
    /\ revoked \in [Users -> 0..MaxEvents]
    /\ events \in 0..MaxEvents

Init ==
    /\ ban = [u \in Users |-> [on |-> FALSE, left |-> Forever]]
    /\ password = [u \in Users |-> 0]
    /\ session = [s \in Sessions |-> None]
    /\ refresh = [s \in Sessions |-> "none"]
    /\ op = [h \in Handlers |-> Idle]
    /\ revoked = [u \in Users |-> 0]
    /\ events = 0

-----------------------------------------------------------------------------
\* SessionUser: the row is there and has not expired.
Live(s) == session[s] # None /\ session[s].left > 0

\* The sign-in's question: banned, and not with an elapsed banExpires.
InForce(b) == b.on /\ b.left # 0

\* Every request that resolves a session starts a refresh of it, which reads updatedAt at once: a session
\* younger than updateAge needs nothing, an older one is written later.
Seen(s, rows) ==
    IF session[s].age < UpdateAge
    THEN /\ session' = IF rows[s] = None THEN rows ELSE [rows EXCEPT ![s].idle = 0]
         /\ UNCHANGED refresh
    ELSE /\ session' = rows
         /\ refresh' = [refresh EXCEPT ![s] = IF @ = "none" THEN "due" ELSE @]

\* DELETE FROM "session" WHERE "userId" = u.
Without(u) == [s \in Sessions |-> IF session[s] # None /\ session[s].user = u THEN None ELSE session[s]]

\* The sessions of u no ban has ended.
Loosened(u) ==
    [s \in Sessions |->
        IF session[s] # None /\ session[s].user = u THEN [session[s] EXCEPT !.loose = TRUE] ELSE session[s]]

Opened(u, by, ttl, pw, loose, stale) ==
    [user |-> u, by |-> by, left |-> ttl, age |-> 0, idle |-> 0, pw |-> pw, loose |-> loose, stale |-> stale]

\* INSERT INTO "session": a token nobody has seen.
Unseen(s) == session[s] = None /\ refresh[s] = "none"
Insert(row) == \E s \in Sessions : Unseen(s) /\ session' = [session EXCEPT ![s] = row]

\* What the requests of u under way become when a password is replaced, a ban stored or sessions dropped
\* that they have looked at before.
Crossed(mark, u, steps) ==
    [h \in Handlers |->
        IF op[h] # Idle /\ op[h].user = u /\ op[h].step \in steps /\ op[h].kind # "ban"
        THEN [op[h] EXCEPT ![mark] = TRUE]
        ELSE op[h]]
Opening == {"admitted", "set", "drop", "create"}

\* One of the events MaxEvents bounds.
Event == events < MaxEvents /\ events' = events + 1

Finish(h) == op' = [op EXCEPT ![h] = Idle]

-----------------------------------------------------------------------------
(* Signing in *)

\* Mutant: the ban is not looked at.
VerifyBanned(h, u) ==
    /\ op[h] = Idle
    /\ op' = [op EXCEPT ![h] = SignIn(u, FALSE)]
    /\ UNCHANGED <<ban, password, session, refresh, revoked, events>>

\* The stored hash is read and the password verified, and then the ban: one in force refuses the sign-in.
Verify(h, u) ==
    /\ op[h] = Idle
    /\ ~InForce(ban[u])
    /\ op' = [op EXCEPT ![h] = SignIn(u, FALSE)]
    /\ UNCHANGED <<ban, password, session, refresh, revoked, events>>

\* A ban that cannot be read does not.
VerifyBlind(h, u) ==
    /\ op[h] = Idle
    /\ InForce(ban[u])
    /\ Event
    /\ op' = [op EXCEPT ![h] = SignIn(u, TRUE)]
    /\ UNCHANGED <<ban, password, session, refresh, revoked>>

SignedIn(h) ==
    /\ op[h] # Idle /\ op[h].kind = "sign-in" /\ op[h].step = "admitted"
    /\ Insert(Opened(op[h].user, None, SessionTTL, op[h].pw, op[h].loose, op[h].stale))
    /\ Finish(h)
    /\ UNCHANGED <<ban, password, refresh, revoked, events>>

\* The row goes whether or not it has expired.
SignOut(s) ==
    /\ session[s] # None
    /\ session' = [session EXCEPT ![s] = None]
    /\ UNCHANGED <<ban, password, refresh, op, revoked, events>>

-----------------------------------------------------------------------------
(* Changing a password *)

\* The session and the current password are checked; the new hash is not stored yet.
BeginChange(h, s, revoke) ==
    /\ op[h] = Idle /\ Live(s)
    /\ Event
    /\ op' = [op EXCEPT ![h] = [kind |-> "change", user |-> session[s].user, pw |-> password[session[s].user],
                                step |-> "set", revoke |-> revoke,
                                loose |-> session[s].loose \/ session[s].by # None, stale |-> FALSE]]
    /\ Seen(s, session)
    /\ UNCHANGED <<ban, password, revoked>>

\* The new hash is stored, whatever was stored since the check.
SetPassword(h) ==
    /\ op[h] # Idle /\ op[h].kind = "change" /\ op[h].step = "set"
    /\ LET u == op[h].user
           n == password[u] + 1 IN
       /\ password' = [password EXCEPT ![u] = n]
       /\ op' = [Crossed("stale", u, Opening) EXCEPT
                    ![h] = IF op[h].revoke THEN [op[h] EXCEPT !.step = "drop", !.pw = n] ELSE Idle]
    /\ UNCHANGED <<ban, session, refresh, revoked, events>>

\* Mutant: one session goes.
DropOne(h) ==
    /\ op[h] # Idle /\ op[h].kind = "change" /\ op[h].step = "drop"
    /\ \E s \in Sessions :
          /\ session[s] # None /\ session[s].user = op[h].user
          /\ session' = [session EXCEPT ![s] = None]
    /\ op' = [op EXCEPT ![h].step = "create"]
    /\ revoked' = [revoked EXCEPT ![op[h].user] = IF op[h].pw > @ THEN op[h].pw ELSE @]
    /\ UNCHANGED <<ban, password, refresh, events>>

\* revokeOtherSessions: every session goes ...
DropOthers(h) ==
    /\ op[h] # Idle /\ op[h].kind = "change" /\ op[h].step = "drop"
    /\ session' = Without(op[h].user)
    /\ op' = [op EXCEPT ![h].step = "create"]
    /\ revoked' = [revoked EXCEPT ![op[h].user] = IF op[h].pw > @ THEN op[h].pw ELSE @]
    /\ UNCHANGED <<ban, password, refresh, events>>

\* ... and the caller gets a fresh one.
Reopen(h) ==
    /\ op[h] # Idle /\ op[h].kind = "change" /\ op[h].step = "create"
    /\ Insert(Opened(op[h].user, None, SessionTTL, op[h].pw, op[h].loose, op[h].stale))
    /\ Finish(h)
    /\ UNCHANGED <<ban, password, refresh, revoked, events>>

-----------------------------------------------------------------------------
(* What an admin does *)

\* baAdmin: a live session of an admin, not refused for a ban.
AdminBy(s) == Live(s) /\ session[s].user \in Admins

\* ban-user, and update-user with banned: true, which keeps the expiry it finds.
BeginBan(h, s, u) ==
    /\ op[h] = Idle /\ AdminBy(s) /\ u # session[s].user
    /\ Event
    /\ \E until \in {Forever, BanTicks, None} :
          op' = [op EXCEPT ![h] = [kind |-> "ban", user |-> u, step |-> "write", until |-> until]]
    /\ Seen(s, session)
    /\ UNCHANGED <<ban, password, revoked>>

\* The ban is stored first ...
WriteBan(h) ==
    /\ op[h] # Idle /\ op[h].kind = "ban" /\ op[h].step = "write"
    /\ ban' = [ban EXCEPT ![op[h].user] = [on |-> TRUE, left |-> IF op[h].until = None THEN @.left ELSE op[h].until]]
    /\ op' = [Crossed("loose", op[h].user, {"admitted"}) EXCEPT
                ![h] = [kind |-> "ban", user |-> op[h].user, step |-> "drop"]]
    /\ UNCHANGED <<password, session, refresh, revoked, events>>

\* ... and the sessions dropped after it.
DropBanned(h) ==
    /\ op[h] # Idle /\ op[h].kind = "ban" /\ op[h].step = "drop"
    /\ session' = Without(op[h].user)
    /\ op' = [Crossed("loose", op[h].user, Opening \ {"admitted"}) EXCEPT ![h] = Idle]
    /\ UNCHANGED <<ban, password, refresh, revoked, events>>

\* unban-user, and update-user without banned: true: only the account changes.
UpdateBan(s, u) ==
    /\ AdminBy(s)
    /\ Event
    /\ \E b \in {[on |-> FALSE, left |-> Forever], [ban[u] EXCEPT !.on = FALSE], [ban[u] EXCEPT !.left = BanTicks]} :
          /\ ban' = [ban EXCEPT ![u] = b]
          /\ Seen(s, IF InForce(b) /\ ~InForce(ban[u]) THEN Loosened(u) ELSE session)
          /\ op' = IF InForce(b) /\ ~InForce(ban[u]) THEN Crossed("loose", u, Opening) ELSE op
    /\ UNCHANGED <<password, revoked>>

\* set-user-password: the sessions stay.
SetUserPassword(s, u) ==
    /\ AdminBy(s)
    /\ Event
    /\ password' = [password EXCEPT ![u] = @ + 1]
    /\ Seen(s, session)
    /\ UNCHANGED <<ban, op, revoked>>

\* revoke-user-session(s), and revoke-session for one's own.
Revoke(s, t) ==
    /\ Live(s) /\ session[t] # None
    /\ session[s].user \in Admins \cup {session[t].user}
    /\ Seen(s, [session EXCEPT ![t] = None])
    /\ UNCHANGED <<ban, password, op, revoked, events>>

RevokeAll(s, u) ==
    /\ AdminBy(s)
    /\ Seen(s, Without(u))
    /\ UNCHANGED <<ban, password, op, revoked, events>>

\* Admins cannot be impersonated; the banned can.
Impersonate(s, u) ==
    /\ AdminBy(s) /\ u \notin Admins
    /\ \E t \in Sessions :
          /\ Unseen(t)
          /\ Seen(s, [session EXCEPT ![t] = Opened(u, session[s].user, ImpersonationTTL, password[u], FALSE, FALSE)])
    /\ UNCHANGED <<ban, password, op, revoked, events>>

\* The browser's own session is deleted and the admin's taken up again; neither expiry is looked at.
StopImpersonating(s, t) ==
    /\ session[s] # None /\ session[s].by # None
    /\ session[t] # None /\ session[t].user = session[s].by
    /\ session' = [session EXCEPT ![s] = None]
    /\ UNCHANGED <<ban, password, refresh, op, revoked, events>>

-----------------------------------------------------------------------------
(* The rolling expiry *)

\* Any other request with a session's cookie.
Use(s) ==
    /\ Live(s) /\ refresh[s] = "none"
    /\ Seen(s, session)
    /\ UNCHANGED <<ban, password, op, revoked, events>>

\* Mutant: only updatedAt is written.
RefreshStamp(s) ==
    /\ refresh[s] # "none"
    /\ refresh' = [refresh EXCEPT ![s] = "none"]
    /\ session' = IF session[s] = None THEN session
                  ELSE [session EXCEPT ![s].age = 0, ![s].idle = 0]
    /\ UNCHANGED <<ban, password, op, revoked, events>>

\* A session due gets a whole new window; UPDATE WHERE token finds nothing of a dropped one.
RefreshWrite(s) ==
    /\ refresh[s] # "none"
    /\ refresh' = [refresh EXCEPT ![s] = "none"]
    /\ session' = IF session[s] = None THEN session
                  ELSE [session EXCEPT ![s].left = SessionTTL, ![s].age = 0, ![s].idle = 0]
    /\ UNCHANGED <<ban, password, op, revoked, events>>

\* A refresh that fails is only logged.
RefreshFails(s) ==
    /\ refresh[s] # "none"
    /\ Event
    /\ refresh' = [refresh EXCEPT ![s] = "none"]
    /\ UNCHANGED <<ban, password, session, op, revoked>>

Older(n, cap) == IF n < cap THEN n + 1 ELSE cap
Nearer(n) == IF n > 0 THEN n - 1 ELSE n

Tick ==
    /\ \A s \in Sessions : refresh[s] # "late"
    /\ session' = [s \in Sessions |->
          IF session[s] = None THEN None
          ELSE [session[s] EXCEPT !.left = Nearer(@), !.age = Older(@, UpdateAge), !.idle = Older(@, SessionTTL - UpdateAge + 1)]]
    /\ ban' = [u \in Users |-> [ban[u] EXCEPT !.left = Nearer(@)]]
    /\ refresh' = [s \in Sessions |-> IF refresh[s] = "none" THEN "none" ELSE "late"]
    /\ UNCHANGED <<password, op, revoked, events>>

\* A request that ends between its statements; after the ban is stored the sessions stay.
Abort(h) ==
    /\ op[h] # Idle
    /\ Event
    /\ IF op[h].kind = "ban" /\ op[h].step = "drop"
       THEN /\ op' = [Crossed("loose", op[h].user, Opening) EXCEPT ![h] = Idle]
            /\ session' = Loosened(op[h].user)
       ELSE /\ Finish(h)
            /\ UNCHANGED session
    /\ UNCHANGED <<ban, password, refresh, revoked>>

Step(h) ==
    \/ \E u \in Users : Verify(h, u) \/ VerifyBlind(h, u)
    \/ SignedIn(h)
    \/ \E s \in Sessions, revoke \in BOOLEAN : BeginChange(h, s, revoke)
    \/ SetPassword(h) \/ DropOthers(h) \/ Reopen(h)
    \/ \E s \in Sessions, u \in Users : BeginBan(h, s, u)
    \/ WriteBan(h) \/ DropBanned(h) \/ Abort(h)

AtOnce(s) ==
    \/ SignOut(s) \/ Use(s)
    \/ \E u \in Users : UpdateBan(s, u) \/ SetUserPassword(s, u) \/ RevokeAll(s, u) \/ Impersonate(s, u)
    \/ \E t \in Sessions : Revoke(s, t) \/ StopImpersonating(s, t)

Next ==
    \/ \E h \in Handlers : Step(h)
    \/ \E s \in Sessions : AtOnce(s) \/ RefreshWrite(s) \/ RefreshFails(s)
    \/ Tick

Spec == Init /\ [][Next]_vars

-----------------------------------------------------------------------------
Dropping(u) == \E h \in Handlers : op[h] # Idle /\ op[h].kind = "ban" /\ op[h].user = u /\ op[h].step = "drop"

\* Once the request that banned a user has dropped the sessions, and while the ban is in force, the user
\* is signed in nowhere: not by a sign-in, a change of password or a refresh that comes later.  Exempt
\* are sessions no ban was to end (loose): those of requests that crossed the ban after their own check,
\* of a ban that failed half way or came into force by its date alone, of a ban that could not be read;
\* and an admin's impersonation.  handleSignIn, handleBABanUser, handleBAUpdateUser, RefreshSession.
BannedOut ==
    \A s \in Sessions :
        session[s] # None /\ InForce(ban[session[s].user]) /\ ~Dropping(session[s].user)
            => session[s].loose \/ session[s].by # None

\* A change of password that revokes the other sessions leaves none that an older password opened, save
\* those of requests that had verified the older password when it was replaced, and an impersonation.
\* handleBAChangePassword.
OldPasswordOut ==
    \A s \in Sessions :
        session[s] # None /\ session[s].pw < revoked[session[s].user]
            => session[s].stale \/ session[s].by # None

\* An impersonation ends ImpersonationTTL after it began, however much it is used: a refresh never
\* finds it old enough.  handleBAImpersonate, RefreshSession.
ImpersonationEnds ==
    \A s \in Sessions :
        session[s] # None /\ session[s].by # None
            => session[s].left <= ImpersonationTTL - session[s].age \/ session[s].left = 0

\* Neither the banned nor the holder of an older password stays signed in, nor an
\* impersonating admin for longer than an impersonation lasts.
ShutOut == BannedOut /\ OldPasswordOut /\ ImpersonationEnds

\* A session that keeps being used is not signed out by its expiry: while at most SessionTTL - UpdateAge
\* ticks have passed since a refresh of it was done, it is live.  RefreshSession.
ActiveStays ==
    \A s \in Sessions :
        session[s] # None /\ session[s].by = None /\ session[s].idle <= SessionTTL - UpdateAge
            => session[s].left > 0

=============================================================================
