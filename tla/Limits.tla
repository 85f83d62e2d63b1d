------------------------------- MODULE Limits -------------------------------
(***************************************************************************)
(* The budgets a request passes, in the order in which it meets them.  The *)
(* request limit of an address is one counter in Postgres for all replicas *)
(* and, while that cannot be reached, one counter per replica.  A sign-in  *)
(* then passes the throttle of its replica (a log of recent attempts); it, *)
(* a change of password, one without a session and the rotation of a token *)
(* each pass the lock that failures put on a key of their own; a write     *)
(* passes the quotas of its replica: a window of writes, and a count of    *)
(* entries that is read from the table when it is old.                     *)
(*                                                                         *)
(* One address, account and token, so one key of each kind; one user who   *)
(* writes and deletes nothing.  A call is what one request does; times are *)
(* ticks of one clock.  A limit of 0 is off.                               *)
(***************************************************************************)
EXTENDS Naturals, FiniteSets

CONSTANTS
    Calls,
    Replicas,
    RequestKinds,   \* subset of {"signin", "password", "anonymous", "rotate", "write"}
    Nobody,         \* the replica of a request not made yet
    MaxRequests,    \* NOVAMEM_RATE_LIMIT_PER_MINUTE
    ThrottleMax,    \* sign-ins within the throttle's window: 3 in the code
    FailMax,        \* failMax: 5
    WritesPerMinute, MaxEntries,    \* the user's quotas
    Minute,         \* ticks of the request limit's and of the quota's window
    ThrottleWindow, \* ticks of the throttle's window: 10 s
    FailWindow,     \* ticks of a lock: 15 min
    CountTTL,       \* quotaCountCacheTTL in ticks: 30 s
    MaxTime,        \* bound: ticks of the clock
    MaxFaults       \* bound: outages, failed statements, a full quota map

ASSUME LimitsAssumption ==
    /\ IsFiniteSet(Calls) /\ Replicas # {} /\ Nobody \notin Replicas
    /\ RequestKinds \subseteq {"signin", "password", "anonymous", "rotate", "write"}
    /\ MaxRequests \in Nat /\ ThrottleMax \in Nat /\ FailMax \in Nat \ {0}
    /\ WritesPerMinute \in Nat /\ MaxEntries \in Nat
    /\ Minute \in Nat \ {0} /\ ThrottleWindow \in Nat /\ FailWindow \in Nat \ {0} /\ CountTTL \in Nat
    /\ MaxTime \in Nat /\ MaxFaults \in Nat

VARIABLES
    now,
    up,         \* the warm store answers
    shared,     \* the address's row of rate_limits
    local,      \* rateLimiter.m of each replica
    throttle,   \* baRateLimit.at: times of the attempts let through
    fails,      \* auth.Limiter.m: the entries of Keys
    quota,      \* quotaState: the user's entry
    entries,    \* rows of the user in memory_entries
    request,    \* the calls
    passed,     \* history: requests let through in the shared window
    guesses,    \* history of each key: see NoGuess
    ledger,     \* history of each replica: see NoLedger
    margin,     \* history: entries the last admission could not know of
    faults

limitVars == <<now, up, shared, local, throttle, fails, quota, entries, request, passed, guesses, ledger, margin, faults>>

counters == <<shared, local, throttle, fails, quota>>
histories == <<passed, guesses, ledger, margin>>

\* "signin:" + email, "chgpw:" + user, "chgpw-anon:" + address, "rotate:" + hash.
Keys == Replicas \X (RequestKinds \ {"write"})

Closed == [count |-> 0, reset |-> 0]
NoQuota == [start |-> 0, writes |-> 0, count |-> 0, checked |-> 0, on |-> FALSE]
Unmade == [pc |-> "new", kind |-> "none", at |-> Nobody]

\* What the properties compare the counters with: the wrong passwords since the
\* key was last open and the most verified abreast since; the writes admitted in
\* the quota's window and those the cached count cannot know of.
NoGuess == [wrong |-> 0, abreast |-> 0]
NoLedger == [writes |-> 0, unseen |-> 0]

LimitsTypeOK ==
    /\ now \in 0 .. MaxTime /\ up \in BOOLEAN /\ entries \in Nat
    /\ shared \in [count : Nat, reset : Nat] /\ passed \in Nat
    /\ local \in [Replicas -> [count : Nat, reset : Nat]]
    /\ throttle \in [Replicas -> SUBSET (Calls \X (0 .. MaxTime))]
    /\ fails \in [Keys -> [count : Nat, reset : Nat]]
    /\ quota \in [Replicas -> [start : Nat, writes : Nat, count : Nat, checked : Nat, on : BOOLEAN]]
    /\ request \in [Calls -> [pc : {"new", "throttle", "lock", "verify", "settle", "quota", "insert", "done"},
                              kind : RequestKinds \cup {"none"}, at : Replicas \cup {Nobody}]]

LimitsInit ==
    /\ now = 0 /\ up = TRUE /\ entries = 0
    /\ shared = Closed
    /\ local = [r \in Replicas |-> Closed]
    /\ throttle = [r \in Replicas |-> {}]
    /\ fails = [k \in Keys |-> Closed]
    /\ quota = [r \in Replicas |-> NoQuota]
    /\ request = [c \in Calls |-> Unmade]
    /\ passed = 0
    /\ guesses = [k \in Keys |-> NoGuess]
    /\ ledger = [r \in Replicas |-> NoLedger]
    /\ margin = 0
    /\ faults = 0

Stands(c, pc) == request[c].pc = pc
Key(c) == <<request[c].at, request[c].kind>>
Verifying(k) == {c \in Calls : Stands(c, "verify") /\ Key(c) = k}
Storing == {c \in Calls : Stands(c, "insert")}
Goes(c, pc) == request' = [request EXCEPT ![c].pc = pc]
Ends(c) == request' = [request EXCEPT ![c] = [Unmade EXCEPT !.pc = "done"]]
Fault == faults < MaxFaults /\ faults' = faults + 1
Greater(a, b) == IF a > b THEN a ELSE b
Reached(n, limit) == limit > 0 /\ n >= limit

-----------------------------------------------------------------------------
(* The request limit *)

\* A fixed window: it opens with the first request and nothing extends it.
CountOne(w) == IF MaxRequests = 0 THEN w
               ELSE IF w.reset <= now THEN [count |-> 1, reset |-> now + Minute]
               ELSE [w EXCEPT !.count = @ + 1]
Exceeded(w) == MaxRequests > 0 /\ w.count > MaxRequests

FirstGate(kind) == CASE kind = "signin" -> "throttle"
                     [] kind = "write" -> "quota"
                     [] OTHER -> "lock"

Arrives(c, r, kind, counted) ==
    /\ Stands(c, "new")
    /\ request' = [request EXCEPT ![c] = IF Exceeded(counted)
                                         THEN [Unmade EXCEPT !.pc = "done"]
                                         ELSE [pc |-> FirstGate(kind), kind |-> kind, at |-> r]]

Passing(counted) ==
    passed' = IF MaxRequests = 0 \/ Exceeded(counted) THEN passed
              ELSE IF counted.count = 1 THEN 1 ELSE passed + 1

\* Mutant: the replica's own counter, whether or not there is a shared one.
TakeOwn(c, r, kind) ==
    /\ up
    /\ local' = [local EXCEPT ![r] = CountOne(@)]
    /\ Arrives(c, r, kind, CountOne(local[r]))
    /\ passed' = IF Exceeded(CountOne(local[r])) THEN passed ELSE passed + 1
    /\ UNCHANGED <<now, up, shared, throttle, fails, quota, entries, guesses, ledger, margin, faults>>

\* The shared counter: compared and counted in one statement.
TakeShared(c, r, kind) ==
    /\ up
    /\ shared' = CountOne(shared)
    /\ Arrives(c, r, kind, CountOne(shared))
    /\ Passing(CountOne(shared))
    /\ UNCHANGED <<now, up, local, throttle, fails, quota, entries, guesses, ledger, margin, faults>>

\* It cannot be reached: what this replica has counted itself.
TakeLocal(c, r, kind) ==
    /\ ~up
    /\ local' = [local EXCEPT ![r] = CountOne(@)]
    /\ Arrives(c, r, kind, CountOne(local[r]))
    /\ UNCHANGED <<now, up, shared, throttle, fails, quota, entries, histories, faults>>

-----------------------------------------------------------------------------
(* Sign-in, change of password, rotation of a token *)

\* The log keeps what is younger than the window; a full log refuses.
Recent(r) == {a \in throttle[r] : now - a[2] < ThrottleWindow}

Throttled(c) ==
    /\ Stands(c, "throttle")
    /\ LET r == request[c].at IN
         IF Cardinality(Recent(r)) >= ThrottleMax
         THEN Ends(c) /\ throttle' = [throttle EXCEPT ![r] = Recent(r)]
         ELSE Goes(c, "lock") /\ throttle' = [throttle EXCEPT ![r] = Recent(r) \cup {<<c, now>>}]
    /\ UNCHANGED <<now, up, shared, local, fails, quota, entries, histories, faults>>

Expired(k) == fails[k].reset <= now
Locked(k) == ~Expired(k) /\ fails[k].count >= FailMax

\* The history of a key once another verification is let in, once one failed.
OneAbreast(k) ==
    LET n == Cardinality(Verifying(k)) + 1 IN
    IF Expired(k) THEN [wrong |-> 0, abreast |-> n]
    ELSE [wrong |-> guesses[k].wrong, abreast |-> Greater(guesses[k].abreast, n)]
OneWrong(k) ==
    IF Expired(k) THEN [wrong |-> 1, abreast |-> Cardinality(Verifying(k))]
    ELSE [wrong |-> guesses[k].wrong + 1, abreast |-> guesses[k].abreast]

\* The lock is looked at here and failures are counted after the password has
\* been verified: what is under way then passes together.
CheckLock(c) ==
    /\ Stands(c, "lock")
    /\ LET k == Key(c) IN
         /\ fails' = IF Expired(k) THEN [fails EXCEPT ![k] = Closed] ELSE fails
         /\ IF Locked(k) THEN Ends(c) ELSE Goes(c, "verify")
         /\ guesses' = IF Locked(k) THEN guesses ELSE [guesses EXCEPT ![k] = OneAbreast(k)]
    /\ UNCHANGED <<now, up, shared, local, throttle, quota, entries, passed, ledger, margin, faults>>

\* Mutant: every failure starts the window anew.
FailedAnew(k) == [count |-> 1, reset |-> now + FailWindow]

\* A failure is counted in the open window, which it does not extend.
Failed(k) == IF Expired(k) THEN [count |-> 1, reset |-> now + FailWindow]
             ELSE [fails[k] EXCEPT !.count = @ + 1]

\* Wrong, as what was read or the request itself shows: a change of password
\* without a session or with an unusable body fails before anything is read.
RecordFailure(c) ==
    /\ Stands(c, "verify")
    /\ up \/ request[c].kind \in {"password", "anonymous"}
    /\ LET k == Key(c) IN
         /\ fails' = [fails EXCEPT ![k] = Failed(k)]
         /\ guesses' = [guesses EXCEPT ![k] = OneWrong(k)]
    /\ Ends(c)
    /\ UNCHANGED <<now, up, shared, local, throttle, quota, entries, passed, ledger, margin, faults>>

\* The password or the token is right.
Verified(c) ==
    /\ Stands(c, "verify")
    /\ up
    /\ request[c].kind # "anonymous"
    /\ Goes(c, "settle")
    /\ UNCHANGED <<now, up, counters, entries, histories, faults>>

\* The user or the password cannot be read: an error, not a failure.
VerifyErrors(c) ==
    /\ Stands(c, "verify")
    /\ ~up
    /\ request[c].kind # "anonymous"
    /\ Ends(c)
    /\ UNCHANGED <<now, up, counters, entries, histories, faults>>

\* No ban, or none that could be read; the new password is set: what had been
\* counted for this key is forgotten.
Clear(c) ==
    /\ Stands(c, "settle")
    /\ request[c].kind = "password" => up
    /\ LET k == Key(c) IN
         /\ fails' = [fails EXCEPT ![k] = Closed]
         /\ guesses' = [guesses EXCEPT ![k] = [wrong |-> 0, abreast |-> Cardinality(Verifying(k))]]
    /\ Ends(c)
    /\ UNCHANGED <<now, up, shared, local, throttle, quota, entries, passed, ledger, margin, faults>>

\* Banned, the password's row gone or not written: nothing recorded or cleared.
SettlesNothing(c) ==
    /\ Stands(c, "settle")
    /\ request[c].kind \in {"signin", "password"}
    /\ request[c].kind = "signin" => up
    /\ Ends(c)
    /\ UNCHANGED <<now, up, counters, entries, histories, faults>>

-----------------------------------------------------------------------------
(* Writes *)

\* The entry for this window, with nothing counted if the last one is over.
Window(r) == IF quota[r].on /\ now - quota[r].start < Minute THEN quota[r]
             ELSE [NoQuota EXCEPT !.start = now, !.on = TRUE]
NewWindow(r) == ~(quota[r].on /\ now - quota[r].start < Minute)

\* checked = 0 stands for the zero time, so a count read at time t is t + 1.
Recount(r) == MaxEntries > 0 /\ (Window(r).checked = 0 \/ now + 1 - Window(r).checked >= CountTTL)
Known(r) == IF Recount(r) THEN entries ELSE Window(r).count

\* Mutant: the cached count does not know what it let in.
AdmittedUncounted(r) ==
    [Window(r) EXCEPT !.writes = @ + 1, !.count = Known(r),
                      !.checked = IF Recount(r) THEN now + 1 ELSE @]

Admitted(r) ==
    [Window(r) EXCEPT !.writes = @ + 1, !.count = IF MaxEntries > 0 THEN Known(r) + 1 ELSE @,
                      !.checked = IF Recount(r) THEN now + 1 ELSE @]

\* For the history: what the count of s cannot include once r has checked.
Uncounted(s, r, full, refused) ==
    IF s # r THEN ledger[s].unseen + (IF refused THEN 0 ELSE 1)
    ELSE IF Recount(r) /\ ~full THEN Cardinality(Storing)
    ELSE ledger[r].unseen

\* Without quotas nothing is read or counted.
Unlimited == MaxEntries = 0 /\ WritesPerMinute = 0

\* The whole check holds the mutex, the count of the rows with it; but a write
\* admitted earlier need not have its row yet.
EnforceQuota(c) ==
    /\ Stands(c, "quota")
    /\ up \/ Unlimited
    /\ LET r == request[c].at
           full == Reached(Window(r).writes, WritesPerMinute)
           over == Reached(Known(r), MaxEntries)
       IN /\ quota' = IF Unlimited THEN quota ELSE [quota EXCEPT ![r] =
               IF full THEN Window(r)
               ELSE IF over THEN [Window(r) EXCEPT !.count = Known(r),
                                     !.checked = IF Recount(r) THEN now + 1 ELSE @]
               ELSE Admitted(r)]
          /\ IF full \/ over THEN Ends(c) ELSE Goes(c, "insert")
          /\ ledger' = IF Unlimited THEN ledger ELSE
               [s \in Replicas |-> [ledger[s] EXCEPT
                  !.writes = IF s = r THEN (IF NewWindow(r) THEN 0 ELSE @)
                                           + (IF full \/ over THEN 0 ELSE 1) ELSE @,
                  !.unseen = Uncounted(s, r, full, full \/ over)]]
          /\ margin' = IF full \/ over THEN margin ELSE Uncounted(r, r, FALSE, FALSE)
    /\ UNCHANGED <<now, up, shared, local, throttle, fails, entries, passed, guesses, faults>>

\* The user's overrides or the count cannot be read.
QuotaErrors(c) ==
    /\ Stands(c, "quota")
    /\ ~up /\ ~Unlimited
    /\ Ends(c)
    /\ UNCHANGED <<now, up, counters, entries, histories, faults>>

Store(c) ==
    /\ Stands(c, "insert")
    /\ up
    /\ entries' = entries + 1
    /\ Ends(c)
    /\ UNCHANGED <<now, up, counters, histories, faults>>

\* Rejected as unworthy, a duplicate, or failed: the write stays counted.
StoreNothing(c) ==
    /\ Stands(c, "insert")
    /\ Ends(c)
    /\ UNCHANGED <<now, up, counters, entries, histories, faults>>

\* The map is full of other users: it is dropped as a whole.
DropQuotas(r) ==
    /\ quota[r].on
    /\ Fault
    /\ quota' = [quota EXCEPT ![r] = NoQuota]
    /\ UNCHANGED <<now, up, shared, local, throttle, fails, entries, request, histories>>

-----------------------------------------------------------------------------
Outage ==
    /\ up
    /\ Fault
    /\ up' = FALSE
    /\ UNCHANGED <<now, counters, entries, request, histories>>

Recovery ==
    /\ ~up
    /\ up' = TRUE
    /\ UNCHANGED <<now, counters, entries, request, histories, faults>>

Later ==
    /\ now < MaxTime
    /\ now' = now + 1
    /\ UNCHANGED <<up, counters, entries, request, histories, faults>>

LimitsNext ==
    \/ \E c \in Calls, r \in Replicas, kind \in RequestKinds : TakeShared(c, r, kind) \/ TakeLocal(c, r, kind)
    \/ \E c \in Calls :
         \/ Throttled(c) \/ CheckLock(c) \/ RecordFailure(c) \/ Verified(c) \/ VerifyErrors(c)
         \/ Clear(c) \/ SettlesNothing(c)
         \/ EnforceQuota(c) \/ QuotaErrors(c) \/ Store(c) \/ StoreNothing(c)
    \/ \E r \in Replicas : DropQuotas(r)
    \/ Outage \/ Recovery \/ Later

LimitsSpec == LimitsInit /\ [][LimitsNext]_limitVars

-----------------------------------------------------------------------------
\* While Postgres answers, a window lets through the configured number of
\* requests in the whole deployment, whichever replica they reach.
OneBudget == MaxRequests > 0 => passed <= MaxRequests

\* Any stretch as long as the throttle's window sees at most ThrottleMax
\* sign-ins let through on a replica.
ThrottleHeld ==
    \A r \in Replicas, t \in 0 .. MaxTime :
        Cardinality({a \in throttle[r] : t <= a[2] /\ a[2] < t + ThrottleWindow}) <= ThrottleMax

\* A key of a replica sees at most FailMax failures in a lock's window, and
\* those verified abreast of the last one (auth.go:138: "failures per key").
GuessesHeld ==
    \A k \in Keys : guesses[k].wrong > 0 =>
        guesses[k].wrong <= FailMax - 1 + guesses[k].abreast

\* A window of a replica admits at most its quota of writes.  The user's
\* entries, those under way included, exceed theirs only by what the replica
\* that let the last one in could not have counted: writes under way when it
\* read the table, or let in by another replica since.
QuotasHeld ==
    /\ WritesPerMinute > 0 => \A r \in Replicas : ledger[r].writes <= WritesPerMinute
    /\ MaxEntries > 0 => entries + Cardinality(Storing) <= MaxEntries + margin

BudgetsHeld == OneBudget /\ ThrottleHeld /\ GuessesHeld /\ QuotasHeld
=============================================================================
