------------------------------- MODULE Startup -------------------------------
(***************************************************************************)
(* Server processes coming up against one database.  A process reads its   *)
(* configuration, takes a connection of its pool and the advisory lock on  *)
(* it, brings the schema up to its build over other connections of the     *)
(* pool, seeds the bootstrap admin, and serves until it is told to stop.   *)
(* While it is up to the schema, a failed statement makes it start over,   *)
(* for as long as its deadline allows; then it exits, and the orchestrator *)
(* starts it again.                                                        *)
(*                                                                         *)
(* During a rolling upgrade processes of two builds run side by side.  A   *)
(* build ships the migrations 1 .. build: the journal's order is the order *)
(* in which they were written.                                             *)
(***************************************************************************)
EXTENDS Naturals

CONSTANTS
    Replicas,
    Builds,         \* bound: the latest migrations of the builds that come up, per replica
    Top,            \* the latest migration there is
    Rerunnable,     \* migrations whose every statement says IF NOT EXISTS
    OfUsers,        \* migrations that alter or reference Better Auth's "user"
    Features,       \* the optional subsystems, each with a flag, an endpoint and a model
    Coerced,        \* of those, the ones whose flag is on for any text that is not empty
    Envs,           \* bound: environments considered
    Databases,      \* bound: what the database may hold at first
    NoOne,
    MaxFaults       \* bound: failures, crashes, stops

Migrations == 1..Top

VARIABLES
    env,        \* the environment, of all processes
    db,         \* the database
    advisory,   \* the process whose connection holds the advisory lock
    proc,       \* the processes
    spoilt,     \* history: accidents that excuse something
    faults

startupVars == <<env, db, advisory, proc, spoilt, faults>>

Env == [flag : [Features -> {"unset", "false", "true"}], endpoint : [Features -> BOOLEAN],
        secret : BOOLEAN, pool : Nat, admin : BOOLEAN]

\* Columns of interest: how often the journal records each migration, leftovers of the
\* schema before Better Auth, Better Auth's tables, the full text extras, whether rows
\* share a content hash and whether the index against that is there, the role of the user
\* with the bootstrap address, and whether someone else is an admin.
Database == [journal : [Migrations -> Nat], legacy : BOOLEAN, users : BOOLEAN,
             fts : {"none", "column", "index"}, twins : BOOLEAN, unique : BOOLEAN,
             boot : {"none", "user", "admin"}, other : BOOLEAN]

\* Whoever left the database recorded what it applied, in order.
ASSUME StartupAssumption ==
    /\ Top \in Nat /\ MaxFaults \in Nat /\ NoOne \notin Replicas
    /\ Builds \subseteq [Replicas -> 1..Top] /\ Envs \subseteq Env
    /\ \A d \in Databases :
           /\ d \in Database
           /\ \E n \in 0..Top : \A m \in Migrations : d.journal[m] = IF m <= n THEN 1 ELSE 0

Migrating == {"acquire", "lock", "cleanup", "auth", "journal", "apply", "column", "index",
              "unique", "unlock"}
Stages == {"off", "load", "retry", "seed", "create", "promote", "serving", "draining"} \cup Migrating
Proc == [pc : Stages, last : 0..Top, build : 1..Top]

StartupTypeOK ==
    /\ env \in Env /\ db \in Database
    /\ advisory \in Replicas \cup {NoOne}
    /\ proc \in [Replicas -> Proc]
    /\ spoilt \subseteq {"lock", "seed", "unique"}
    /\ faults \in Nat

StartupInit ==
    /\ env \in Envs /\ db \in Databases
    /\ advisory = NoOne
    /\ \E build \in Builds :
           proc = [r \in Replicas |-> [pc |-> "off", last |-> 0, build |-> build[r]]]
    /\ spoilt = {}
    /\ faults = 0

-----------------------------------------------------------------------------
At(r, pc) == proc[r].pc = pc
Goto(r, pc) == proc' = [proc EXCEPT ![r].pc = pc]
Fault == faults < MaxFaults /\ faults' = faults + 1
Release(r) == advisory' = IF advisory = r THEN NoOne ELSE advisory

Latest(d) == IF \E m \in Migrations : d.journal[m] > 0
             THEN CHOOSE m \in Migrations : d.journal[m] > 0 /\ \A n \in Migrations : d.journal[n] > 0 => n <= m
             ELSE 0

(* Configuration. *)

\* boolEnv knows the spellings of "on"; coerceBool takes any text for it.
On(f) == \/ env.flag[f] = "true"
         \/ f \in Coerced /\ env.flag[f] = "false"

Secured == env.secret
Connected == \A f \in Features : On(f) => env.endpoint[f]
Sized == env.pool > 0
Loads == Secured /\ Connected /\ Sized

Start(r) ==
    /\ At(r, "off") /\ Goto(r, "load")
    /\ UNCHANGED <<env, db, advisory, spoilt, faults>>

Load(r) ==
    /\ At(r, "load") /\ Goto(r, IF Loads THEN "acquire" ELSE "off")
    /\ UNCHANGED <<env, db, advisory, spoilt, faults>>

-----------------------------------------------------------------------------
(* Migrate. *)

Connect(r) ==
    /\ At(r, "acquire") /\ Goto(r, "lock")
    /\ UNCHANGED <<env, db, advisory, spoilt, faults>>

\* Mutant: the lock is taken without waiting for it.
LockTaken(r) ==
    /\ At(r, "lock")
    /\ advisory' = r /\ Goto(r, "cleanup")
    /\ UNCHANGED <<env, db, spoilt, faults>>

Lock(r) ==
    /\ At(r, "lock") /\ advisory = NoOne
    /\ advisory' = r /\ Goto(r, "cleanup")
    /\ UNCHANGED <<env, db, spoilt, faults>>

\* A statement runs on a second connection, next to the one that holds the lock.
Statement(r, pc) == At(r, pc) /\ env.pool > 1

Cleanup(r) ==
    /\ Statement(r, "cleanup") /\ Goto(r, "auth")
    /\ db' = [db EXCEPT !.legacy = FALSE]
    /\ UNCHANGED <<env, advisory, spoilt, faults>>

BetterAuth(r) ==
    /\ Statement(r, "auth") /\ Goto(r, "journal")
    /\ db' = [db EXCEPT !.users = TRUE]
    /\ UNCHANGED <<env, advisory, spoilt, faults>>

\* The newest recorded migration; one that is newer than this build is refused.
ReadJournal(r) ==
    /\ Statement(r, "journal")
    /\ IF Latest(db) > proc[r].build
       THEN Goto(r, "retry") /\ Release(r)
       ELSE proc' = [proc EXCEPT ![r].pc = "apply", ![r].last = Latest(db)] /\ UNCHANGED advisory
    /\ UNCHANGED <<env, db, spoilt, faults>>

\* Everything newer than what was read, in one transaction, which fails as a whole when
\* one of its statements does.
Missing(r) == {m \in Migrations : proc[r].last < m /\ m <= proc[r].build}
CanApply(r) == \A m \in Missing(r) : /\ db.journal[m] = 0 \/ m \in Rerunnable
                                     /\ m \in OfUsers => db.users

Apply(r) ==
    /\ Statement(r, "apply")
    /\ IF CanApply(r)
       THEN /\ db' = [db EXCEPT !.journal = [m \in Migrations |->
                          IF m \in Missing(r) THEN @[m] + 1 ELSE @[m]]]
            /\ Goto(r, "column") /\ UNCHANGED advisory
       ELSE Goto(r, "retry") /\ Release(r) /\ UNCHANGED db
    /\ UNCHANGED <<env, spoilt, faults>>

\* ensureFtsExtras: two statements that must work, and one that may fail.
AddColumn(r) ==
    /\ Statement(r, "column") /\ Goto(r, "index")
    /\ db' = [db EXCEPT !.fts = IF @ = "none" THEN "column" ELSE @]
    /\ UNCHANGED <<env, advisory, spoilt, faults>>

AddIndex(r) ==
    /\ Statement(r, "index") /\ Goto(r, "unique")
    /\ db' = [db EXCEPT !.fts = "index"]
    /\ UNCHANGED <<env, advisory, spoilt, faults>>

AddUnique(r) ==
    /\ Statement(r, "unique") /\ Goto(r, "unlock")
    /\ db' = [db EXCEPT !.unique = @ \/ ~db.twins]
    /\ UNCHANGED <<env, advisory, spoilt, faults>>

UniqueFails(r) ==
    /\ At(r, "unique") /\ Fault /\ Goto(r, "unlock")
    /\ spoilt' = spoilt \cup {"unique"}
    /\ UNCHANGED <<env, db, advisory>>

\* Mutant: the connection goes back to the pool with the lock on it.
UnlockKept(r) ==
    /\ At(r, "unlock") /\ UNCHANGED advisory
    /\ Goto(r, IF env.admin THEN "seed" ELSE "serving")
    /\ UNCHANGED <<env, db, spoilt, faults>>

Unlock(r) ==
    /\ At(r, "unlock") /\ Release(r)
    /\ Goto(r, IF env.admin THEN "seed" ELSE "serving")
    /\ UNCHANGED <<env, db, spoilt, faults>>

\* A statement fails: the lock goes with the call of Migrate, and 2 s later there is another.
StatementFails(r) ==
    /\ proc[r].pc \in Migrating \ {"unique", "unlock"} /\ Fault
    /\ Goto(r, "retry") /\ Release(r)
    /\ UNCHANGED <<env, db, spoilt>>

Retry(r) ==
    /\ At(r, "retry") /\ Goto(r, "acquire")
    /\ UNCHANGED <<env, db, advisory, spoilt, faults>>

\* The deadline: an accident, but the only way out of waiting for a connection that never
\* comes, or for a schema that is too new.
Deadline(r) ==
    /\ \/ proc[r].pc \in Migrating \cup {"retry"} /\ Fault
       \/ UNCHANGED faults /\ \/ At(r, "cleanup") /\ env.pool = 1
                              \/ At(r, "retry") /\ Latest(db) > proc[r].build
    /\ Goto(r, "off") /\ Release(r)
    /\ UNCHANGED <<env, db, spoilt>>

\* The connection that holds the lock breaks.  The others do not notice.
LoseLock(r) ==
    /\ advisory = r /\ Fault
    /\ advisory' = NoOne
    /\ spoilt' = spoilt \cup {"lock"}
    /\ UNCHANGED <<env, db, proc>>

-----------------------------------------------------------------------------
(* seedBootstrapAdmin: it counts, it creates, and if the address is taken it promotes. *)

CountAdmins(r) ==
    /\ At(r, "seed")
    /\ Goto(r, IF db.boot = "admin" \/ db.other THEN "serving" ELSE "create")
    /\ UNCHANGED <<env, db, advisory, spoilt, faults>>

\* The address is unique: a second insert that did not see the first one fails.
CreateUser(r) ==
    /\ At(r, "create")
    /\ db' = [db EXCEPT !.boot = IF @ = "none" THEN "admin" ELSE @]
    /\ \/ Goto(r, IF db.boot = "none" THEN "serving" ELSE "promote")
       \/ db.boot = "admin" /\ Goto(r, "serving")
    /\ UNCHANGED <<env, advisory, spoilt, faults>>

Promote(r) ==
    /\ At(r, "promote") /\ Goto(r, "serving")
    /\ db' = [db EXCEPT !.boot = "admin"]
    /\ UNCHANGED <<env, advisory, spoilt, faults>>

\* Logged, never fatal.
SeedFails(r) ==
    /\ proc[r].pc \in {"seed", "create", "promote"} /\ Fault
    /\ Goto(r, "serving")
    /\ spoilt' = spoilt \cup {"seed"}
    /\ UNCHANGED <<env, db, advisory>>

-----------------------------------------------------------------------------
(* The end of a process. *)

\* SIGTERM closes the listener; the process ends when the background loops have finished
\* their ticks, whatever the requests are at.
Stop(r) ==
    /\ At(r, "serving") /\ Fault
    /\ Goto(r, "draining")
    /\ UNCHANGED <<env, db, advisory, spoilt>>

JobsDone(r) ==
    /\ At(r, "draining") /\ Goto(r, "off")
    /\ UNCHANGED <<env, db, advisory, spoilt, faults>>

Crash(r) ==
    /\ ~At(r, "off") /\ Fault
    /\ Goto(r, "off") /\ Release(r)
    /\ UNCHANGED <<env, db, spoilt>>

Proceed(r) ==
    \/ Start(r) \/ Load(r)
    \/ Connect(r) \/ Lock(r) \/ Cleanup(r) \/ BetterAuth(r) \/ ReadJournal(r) \/ Apply(r)
    \/ AddColumn(r) \/ AddIndex(r) \/ AddUnique(r) \/ Unlock(r) \/ Retry(r)
    \/ CountAdmins(r) \/ CreateUser(r) \/ Promote(r) \/ JobsDone(r)

Mishap(r) ==
    \/ StatementFails(r) \/ UniqueFails(r) \/ Deadline(r) \/ LoseLock(r) \/ SeedFails(r) \/ Stop(r) \/ Crash(r)

StartupNext == \E r \in Replicas : Proceed(r) \/ Mishap(r)

StartupSpec == StartupInit /\ [][StartupNext]_startupVars

\* The orchestrator restarts a process that ended, a process goes on, and the database
\* hands the lock on in the order of the requests.
Fairness == \A r \in Replicas : WF_startupVars(Proceed(r)) /\ SF_startupVars(Lock(r))

-----------------------------------------------------------------------------
Serving(r) == proc[r].pc = "serving"

(* A process serves only over a schema that holds everything its build needs:  *)
(* each of its migrations, Better Auth's tables, the full text index, and the   *)
(* index against twins unless there are twins or it could not be built.  No     *)
(* migration is applied twice, but one that can be run again, after the lock    *)
(* was lost with its connection.                                                *)
SchemaReady ==
    /\ \A r \in Replicas : Serving(r) =>
           /\ \A m \in 1..proc[r].build : db.journal[m] > 0
           /\ db.users /\ db.fts = "index" /\ ~db.legacy
           /\ db.unique \/ db.twins \/ "unique" \in spoilt
    /\ \A m \in Migrations : db.journal[m] <= 1 \/ (m \in Rerunnable /\ "lock" \in spoilt)

(* Once a process that was given a bootstrap admin serves, there is an admin,   *)
(* whether the address was new, was taken, or several processes came up at      *)
(* once, unless a statement of the seeding failed.                              *)
AdminReady ==
    (\E r \in Replicas : Serving(r)) /\ env.admin => db.boot = "admin" \/ db.other \/ "seed" \in spoilt

\* Whoever serves finds the schema of its build and an admin.
ReadyToServe == SchemaReady /\ AdminReady

(* A process that can read its configuration and has a second connection ends   *)
(* up serving for good, whatever went wrong on the way, unless the schema moved *)
(* past its build.                                                              *)
ServesForGood ==
    \A r \in Replicas : Loads /\ env.pool > 1 => <>[](Serving(r) \/ Latest(db) > proc[r].build)
=============================================================================
