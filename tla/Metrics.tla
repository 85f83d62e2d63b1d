------------------------------ MODULE Metrics -------------------------------
(***************************************************************************)
(* The request counters of a replica and their way to Postgres.  Every     *)
(* served request is counted twice in the memory of the replica: in its    *)
(* user's slot for the 24h chart (pending, moved to metrics_samples) and   *)
(* in a lifetime total (posted to metrics_counters by difference with a    *)
(* baseline).  Once a minute one loop drains both, writes them, and puts   *)
(* back what it could not write.  A dashboard read adds the shared total   *)
(* to what its own replica has not posted yet.                             *)
(*                                                                         *)
(* Of the counters, one that sums the slots (queries_total) and one kept   *)
(* beside them (decay_runs_total) stand for all.  The rows of              *)
(* metrics_samples are those younger than 25 hours, which the prune that   *)
(* ends a tick leaves alone; the buckets of a user are added up.  A row    *)
(* is kept as the contributions of the processes that added to it.         *)
(***************************************************************************)
EXTENDS Integers, FiniteSets, FiniteSetsExt

CONSTANTS
    Replicas,
    Users,          \* identities requests run as
    Accounts,       \* those with a row in "user" at the start
    MaxTracked,     \* maxTracked of the code: slots of a collector
    MaxServed,      \* bound: observations of each counter in the deployment
    MaxFaults       \* bound: failed writes, crashes, deletions of users

ASSUME MetricsAssumption ==
    /\ IsFiniteSet(Replicas)
    /\ IsFiniteSet(Users)
    /\ Accounts \subseteq Users
    /\ MaxTracked \in Nat \ {0}

VARIABLES
    tracked,    \* collector: the users with a slot
    count,      \* collector: queries counted in a user's slot
    pending,    \* collector: those not drained to samples
    runs,       \* collector: global.decayRuns
    flushed,    \* collector: each counter at the last flush
    job,        \* the flush loop's locals
    samples,    \* metrics_samples: what a running process has added for a user
    posted,     \* metrics_counters: what a running process has added
    past,       \* metrics_counters: what processes that ended had added
    accounts,   \* rows of "user"
    snap,       \* a dashboard read between its two halves
    served,     \* history: observations of each counter, ever
    evicted,    \* history: users whose slot this process has dropped
    doubted,    \* history: keys a write was reported failed for, but committed
    faults

vars == <<tracked, count, pending, runs, flushed, job, samples, posted, past,
          accounts, snap, served, evicted, doubted, faults>>

slots == <<tracked, count, pending, evicted>>
totals == <<runs, flushed>>
tables == <<samples, posted, past, accounts>>

Counters == {"queries_total", "decay_runs_total"}
NoBatch == [u \in Users |-> 0]
NoDelta == [n \in Counters |-> 0]
Resting == [pc |-> "idle", batch |-> NoBatch, delta |-> NoDelta]
NoSnap == [on |-> FALSE]

TypeOK ==
    /\ tracked \in [Replicas -> SUBSET Users]
    /\ \A r \in Replicas : Cardinality(tracked[r]) <= MaxTracked
    /\ count \in [Replicas -> [Users -> Nat]]
    /\ pending \in [Replicas -> [Users -> Nat]]
    /\ runs \in [Replicas -> Nat]
    /\ flushed \in [Replicas -> [Counters -> Int]]
    /\ job \in [Replicas -> [pc : {"idle", "write", "restore", "drain", "post", "undo"},
                             batch : [Users -> Nat], delta : [Counters -> Int]]]
    /\ samples \in [Replicas -> [Users -> Nat]]
    /\ posted \in [Replicas -> [Counters -> Int]]
    /\ past \in [Counters -> Int]
    /\ accounts \subseteq Users
    /\ snap = NoSnap \/ snap \in [on : {TRUE}, at : Replicas, own : [Counters -> Int],
                                  crossed : BOOLEAN]
    /\ served \in [Counters -> Nat]
    /\ evicted \in [Replicas -> SUBSET Users]
    /\ doubted \in [Replicas -> SUBSET (Users \cup Counters)]
    /\ faults \in Nat

Init ==
    /\ tracked = [r \in Replicas |-> {}]
    /\ count = [r \in Replicas |-> NoBatch]
    /\ pending = [r \in Replicas |-> NoBatch]
    /\ runs = [r \in Replicas |-> 0]
    /\ flushed = [r \in Replicas |-> NoDelta]
    /\ job = [r \in Replicas |-> Resting]
    /\ samples = [r \in Replicas |-> NoBatch]
    /\ posted = [r \in Replicas |-> NoDelta]
    /\ past = NoDelta
    /\ accounts = Accounts
    /\ snap = NoSnap
    /\ served = NoDelta
    /\ evicted = [r \in Replicas |-> {}]
    /\ doubted = [r \in Replicas |-> {}]
    /\ faults = 0

Plus(f, g) == [x \in DOMAIN f |-> f[x] + g[x]]
Minus(f, g) == [x \in DOMAIN f |-> f[x] - g[x]]
Support(f) == {x \in DOMAIN f : f[x] # 0}
Total(f, S) == MapThenSumSet(LAMBDA x : f[x], S)

Goto(r, pc) == job' = [job EXCEPT ![r].pc = pc]
Fault == faults < MaxFaults /\ faults' = faults + 1

-----------------------------------------------------------------------------
(* Counting.  A user without a slot gets one, and when the map is full the least   *)
(* recently seen slots make room: any slot may be that.  What a dropped slot still *)
(* held is gone.  A batch that is put back takes its slots one by one, so that one *)
(* may push out another that comes later and starts over.                          *)

\* Slots kept and slots dropped when the users us are touched in some order.
Evictions(r, us) ==
    LET all == tracked[r] \cup us
    IN  IF Cardinality(all) <= MaxTracked
        THEN {[keep |-> all, drop |-> {}]}
        ELSE {e \in [keep : kSubset(MaxTracked, all), drop : SUBSET tracked[r]] :
                 /\ tracked[r] \ e.keep \subseteq e.drop
                 /\ e.drop \cap e.keep \subseteq us
                 /\ e.keep \cap us # {}}

\* slotLocked for us, then what the caller adds to the slots.
Touch(r, us, queries, owed) ==
    \E e \in Evictions(r, us) :
        LET Left(f, u) == IF u \in e.drop THEN 0 ELSE f[r][u]
            Slot(f, add, u) == IF u \in e.keep THEN Left(f, u) + add[u] ELSE 0
        IN  /\ tracked' = [tracked EXCEPT ![r] = e.keep]
            /\ count' = [count EXCEPT ![r] = [u \in Users |-> Slot(count, queries, u)]]
            /\ pending' = [pending EXCEPT ![r] = [u \in Users |-> Slot(pending, owed, u)]]
            /\ evicted' = [evicted EXCEPT ![r] = @ \cup e.drop \cup (us \ e.keep)]

\* A request of u was served (withAuth).  The user may be gone by now, or never
\* have had an account: the shared identity of the modes none and bearer, and the
\* identities of service keys, have no row in "user".
Record(r, u) ==
    /\ served["queries_total"] < MaxServed["queries_total"]
    /\ served' = [served EXCEPT !["queries_total"] = @ + 1]
    /\ LET one == [NoBatch EXCEPT ![u] = 1] IN Touch(r, {u}, one, one)
    /\ UNCHANGED <<totals, tables, job, snap, doubted, faults>>

MarkDecayRun(r) ==
    /\ served["decay_runs_total"] < MaxServed["decay_runs_total"]
    /\ served' = [served EXCEPT !["decay_runs_total"] = @ + 1]
    /\ runs' = [runs EXCEPT ![r] = @ + 1]
    /\ UNCHANGED <<slots, tables, flushed, job, snap, doubted, faults>>

-----------------------------------------------------------------------------
(* The flush loop, one tick after the other. *)

\* Mutant: a single observation is not worth a row.
DrainSamplesFromTwo(r) ==
    /\ job[r].pc = "idle"
    /\ LET batch == [u \in Users |-> IF pending[r][u] > 1 THEN pending[r][u] ELSE 0]
       IN  /\ job' = [job EXCEPT ![r].batch = batch,
                                 ![r].pc = IF Support(batch) = {} THEN "drain" ELSE "write"]
           /\ pending' = [pending EXCEPT ![r] = Minus(@, batch)]
    /\ UNCHANGED <<totals, tables, tracked, count, snap, served, evicted, doubted, faults>>

\* DrainSamples takes and zeroes what the slots owe; nothing owed, nothing written.
DrainSamples(r) ==
    /\ job[r].pc = "idle"
    /\ job' = [job EXCEPT ![r].batch = pending[r],
                          ![r].pc = IF Support(pending[r]) = {} THEN "drain" ELSE "write"]
    /\ pending' = [pending EXCEPT ![r] = NoBatch]
    /\ UNCHANGED <<totals, tables, tracked, count, snap, served, evicted, doubted, faults>>

\* What the upsert leaves in the rows: ON CONFLICT adds.
Upsert(rows, batch) == Plus(rows, batch)

\* RecordMetricsSamples is one statement: all rows or none, and none when one of the
\* users has no row for metrics_samples_user_fk.
Insertable(batch) == Support(batch) \subseteq accounts

RecordMetricsSamples(r) ==
    /\ job[r].pc = "write"
    /\ Insertable(job[r].batch)
    /\ samples' = [samples EXCEPT ![r] = Upsert(@, job[r].batch)]
    /\ job' = [job EXCEPT ![r].batch = NoBatch, ![r].pc = "drain"]
    /\ UNCHANGED <<slots, totals, posted, past, accounts, snap, served, doubted, faults>>

\* The statement is refused, or fails, or commits and its answer is lost.
SamplesFail(r) ==
    /\ job[r].pc = "write"
    /\ Goto(r, "restore")
    /\ \/ ~Insertable(job[r].batch) /\ UNCHANGED <<samples, doubted, faults>>
       \/ Fault /\ UNCHANGED <<samples, doubted>>
       \/ /\ Fault
          /\ Insertable(job[r].batch)
          /\ samples' = [samples EXCEPT ![r] = Upsert(@, job[r].batch)]
          /\ doubted' = [doubted EXCEPT ![r] = @ \cup Support(job[r].batch)]
    /\ UNCHANGED <<slots, totals, posted, past, accounts, snap, served>>

\* Mutant: the restore overwrites what was counted meanwhile.
RestoreSamplesOverwrites(r) ==
    /\ job[r].pc = "restore"
    /\ pending' = [pending EXCEPT ![r] = [u \in Users |->
                      IF u \in tracked[r] /\ job[r].batch[u] > 0 THEN job[r].batch[u] ELSE @[u]]]
    /\ job' = [job EXCEPT ![r] = Resting]
    /\ UNCHANGED <<totals, tables, tracked, count, evicted, snap, served, doubted, faults>>

\* RestoreSamples adds the batch to the slots; the tick ends without the counters.
RestoreSamples(r) ==
    /\ job[r].pc = "restore"
    /\ Touch(r, Support(job[r].batch), NoBatch, job[r].batch)
    /\ job' = [job EXCEPT ![r] = Resting]
    /\ UNCHANGED <<totals, tables, snap, served, doubted, faults>>

\* What the process counts under each name; the caller holds the collector's lock.
localCounters(r) ==
    [n \in Counters |-> IF n = "queries_total" THEN Total(count[r], tracked[r]) ELSE runs[r]]

\* What a replica owes the shared totals.  It is negative when slots were dropped.
Owed(r) == Minus(localCounters(r), flushed[r])

\* DrainCounters takes the difference with the baseline, and moves the baseline.
DrainCounters(r) ==
    /\ job[r].pc = "drain"
    /\ job' = [job EXCEPT ![r].delta = Owed(r),
                          ![r].pc = IF Support(Owed(r)) = {} THEN "idle" ELSE "post"]
    /\ flushed' = [flushed EXCEPT ![r] = localCounters(r)]
    /\ UNCHANGED <<slots, tables, runs, snap, served, doubted, faults>>

\* A read that began on r has r's increment in its hands: it is crossed from here.
Posting(r) ==
    /\ posted' = [posted EXCEPT ![r] = Plus(@, job[r].delta)]
    /\ snap' = IF snap.on /\ snap.at = r THEN [snap EXCEPT !.crossed = TRUE] ELSE snap

CounterDeltas(r) ==
    /\ job[r].pc = "post"
    /\ Posting(r)
    /\ job' = [job EXCEPT ![r] = Resting]
    /\ UNCHANGED <<slots, totals, samples, past, accounts, served, doubted, faults>>

CountersFail(r) ==
    /\ job[r].pc = "post"
    /\ Fault
    /\ Goto(r, "undo")
    /\ \/ UNCHANGED <<posted, snap, doubted>>
       \/ /\ Posting(r)
          /\ doubted' = [doubted EXCEPT ![r] = @ \cup Support(job[r].delta)]
    /\ UNCHANGED <<slots, totals, samples, past, accounts, served>>

\* Mutant: the baseline is rolled forward.
RestoreCountersForward(r) ==
    /\ job[r].pc = "undo"
    /\ flushed' = [flushed EXCEPT ![r] = Plus(@, job[r].delta)]
    /\ job' = [job EXCEPT ![r] = Resting]
    /\ UNCHANGED <<slots, tables, runs, snap, served, doubted, faults>>

\* Mutant: the failed deltas are dropped.
RestoreCountersDropped(r) ==
    /\ job[r].pc = "undo"
    /\ job' = [job EXCEPT ![r] = Resting]
    /\ UNCHANGED <<slots, totals, tables, snap, served, doubted, faults>>

\* RestoreCounters rolls the baseline back.
RestoreCounters(r) ==
    /\ job[r].pc = "undo"
    /\ flushed' = [flushed EXCEPT ![r] = Minus(@, job[r].delta)]
    /\ job' = [job EXCEPT ![r] = Resting]
    /\ UNCHANGED <<slots, tables, runs, snap, served, doubted, faults>>

-----------------------------------------------------------------------------
(* The dashboard, the accounts and the processes. *)

\* Snapshot, first half: what this replica has not flushed, under the lock.
SnapshotLocal(r) ==
    /\ ~snap.on
    /\ snap' = [on |-> TRUE, at |-> r, own |-> Owed(r), crossed |-> FALSE]
    /\ UNCHANGED <<slots, totals, tables, job, served, doubted, faults>>

\* The shared totals, and the value a read that reads them now would show.
Shared(n) == past[n] + Total([r \in Replicas |-> posted[r][n]], Replicas)
Shown(n) == Shared(n) + snap.own[n]

\* Second half: the shared totals are read, and the sum is returned.
SnapshotShared ==
    /\ snap.on
    /\ snap' = NoSnap
    /\ UNCHANGED <<slots, totals, tables, job, served, doubted, faults>>

\* DeleteUserData and DeleteBAUser: the row goes and its samples with it.  The
\* collectors are not told.
DeleteUser(u) ==
    /\ u \in accounts
    /\ Fault
    /\ accounts' = accounts \ {u}
    /\ samples' = [r \in Replicas |-> [samples[r] EXCEPT ![u] = 0]]
    /\ UNCHANGED <<slots, totals, job, posted, past, snap, served, doubted>>

\* The process ends and a new one starts; a counter write that was under way may
\* have committed.
Restart(r) ==
    /\ Fault
    /\ \E late \in {NoDelta, IF job[r].pc = "post" THEN job[r].delta ELSE NoDelta} :
          past' = [n \in Counters |-> past[n] + posted[r][n] + late[n]]
    /\ posted' = [posted EXCEPT ![r] = NoDelta]
    /\ samples' = [samples EXCEPT ![r] = NoBatch]
    /\ tracked' = [tracked EXCEPT ![r] = {}]
    /\ count' = [count EXCEPT ![r] = NoBatch]
    /\ pending' = [pending EXCEPT ![r] = NoBatch]
    /\ runs' = [runs EXCEPT ![r] = 0]
    /\ flushed' = [flushed EXCEPT ![r] = NoDelta]
    /\ job' = [job EXCEPT ![r] = Resting]
    /\ evicted' = [evicted EXCEPT ![r] = {}]
    /\ snap' = IF snap.on /\ snap.at = r THEN NoSnap ELSE snap
    /\ UNCHANGED <<accounts, served, doubted>>

Next ==
    \/ \E r \in Replicas :
        \/ \E u \in Users : Record(r, u)
        \/ MarkDecayRun(r)
        \/ DrainSamples(r)
        \/ RecordMetricsSamples(r)
        \/ SamplesFail(r)
        \/ RestoreSamples(r)
        \/ DrainCounters(r)
        \/ CounterDeltas(r)
        \/ CountersFail(r)
        \/ RestoreCounters(r)
        \/ SnapshotLocal(r)
        \/ Restart(r)
    \/ SnapshotShared
    \/ \E u \in Users : DeleteUser(u)

Spec == Init /\ [][Next]_vars

\* The ticker of a replica goes on for as long as the process runs.
Flush(r) ==
    \/ DrainSamples(r) \/ RecordMetricsSamples(r) \/ SamplesFail(r) \/ RestoreSamples(r)
    \/ DrainCounters(r) \/ CounterDeltas(r) \/ CountersFail(r) \/ RestoreCounters(r)

FairSpec == Spec /\ \A r \in Replicas : WF_vars(Flush(r))

-----------------------------------------------------------------------------
\* A user whose observations this process has neither dropped nor written twice, and
\* whose rows were not deleted.
Intact(r, u) ==
    u \notin evicted[r] /\ u \notin doubted[r] /\ (u \in Accounts => u \in accounts)

\* Every request the slot of a user counts is in one place: stored in the chart's rows,
\* in the hands of the flush, or waiting in the slot.  Drain, failed write and restore
\* move it and neither lose nor copy it, whatever is counted meanwhile.
SamplesConserved ==
    \A r \in Replicas, u \in Users : Intact(r, u) =>
        samples[r][u] + job[r].batch[u] + pending[r][u] = count[r][u]

\* The shared total has from a process all it counted but what is being posted and what
\* the next flush finds owed.
CountersConserved ==
    \A r \in Replicas, n \in Counters : n \notin doubted[r] =>
        posted[r][n] + job[r].delta[n] + Owed(r)[n] = localCounters(r)[n]

\* A lifetime total falls only when a collector has dropped slots.
TotalsFallOnlyAfterEviction ==
    [][(\A r \in Replicas : evicted[r] = {})
        => \A n \in Counters : Shared(n)' >= Shared(n)]_vars

\* The flush of r holds a sample of an identity without an account.
Blocked(r) ==
    \E u \in Users \ accounts : job[r].batch[u] + pending[r][u] > 0

\* What a slot owes the chart is stored in the end, or gone with its slot or process,
\* unless a sample that cannot be stored is in the way.
SamplesEventuallyStored ==
    \A r \in Replicas, u \in Users :
        (pending[r][u] > 0) ~> (job[r].batch[u] + pending[r][u] = 0 \/ Blocked(r))

=============================================================================
