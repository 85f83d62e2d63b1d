# NovaMem, modelled in TLA+

NovaMem (`src/go`) stores memories of agents: a *warm* row in Postgres, an embedding in a
*cold* vector store (pgvector or Qdrant), facts distilled from the text by an LLM, and graph
edges between similar memories. A write returns once the warm row is committed; everything
else happens afterwards, next to other requests, on any replica, and may fail. What makes the
system correct is that nothing is lost, resurrected or half deleted on the way, and that nobody
reaches what is not theirs. These specifications model that part, statement by statement.

Contents: [inventory](#inventory) · [modules](#modules) · [runs](#runs) ·
[fairness](#fairness) · [proofs](#proofs) · [checked, not proved](#checked-not-proved) ·
[where code and comments disagree](#where-code-and-comments-disagree) ·
[not modelled](#not-modelled) · [plan](#plan)

## Inventory

Paths are relative to `src/go/internal` unless they start with `cmd`.

| component | state | operations | correct when | module |
|---|---|---|---|---|
| write path (`engine/engine.go`) | `memory_entries` row: text, shelf, `embedded_at`, debt markers | remember, update, forget by id, forget by source | a stored entry is searchable or queued; a forgotten one is gone or queued | `VectorTier` |
| embedding reconciler, cold-orphan reaper (`engine/jobs.go`) | rows without `embedded_at`; `cold_orphans` | list, embed or delete, stamp or settle | both queues drain | `VectorTier` |
| cold stores (`coldstore/`) | one point per entry and shelf | upsert, delete, drop by scope | a failed call is reported, even if it took effect | `VectorTier`, `Teardown` |
| capture (`engine/engine.go`) | successor of a row, source references | probe, overwrite, supersede, compensate | contradictory memories are not both visible, sources stay known | `Capture` |
| fact extraction (`engine/facts.go`) | `facts_pending_at`, facts with their source | detached extraction, reconciler | a fact says what its source says; every text is extracted | `FactExtraction` |
| graph enrichment (`engine/engine.go`, `search.go`) | `graph_pending_at`, `memory_relations`, tasks in flight | capped task, reconciler, neighbours | every debt is paid, edges join stored entries | `Enrichment` |
| row locks (`warmstore/`) | Postgres row locks of four tables | every multi-table transaction | no deadlock, entries deleted whole | `RowLocks` |
| decay, TTL, retention, changelog (`engine/jobs.go`) | `expiresAt`, age, `memory_changes` | demote, reap, forget, orphans | only due entries go, their vectors too | `Expiry` |
| dream cycle (`engine/dream.go`) | walk cursor, all rows of an entry | list, judge, merge | the survivor inherits, the loser goes whole | `Dream` |
| teardown, accounts (`warmstore/projects.go`, `admin.go`, `httpapi/authadmin.go`) | users, projects, members, roles | delete a user or project, change roles | nothing of the scope is left, nothing else is touched, somebody is in charge | `Teardown` |
| metrics (`metrics/`, `jobs/`) | slots and counters in memory, two tables | record, drain, write, restore | nothing lost or counted twice | `Metrics` |
| limits (`httpapi/ratelimit.go`, `auth/auth.go`, quotas) | windows, logs, cached counts per replica | take, check, record a failure | budgets hold, but for what passes abreast | `Limits` |
| embedder client (`embeddings/`) | query cache, failure signal | embed, share, retry, evict | one caller's failure is not another's, nothing is served too long | `Embedder` |
| search (`engine/search.go`, `hybrid.go`) | reads; bumps access | search, rank, filter | nothing findable missed, nothing hidden answered | `Search` |
| dashboard sessions (`httpapi/auth*.go`, `warmstore/auth.go`) | sessions, passwords, bans | sign in, refresh, ban, impersonate | the shut out stay out, the active stay in | `Sessions` |
| who may do what (`httpapi/auth.go`, `dataplane.go`, `me.go`, `mcp.go`) | projects, members, tokens, service keys | admit a call, resolve its scope | both doors confine alike, rotation gives nothing away | `Doors` |
| MCP transport (`mcp/`, `cmd/novamem-mcp`) | sessions per replica, the bridge's posts | open, adopt, reap, relay | each request is answered once | `Mcp` |
| startup (`cmd/novamem-server`, `warmstore/migrations.go`) | schema, advisory lock, bootstrap admin | migrate, seed, serve | nobody serves an unfit schema; all get to serve | `Startup` |
| installer (`initcli/`, `cmd/novamem-init`) | configuration files of agent hosts | probe, mint, merge, save | owners keep what is theirs | `Install` |
| SDKs, admin UI, benchmarks, generators | none that the system depends on | | | not modelled |

Components meet in three ways. *Calls*: a handler calls the warm store, the embedder, the cold
store, one after the other. *Shared rows*: `embedded_at`, `facts_pending_at`,
`graph_pending_at` and `cold_orphans` are queues that a handler fills and a background loop
drains. *Detached goroutines*: extraction, enrichment and the refresh of a session outlive the
request that started them.

Hard behaviours: operations on the same entry interleave between any two statements, on any
number of replicas, without a lock held across them; a call to the cold store may fail and
still have happened; a crash, a deadline or a cancelled request stops an operation between two
statements; background work acts on rows it listed a while ago; transactions lock several
tables. `PROJECT.json` lists the places ("hazards"), each with its line and the properties
aimed at it.

## Modules

In all modules an operation is cut wherever the code commits a statement or calls out; each
process has a record with the local variables its code carries from one statement to the next.
*History* variables record accidents in the code's own terms, so that a promise can be stated for
exactly the histories in which the code can keep it. These exemptions are the code's gaps, not
the model's convenience: each was found as a counterexample of the stronger property, and is
listed among the hazards or the findings. Definitions commented "Mutant" are the deliberate bugs
each property is tested against; no specification uses them.

**`EntryLife`** is the abstract promise: a memory is stored, is reworded, is forgotten for good;
while it is embedded it is found under some wording it has had, and only a forget takes that away.

**`VectorTier`**: one entry in two stores, and the implementation of `EntryLife`. State: `row`,
`vec` (the version of the vector on each shelf), `orphan`, `op`, `mark`. A text is a version number
and an embedding is the version it was computed from, so "the vector is stale" is a comparison.

    remember   PersistRemember -> UpsertOk -> Stamp                 (engine.go 424-569)
                               -> UpsertFails -> ParkMissingVector
                               -> EmbedEmpty | EmbedFails
    dedup hit  DedupHit -> BackfillProbe -> UpsertOk -> ClearMissingVector
    update     UpdateContent -> UpdateReread -> UpsertOk -> Stamp
                                             -> UpdateRequeue | UpsertFails
    forget     ForgetRead -> WarmDelete -> ColdDeleteOk
               ForgetBySource ->           ColdDeleteFails -> ParkOrphan
    reconcile  ReconcileList -> UpsertOk -> Stamp -> ClearMissingVector
    reap       ReapList -> BackfillLoad -> UpsertOk -> Stamp -> ReapSettle
                        -> ColdDeleteOk -> ReapSettle,   or a failure -> ReapFailed

`PersistRaced` is the loser of the insert race, `UpdateNamespace` an update without content,
`Abort` the end of an operation at any point.

**`FactExtraction`**: `chunk`, `owner` (the source of each fact text; a content hash admits one row
per text), `hand`, `work`. An extraction is `Extract` (the LLM answered; `sourceMoved` is checked),
`StoreFact` per fact, `AllStored`, `Settle` (clears the marker where the hash still matches); an
update is `UpdateText`, `HandDelete`, `Rearm`, `Spawn`; a forget `Forget`, `HandDelete`; `Claim` is
the reconciler's claim-on-read.

**`RowLocks`**: `rows`, `lock`, `txn`. A code path is the sequence of tables its statements touch; a
statement turns to its rows one after the other (`Pick`), in key order only where the code sorts
(`Sorted`), and waits (`Acquire`). `Commit` cascades; `Victim` is Postgres breaking a cycle.

**`Metrics`**, per replica: slots (`tracked`, `count`, `pending`), `runs`, the baseline `flushed`, the
loop's locals `job`; shared: `samples`, `posted`, `past`, `accounts`. A tick is `DrainSamples ->
RecordMetricsSamples -> DrainCounters -> CounterDeltas`, or `SamplesFail -> RestoreSamples`, or
`CountersFail -> RestoreCounters`, and requests land between any two of them.

**`Capture`**: `row` (text and successor), `vec`, `refs`, `op`. A capture searches for the closest
visible memory, then overwrites it (`Extends`), or stores a new row and marks the old one in a second
statement (`Contradicts`) with a compensating forget if that fails, or stores like a remember. How
close two texts are is a relation among constants.

**`Enrichment`**: ids are numbers in the order of their debt markers, and `Rank` says for each id how near
the others are; a task per entry under a cap and one reconciler per replica search (`Targets`), link the
nearest left (`NextHit`) and clear; a reader walks the edges both ways (`Walks`, each walk as where it
ends and what it has visited).

**`Expiry`**: the decay pass (`ReapList`, `ReapDelete`, `ReapCold`, `ReapChanges`, orphans) and the
retention pass (`RetentionList`, then forget, clean, change per entry) over what they listed; a TTL is
none, ahead, past or unreadable. `met` records what requests changed since a pass listed it, and, for
the retention pass alone, what a decay pass demoted: a demotion writes `updated_at`, the one column
retention selects by. `tries` are the attempts of an orphan, given up at `MaxAttempts`.

**`Dream`**: a walk lists a slice, moves the cursor and judges each entry against its neighbours; a
merge is seven committed statements and the cold delete, next to requests and a second walk. The loser
ends as "merged": a vector the cold delete left behind is neither parked nor retried.

**`Teardown`**: `users`, `admins`, `owner`, `members`, `entry`, `vec`, `parked`, `call`. Deleting a user
is a loop over the owned projects (rows in one transaction, then the drop in the cold store), then the
rest. The two cold stores differ in what a drop by user reaches. Foreign keys decide what late
statements may still do.

**`Limits`**, **`Embedder`**, **`Mcp`**, **`Startup`**, **`Install`**: see the comment at the head of
each; time is in ticks, and a limit of the code is a constant of the module. In `Limits` the lock is
one per replica and kind of request, as the code's keys are ("signin:", "chgpw:", "chgpw-anon:",
"rotate:"), and a limit of 0 is off where the code reads it so. `margin` is what the replica that let
the last write in could not have counted.

**`Search`**: one search reads the tiers and the rows in separate statements; fusion, cut, filters,
rerank and selection say which sets and which orders of hits may come out, by integer scores; ties are
left open. The index behind the vector tier is approximate: a scan may pass over entries, which
`overlooked` records, at the price of a failure in the model's bound. A search without a query vector
or without a cold store leaves the tier out ("absent") without being degraded, a failing one is "dead".
Filters after the cut drop the superseded, the gone and what is too sensitive for whoever asks.

**`Sessions`**: `session`, `password`, `ban`, `revoked`, detached `refresh`. Every request is the series
of autocommit statements of its handler. `loose` and `stale` record sessions opened across a ban or a
change of password.

**`Doors`** (its variables are named apart from those of `Sessions`; both take users, admins and handlers
from `Accounts`): the gates, defaults and scopes of the HTTP and the MCP door, written down separately as the
code does, and the calls that pass them in several statements while projects, members, tokens and
service keys change. A change is made only by somebody the doors grant it (`Grants`).

The `MC` modules give the constants values. Several also hold a second or third component: a
behaviour then belongs to the component that `part` names and leaves the variables of the others
alone, so that such a run is the disjoint union of its components' state spaces. Components that one
`MC` or `*Proofs` module extends have their names apart (`GraphInit`, `GraphSpec` and so on). Where an `MC` module
narrows a component, its comment says how.

## Runs

| run | components and bounds | properties |
|---|---|---|
| `vector_tier` | `VectorTier`: 2 handlers, reconciler, reaper, 1 entry, 2 shelves, 1 rewrite, 1 fault | `StampIsCurrent` |
| `vector_tier_live` | `VectorTier`: 1 handler, reconciler, 2 reapers, 1 shelf, 2 faults, 2 attempts | `ForgetCompleteOrQueued`; it implements `EntryLife`; `EventuallyEmbedded`, `OrphanEventuallySettled` |
| `fact_extraction` | `FactExtraction`: 1 chunk, 2 texts sharing a fact, 2 handlers, 1 extraction, 2 writes, 1 fault. `Mcp`: 1 bridge, 2 replicas, 2 session ids, 2 lines, 1 session per user, 1 fault | `NoStaleFacts`, `SettledMeansExtracted`, `FactsEventuallyStored`; `RelaySound` |
| `row_locks` | `RowLocks`: all 8 paths, 2 transactions, 2 entries, 2 edges. `Startup`: 2 replicas, equal or successive builds, 5 environments, empty or old database, 1 fault. `Enrichment`: 2 memories and a reconciler, fanout, cap and batch 1, 1 fault; or 3 memories, 1 hidden, read to depth 2 | `NoDeadlock`, `NoHalfDeleted`; `ReadyToServe`, `EventuallyServes`; `GraphSound`, `DebtsPaid` |
| `metrics` | `Metrics`: 2 replicas, a user and an identity without account, 1 slot, 2 requests, 1 decay run, 1 fault | `SamplesConserved`, `CountersConserved`, `TotalsFallOnlyAfterEviction`, `SamplesEventuallyStored` |
| `capture` | `Capture`: 3 ids, 3 texts (one extends, one contradicts), 2 handlers, 3 writes, 2 faults. `Embedder`: 3 calls, 2 texts, 2 attempts, 1 cached, 2 faults. `Install`: 3 hosts, 2 files, 2 runs, 1 edit, 1 fault | `OneFact`, `Forgettable`; `EmbedderSound`; `OwnersKeep`, `HostsServed` |
| `dream` | `Dream`: 3 ids, slices of 2, 1 write, 1 fault. `Limits`: 3 calls, 2 replicas (1 for all but writes), small limits, 2 ticks, 1 fault | `MergeKeeps`, `WalkComesRound`; `BudgetsHeld` |
| `expiry` | `Expiry`: 2 ids, 1 decay and 1 retention loop, batches of 1, 2 attempts, 3 writes, 2 faults | `DeletedOrParked`, `OnlyDueRemoved`, `DecayDrains` |
| `teardown` | `Teardown`: 2 users, both admins, 1 project, 1 entry, 2 callers, both cold stores, 2 moves, 1 fault | `VectorsAccounted`, `NothingLeft`, `Governed` |
| `search` | `Search`: 3 entries, 2 shelves, 6 requests, some below the sensitivity of an entry, over-fetch 2, 1 write, 1 fault or scan that overlooks | `AnswersFully`, `AnswersAsAsked` |
| `sessions` | `Sessions`: an admin, a user, 2 sessions, 2 handlers, TTL 3, update age 2, impersonation 1, 2 events | `ShutOut`, `ActiveStays` |
| `doors` | `Doors`: an admin, a user, 2 projects of one name, 3 tokens, 1 call, 2 changes | `InBounds`, `LineHeld`, `DoorsAgree` |

Why the bounds are enough to be of use: operations on different entries share no ids, so one entry
shows every interleaving of `VectorTier`; two shelves are needed for a move and for a raced insert, one
rewrite for a stale vector. Two attempts (10 in the code) let a reaper give up within the faults, in
`vector_tier_live` and in `expiry`. Two
transactions suffice for a cycle of two; longer cycles are covered by the theorem. One slot for two
users (10 000 in the code) makes every second user an eviction. Batches of one make every second row
wait for the next tick. Two users and two callers let removals of the last administrator cross. Three
tokens make a line of two rotations. Two ids that expire and a third tick of a session's clock reach
every branch of the refresh. Each property is violated by a mutant within its run's bounds. What the
bounds leave open, the theorems below close for the properties they state.

Deadlock checking is on for `metrics`, `sessions` and `doors`, where a flush, a clock tick or a call is
always possible. It is off in the other configurations, whose bounded counters end every behaviour.

## Fairness

Faults and requests are never fair: liveness says what happens once faults stop, whoever calls.

* `vector_tier_live`: weak fairness of the next step of a running operation (the Go scheduler runs
  every goroutine) and of each reconciler and reaper listing each due row (tickers, `jobs/jobs.go`).
  Fairness per row stands for "oldest first, N per tick"; it is stronger than the code when N rows
  always fail, and not otherwise.
* `fact_extraction`: the same for handlers, extractions and the reconciler's claim.
* `row_locks`: `Startup` has weak fairness of a process's steps and strong fairness of taking the
  advisory lock, whose waiters Postgres queues; `Enrichment` weak fairness of writes, tasks, the
  reconciler with its batch, and the orphan reaper. The safety of `RowLocks` needs none.
* `metrics`: weak fairness of each replica's flush loop, a goroutine with a ticker.
* `dream`: weak fairness of the ticker, of a walk's steps and of the re-embedding that follows a row.
* `expiry`: weak fairness of each loop's start and steps.

## Proofs

The eight `*Proofs` modules are checked by TLAPS for every value of the constants that satisfies the
named assumption of the module. Every inductive invariant was checked by TLC on the run's instance
before it was proved.

* `VectorTierProofs`. `IInv` adds to `TypeOK` what each step in flight knows: an operation about to
  stamp has just written a vector of its entry; a delete in the cold store is attempted only for an entry
  that is gone; an orphan of kind `delete` belongs to an entry that is gone. A stamp or a delete comes
  several steps after the read that justifies it, so the promises alone are not inductive.
  `StampedHasVector` and `VectorKept` follow, whoever crosses whom. `Refinement` adds that the vectors
  are of wordings the entry has had (`RInv`), and maps each step to a step of `EntryLife` or a stutter.
  `StampsAreCurrent` and `ForgettingIsComplete` speak of entries whose operations ran one after the
  other; their invariant `CalmInv` gives, for each step such an operation can be at, what row, vectors and
  orphan are at that moment (`Sound`), failed calls that took effect included.
* `FactExtractionProofs`. An extraction past its check still agrees with the row or carries the mark
  `crossed`, and what it has yet to store comes from its text. `FactsFollowTheirSource`,
  `QueueIsHonest`. The module also extends `Mcp`: a post fits its bridge's line at every stage
  (`PostsSound`), a session belongs to whoever opened or adopted it (`SessionsOwned`), and the cap is held
  through minting, adoption and the reaper (`CapHeld`); `RelaysSoundly`.
* `RowLocksProofs`. The rows a statement holds in its own table are smaller than those it has yet to
  lock, and it holds rows only of tables its plan has reached. `DeadlockFree`: along a chain of waiting
  transactions the wanted pair (table, key) grows, and a finite set has a largest. `EntriesFirst` is the
  lock order itself. `WholeEntries` adds, for every path, that what a transaction has deleted of an
  entry it holds, so that a rollback restores the whole. The module also extends `Startup`: `StartupInv`
  says that one process is at the schema as long as no connection broke, that the journal has no gap, and
  for each step of a start what it has left behind it (a schema at least as new as its build past
  `Migrate`, an administrator past the seeding): `ServesOnlyWhenReady`. It extends `Enrichment` as well:
  `GraphInv` says that the counter is the tasks that have moved it, that what a run found is linked or
  still in its hands (`Linked`), and that a reader has seen of its ball all that was stored throughout
  (`Answering`). `GraphIsSound` needs that walks that visit nothing twice reach the whole ball, which goes by
  induction over the depth: the recursive functions are shown to exist by iteration (`Iterated`) and to
  agree (`WalksGrow`, `WalksCover`, `ReachesAllNear`).
* `MetricsProofs`. A user without a slot counts nothing (so a new slot may start at zero) and the loop
  holds a batch only between its drain and the end of the write: `SamplesAreConserved`. `Ledger` says that
  the baseline is what was posted plus what is being posted, and that a delta is negative, or the baseline
  ahead of the counters, only if a slot was dropped: `CountersAreConserved`, and the action property
  `TotalsFallOnlyBehindEviction`. Both speak of sums over slots and over replicas; that such a sum is a
  number, does not depend on the order and grows with its terms is shown by induction over the set
  (`TotalInt`, `TotalWithout`, `TotalGrows`). The module also extends `Dream`:
  `DreamInv` says what a walk may rely on at each statement of a merge, as long as no request wrote or
  forgot either of the pair and no other walk merged it (`met`): both are there and say the same (`Judged`), though their texts were read many
  statements ago, and each edge of the loser has come as far as the statement says (`Carried`).
  `MergesKeep`, an action property, follows for any number of walks abreast.
* `CaptureProofs`. `CInv`: a request has the row it works on in the state its step needs (`StepsSound`), a
  row only one request was answered with is that request's to take back (`OnlyTheirs`), and an id is
  used once. They are needed because the compensation of a failed supersession forgets an id read
  several statements before. `OneOfTwoFacts`, `SourcesAreForgettable`. The module also extends `Embedder`:
  `EmbedderInv` says that a finished entry tells what became of its leader (`LeadersTell`), that followers
  wait for a leader of their own text (`FollowersLed`), that the cache holds leaders (`CacheLeads`) and
  where every answer comes from (`AnswersFrom`); `SharesFairly`. And it extends `Install`, whose
  `InstallInv` says what a run holds at each stage and of each host it has passed; `OwnersAreLeftAlone` and
  `ServesItsHosts`. That hosts sharing a file share its transport is an assumption read off the host table.
* `ExpiryProofs`. `EInv`: what a pass listed is still qualified or was changed since (`Listed`: nothing
  but a request, or for retention a demotion, takes the qualification away), an entry that is not live has its vector queued, in a
  pass's hands or on record, and a retention pass cleans one entry at a time. `NoVectorForgotten`, and
  the action property `OnlyTheDueAreRemoved`. The module also extends `Search`. The statements of a search
  see different stores, so `SearchInv` says what a tier's hits are still worth: they stood on an asked
  shelf unless touched since (`HitsAsked`), and what a tier already read can find, save what the index
  overlooked, is among its hits or these are as many as the cut keeps (`HitsComplete`). `SearchAnswersAsAsked` follows, and by counting
  `SearchAnswersFully`: without a budget the selection fills up with what is visible, so a full cut of
  which fewer than `k` are answered holds more than `(OverfetchFactor - 1) * k` hidden ones.
* `TeardownProofs`. `TInv` adds to the promises that whoever is about to take an administrator away leaves
  another, unless two crossed (`TakersLeaveOne`). The vectors in a cleanup's hands are those of the scope
  it is cleaning (`Cleaning`), which is why a late insert into a scope already dropped needs its mark.
  `EveryVectorIsAccounted`, `NothingOfTheUserIsLeft`, `SomebodyIsInCharge`.
* `SessionsProofs`. `SInv` relates the ticks since a session was used, since it was stamped and until it
  expires (`Rolling`), bounds an impersonation (`ImpersonationsFade`), and follows a password and a ban
  from the requests that read them to the sessions they open (`PasswordsKnown`, `OldPasswordOut`,
  `BansKnown`, `BannedOut`). `TheShutOutStayOut`, `ActiveSessionsStay`. The module also extends
  `Doors`, which shares the constants of `Accounts` with it: `DInv` says that owners are members, that a
  line of rotated tokens keeps to its first and has one token in use, and that a call knows what it was
  admitted with while the membership it relies on changes (`was`). `CallsInBounds` and `LinesHold` follow; `TheDoorsAgree` needs
  only that owners are members, since one door looks a project up by its owner and the other by its
  members. It extends `Limits` as well: `LInv` ties each budget to the counter that stands for it. The
  shared counter counts whom it let through, a log never holds more than it may let through, and the
  cached count of each replica with the writes it cannot know of (its `ledger`) covers the entries that
  are there or under way; the promise itself takes the margin of the replica that admitted last, never
  that of an idle one. Guesses are counted per key and need the sharpest form: wrong passwords *plus* the verifications under way stay below the limit and the most
  that ran abreast, since each of those may still turn out wrong. `BudgetsAreHeld`.

Assumptions. Each module's `ASSUME` names what the proofs take: sets of processes and entries disjoint
where the code tells them apart, sentinels outside the sets they stand beside, bounds that are natural
numbers, and for `Sessions` the order of the three windows, which the code's constants have. Those of
`Doors` are its definition `Deployment`.
`DeadlockFree` needs finitely many connections. `Search` takes that entries are finitely many, that a
text which matches every term has a positive rank, and that overlap is symmetric.

### Checked, not proved

Liveness, all of it, since it needs `ENABLED`: `EventuallyEmbedded`, `OrphanEventuallySettled`,
`FactsEventuallyStored`, `EventuallyServes`, `DebtsPaid`, `SamplesEventuallyStored`, `WalkComesRound`,
`DecayDrains`.

## Where code and comments disagree

`PROJECT.json` ("findings") quotes the line, the comment and the run for each. The properties hold
beside them: each exempts the history in question by name. The ones that matter most:

* *Write path.* A failed upsert of an update leaves `embedded_at` set (`engine/engine.go:1233`). A failed
  enrichment starves younger ones (`engine/jobs.go:417`).
* *Facts and captures.* An extraction past its check stores facts of a forgotten source
  (`engine/facts.go:160`). A remembered text whose row is superseded stays hidden
  (`warmstore/entries.go:119`); supersession returns before it marks when the new row was committed but
  not embedded (`engine/engine.go:878`); its compensation may forget somebody else's row (`:903`); a
  failed overwrite loses its source (`:766`).
* *Locks.* The TTL reaper, both teardowns and the dream merge delete shadow rows before they lock the
  entry (`engine/jobs.go:199`), against "Every path that deletes an entry must lock the entries row first".
* *Background.* One unreadable `expiresAt` stops expiry and orphan reaping (`engine/jobs.go:164`); the
  changelog row of a removal cannot be stored (`:226`); retention forgets what was updated or demoted since
  it was listed (`:72`), though such updates "extend retention" (`:28`); a merge of duplicates with a common neighbour
  fails on every walk (`engine/dream.go:415`), and keeps the one with more hits, not the older (`:151`);
  walks are not kept apart (`jobs/jobs.go:113`).
* *Teardown.* The transaction that parks vectors deletes the parked rows again (`warmstore/admin.go:128`);
  after a failed cleanup nothing names the vectors (`engine/jobs.go:481`); the last-admin guard does not
  hold across two requests nor on every route (`httpapi/authadmin.go:270`).
* *Metrics.* A sample without an account blocks the batch and the counters (`jobs/jobs.go:176`); a
  concurrent flush is shown twice (`metrics/metrics.go:408`); an eviction makes totals fall (`:220`).
* *Search.* The coherence pass changes nothing (`engine/search.go:896`); hidden rows shorten answers
  (`:277`); a moved entry is answered on its old shelf (`warmstore/entries.go:334`); the author filter
  misses the vector tier (`engine/search.go:222`); neighbours include superseded entries (`:382`).
* *Access.* A ban does not stop a sign-in that read it before (`httpapi/authroutes.go:307`); expired
  sessions are swept by nobody (`warmstore/auth.go:88`); tokens can be pinned to a project, which the
  docs deny (`warmstore/auth.go:151`); the doors differ for restricted tokens (`httpapi/mcp.go:193`).
* *Around it.* A pool of one never starts (`warmstore/migrations.go:86`), an older build changes the
  schema before it refuses (`:146`), the bootstrap admin is seeded on later boots too
  (`cmd/novamem-server/main.go:38`); the installer drops what it cannot parse (`initcli/merge.go:115`); the
  bridge cannot reopen a lost session (`cmd/novamem-mcp/main.go:170`); two quotas count without writes
  under way (`engine/engine.go:1349`).

## Not modelled

The component list of `PROJECT.json` gives the reason for each part. In short: SDKs, the admin UI,
benchmarks and generators hold no state the system depends on; of the HTTP API, decoding, validation,
import and export; of configuration, all but what refuses a start; of cryptography, everything. Within the
modelled modules: inserts and foreign-key share locks (`RowLocks`), extractors that answer differently
each time (`FactExtraction`), Qdrant's second collection (`VectorTier`), slots per token and the 25-hour
prune (`Metrics`), consolidation by the LLM (`Dream`), recency and entity signals (`Search`), profiles,
invitations and OAuth (`Sessions`).

## Plan

1. *Done*: all modules above with their runs, and proofs of every safety property the runs check.
2. `StampIsCurrent` for overlapping operations that cannot disturb each other (two forgets, a forget next
   to a reaper), with a finer mark.
