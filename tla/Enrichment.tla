----------------------------- MODULE Enrichment -----------------------------
(***************************************************************************)
(* The graph of a shelf.  A write leaves a debt marker on its row and,     *)
(* once its vector is stored, starts a detached task that looks up the     *)
(* nearest vectors and adds an edge to each; the marker is cleared last.   *)
(* Over a cap no task is started, and a reconciler that takes the oldest   *)
(* markers pays what tasks left.  A neighbours call walks the edges both   *)
(* ways and loads what it reached.                                         *)
(*                                                                         *)
(* The ids are numbers, in the order of the times their markers were read  *)
(* off the clock.  A job is a task, named after its entry, or the          *)
(* reconciler of a replica; one process runs the tasks.                    *)
(***************************************************************************)
EXTENDS Naturals, FiniteSets

CONSTANTS
    Ids,
    Reconcilers,
    Rank,           \* for each id, the places of all ids by their distance, itself first
    Fanout,         \* NOVAMEM_GRAPH_LINK_FANOUT
    Cap,            \* maxEnrichInFlight of the code: 16
    BatchSize,      \* rows a reconciler takes: NOVAMEM_RECONCILE_BATCH
    Depth,          \* edges a neighbours call may cross: 1 .. 3
    Limit,          \* k of a neighbours call
    Hidden,         \* ids more sensitive than its caller may see
    MaxFailures       \* bound: calls that fail and crashes

ASSUME GraphAssumption ==
    /\ Ids \subseteq Nat \ {0} /\ IsFiniteSet(Ids) /\ Reconcilers \cap Ids = {}
    /\ Rank \in [Ids -> [Ids -> Nat]]
    /\ Cap \in Nat \ {0} /\ Depth \in Nat \ {0} /\ Limit \in Nat
    /\ MaxFailures \in Nat

VARIABLES
    row,        \* memory_entries
    debt,       \* ids with graph_pending_at set
    vec,        \* ids the cold store holds a vector of
    parked,     \* cold_orphans: vectors the reaper will still try to delete
    edges,      \* memory_relations co_occurs, from and to
    inFlight,   \* e.enrichInFlight
    job,        \* tasks and reconcilers
    reader,     \* a neighbours call
    together,   \* history: most writes that had passed the cap's check at one time
    found,      \* history: whom the run that cleared a marker had to link
    failures

graphVars == <<row, debt, vec, parked, edges, inFlight, job, reader, together, found, failures>>

graph == <<row, debt, vec, parked, edges, found>>
tasks == <<inFlight, together>>

Jobs == Ids \cup Reconcilers
Rest == [pc |-> "idle", id |-> 0, hits |-> {}, sought |-> {}, batch |-> {}]
Unread == [pc |-> "idle", seed |-> 0, todo |-> {}, out |-> {}, ball |-> {}]

Job == [pc : {"idle", "embed", "check", "add", "next", "search", "link"}, id : Ids \cup {0},
        hits : SUBSET Ids, sought : SUBSET Ids, batch : SUBSET Ids]
Reader == [pc : {"idle", "walk", "load", "answered"}, seed : Ids \cup {0},
           todo : SUBSET Ids, out : SUBSET Ids, ball : SUBSET Ids]

GraphTypeOK ==
    /\ row \in [Ids -> {"new", "live", "gone"}]
    /\ debt \subseteq Ids /\ vec \subseteq Ids /\ parked \subseteq Ids
    /\ edges \subseteq Ids \X Ids
    /\ inFlight \in Nat /\ together \in 0 .. Cardinality(Ids)
    /\ job \in [Jobs -> Job] /\ \A w \in Jobs : job[w].hits \subseteq job[w].sought
    /\ reader \in Reader
    /\ found \in [Ids -> SUBSET Ids]
    /\ failures \in 0 .. MaxFailures

GraphInit ==
    /\ row = [i \in Ids |-> "new"]
    /\ debt = {} /\ vec = {} /\ parked = {} /\ edges = {}
    /\ inFlight = 0 /\ together = 0
    /\ job = [w \in Jobs |-> Rest]
    /\ reader = Unread
    /\ found = [i \in Ids |-> {}]
    /\ failures = 0

Live(i) == row[i] = "live"
Stands(w, pc) == job[w].pc = pc
Failure == failures < MaxFailures /\ failures' = failures + 1

-----------------------------------------------------------------------------
(* Writes *)

\* Tasks started and not ended.
Running == {i \in Ids : job[i].pc \in {"search", "link"}}

Remember(i) ==
    /\ row[i] = "new"
    /\ row' = [row EXCEPT ![i] = "live"]
    /\ debt' = debt \cup {i}
    /\ job' = [job EXCEPT ![i].pc = "embed", ![i].id = i]
    /\ UNCHANGED <<vec, parked, edges, tasks, reader, found, failures>>

\* No vector, or it could not be stored: nothing is scheduled.
EmbedFails(i) ==
    /\ i \in Ids /\ Stands(i, "embed")
    /\ Failure
    /\ job' = [job EXCEPT ![i] = Rest]
    /\ UNCHANGED <<graph, tasks, reader>>

Upsert(i) ==
    /\ i \in Ids /\ Stands(i, "embed")
    /\ vec' = vec \cup {i}
    /\ job' = [job EXCEPT ![i].pc = "check"]
    /\ UNCHANGED <<row, debt, parked, edges, tasks, reader, found, failures>>

Passed == {i \in Ids : Stands(i, "add")}
Passes(i) ==
    /\ job' = [job EXCEPT ![i].pc = "add"]
    /\ together' = IF Cardinality(Passed) + 1 > together THEN Cardinality(Passed) + 1 ELSE together

\* The cap is compared in one step and the counter moved in the next.
CheckCap(i) ==
    /\ i \in Ids /\ Stands(i, "check")
    /\ IF inFlight < Cap THEN Passes(i)
       ELSE job' = [job EXCEPT ![i] = Rest] /\ UNCHANGED together
    /\ UNCHANGED <<graph, inFlight, reader, failures>>

Schedule(i) ==
    /\ i \in Ids /\ Stands(i, "add")
    /\ inFlight' = inFlight + 1
    /\ job' = [job EXCEPT ![i].pc = "search"]
    /\ UNCHANGED <<graph, reader, failures, together>>

-----------------------------------------------------------------------------
(* A run of enrichEntry *)

\* A job is done with its entry: the task ends, the reconciler takes the next.
Leave(w) ==
    IF w \in Ids
    THEN inFlight' = inFlight - 1 /\ job' = [job EXCEPT ![w] = Rest]
    ELSE /\ UNCHANGED inFlight
         /\ job' = [job EXCEPT ![w] = [Rest EXCEPT !.pc = "next", !.batch = job[w].batch]]

\* Whom a run links: the nearest, itself left out.
Nearest(i, among, n) == {h \in among : Cardinality({k \in among : Rank[i][k] < Rank[i][h]}) < n}
Targets(i) == Nearest(i, Nearest(i, vec, Fanout + 1) \ {i}, Fanout)

Search(w) ==
    /\ Stands(w, "search")
    /\ job' = [job EXCEPT ![w].pc = "link", ![w].hits = Targets(job[w].id),
                            ![w].sought = Targets(job[w].id)]
    /\ UNCHANGED <<graph, tasks, reader, failures>>

\* The neighbour that a run links next: the nearest of those left.
NextHit(w, h) ==
    /\ Stands(w, "link")
    /\ h \in job[w].hits
    /\ \A k \in job[w].hits : Rank[job[w].id][h] <= Rank[job[w].id][k]

\* AddRelation: both ends must be stored, and a second edge is the same edge.
Link(w) ==
    \E h \in Ids :
        /\ NextHit(w, h)
        /\ Live(job[w].id) /\ Live(h)
        /\ edges' = edges \cup {<<job[w].id, h>>}
        /\ job' = [job EXCEPT ![w].hits = @ \ {h}]
        /\ UNCHANGED <<row, debt, vec, parked, tasks, reader, found, failures>>

\* Mutant: an edge that cannot be added is passed over.
LinkPasses(w) ==
    \E h \in Ids :
        /\ NextHit(w, h)
        /\ IF Live(job[w].id) /\ Live(h) THEN Failure ELSE UNCHANGED failures
        /\ job' = [job EXCEPT ![w].hits = @ \ {h}]
        /\ UNCHANGED <<graph, tasks, reader>>

\* An end that is gone violates the foreign key; any failure ends the run
\* with the marker kept.
LinkFails(w) ==
    \E h \in Ids :
        /\ NextHit(w, h)
        /\ IF Live(job[w].id) /\ Live(h) THEN Failure ELSE UNCHANGED failures
        /\ Leave(w)
        /\ UNCHANGED <<graph, reader, together>>

\* The reconciler embeds the text again before it searches: either may fail.
SearchFails(w) ==
    /\ Stands(w, "search")
    /\ Failure
    /\ Leave(w)
    /\ UNCHANGED <<graph, reader, together>>

ClearMarker(w) ==
    /\ Stands(w, "link") /\ job[w].hits = {}
    /\ debt' = debt \ {job[w].id}
    /\ found' = [found EXCEPT ![job[w].id] = job[w].sought]
    /\ Leave(w)
    /\ UNCHANGED <<row, vec, parked, edges, reader, failures, together>>

-----------------------------------------------------------------------------
(* The reconciler *)

\* Mutant: only rows whose vector is stored.
OldestEmbedded == LET due == debt \cap vec
                  IN {i \in due : Cardinality({j \in due : j < i}) < BatchSize}

\* ListPendingEnrichment: the oldest markers.
Oldest == {i \in debt : Cardinality({j \in debt : j < i}) < BatchSize}

ListPending(r) ==
    /\ r \in Reconcilers /\ Stands(r, "idle")
    /\ debt # {}
    /\ job' = [job EXCEPT ![r].pc = "next", ![r].batch = Oldest]
    /\ UNCHANGED <<graph, tasks, reader, failures>>

NextRow(r) ==
    /\ r \in Reconcilers /\ Stands(r, "next")
    /\ LET left == job[r].batch
       IN IF left = {} THEN job' = [job EXCEPT ![r] = Rest]
          ELSE \E i \in left :
                 /\ \A j \in left : i <= j
                 /\ job' = [job EXCEPT ![r] = [@ EXCEPT !.pc = "search", !.id = i,
                                                        !.batch = left \ {i}]]
    /\ UNCHANGED <<graph, tasks, reader, failures>>

-----------------------------------------------------------------------------
(* What else happens to entries *)

\* The embedding reconciler stores a vector a write could not.
Reindex(i) ==
    /\ Live(i) /\ i \notin vec /\ Stands(i, "idle")
    /\ vec' = vec \cup {i}
    /\ UNCHANGED <<row, debt, parked, edges, tasks, job, reader, found, failures>>

\* The row takes its marker and its edges along; the vector is deleted next,
\* or parked for the reaper.
Forget(i) ==
    /\ Live(i)
    /\ row' = [row EXCEPT ![i] = "gone"]
    /\ debt' = debt \ {i}
    /\ edges' = {e \in edges : i \notin {e[1], e[2]}}
    /\ \/ vec' = vec \ {i} /\ UNCHANGED <<parked, failures>>
       \/ Failure /\ parked' = parked \cup {i} /\ UNCHANGED vec
    /\ UNCHANGED <<tasks, job, reader, found>>

ReapOrphan(i) ==
    /\ i \in parked
    /\ vec' = vec \ {i}
    /\ parked' = parked \ {i}
    /\ UNCHANGED <<row, debt, edges, tasks, job, reader, found, failures>>

\* Ten failed attempts: the vector stays.
Abandon(i) ==
    /\ i \in parked
    /\ parked' = parked \ {i}
    /\ UNCHANGED <<row, debt, vec, edges, tasks, job, reader, found, failures>>

Restart ==
    /\ Failure
    /\ job' = [w \in Jobs |-> Rest]
    /\ inFlight' = 0
    /\ UNCHANGED <<graph, reader, together>>

-----------------------------------------------------------------------------
(* Neighbours *)

Touching(i) == {j \in Ids : <<i, j>> \in edges \/ <<j, i>> \in edges}

\* The recursive query: walks from the seed that visit nothing twice, each as where it ends and what it
\* has visited.
Walks(seed) ==
    LET walk[n \in 1 .. Depth] ==
          IF n = 1 THEN {[at |-> j, seen |-> {seed, j}] : j \in Touching(seed)}
          ELSE walk[n - 1] \cup
               UNION {{[at |-> j, seen |-> p.seen \cup {j}] : j \in Touching(p.at) \ p.seen} : p \in walk[n - 1]}
    IN walk[Depth]

Reachable(seed) == {p.at : p \in Walks(seed)} \ {seed}

ReadSeed(i) ==
    /\ reader.pc = "idle"
    /\ Live(i)
    /\ reader' = [reader EXCEPT !.pc = "walk", !.seed = i]
    /\ UNCHANGED <<graph, tasks, job, failures>>

\* For the history: what is at most Depth edges from the seed.
Ball(seed) ==
    LET ball[n \in 0 .. Depth] ==
          IF n = 0 THEN {seed} ELSE ball[n - 1] \cup UNION {Touching(j) : j \in ball[n - 1]}
    IN ball[Depth] \ {seed}

\* The best k are taken before anything is known of their sensitivity.
WalkEdges ==
    /\ reader.pc = "walk"
    /\ \E best \in SUBSET Reachable(reader.seed) :
         /\ Cardinality(best) = Limit \/ best = Reachable(reader.seed)
         /\ Cardinality(best) <= Limit
         /\ reader' = [reader EXCEPT !.pc = "load", !.seed = 0, !.todo = best, !.ball = Ball(reader.seed)]
    /\ UNCHANGED <<graph, tasks, job, failures>>

LoadHit(h) ==
    /\ reader.pc = "load" /\ h \in reader.todo
    /\ reader' = [reader EXCEPT !.todo = @ \ {h},
                                !.out = IF Live(h) /\ h \notin Hidden THEN @ \cup {h} ELSE @]
    /\ UNCHANGED <<graph, tasks, job, failures>>

Answer ==
    /\ reader.pc = "load" /\ reader.todo = {}
    /\ reader' = [reader EXCEPT !.pc = "answered"]
    /\ UNCHANGED <<graph, tasks, job, failures>>

-----------------------------------------------------------------------------
Write(i) == Upsert(i) \/ CheckCap(i) \/ Schedule(i)
Run(w) == Search(w) \/ Link(w) \/ LinkFails(w) \/ ClearMarker(w)
Reconcile(r) == ListPending(r) \/ NextRow(r)
Read == \/ \E i \in Ids : ReadSeed(i) \/ LoadHit(i)
        \/ WalkEdges \/ Answer

GraphNext ==
    \/ \E i \in Ids : Remember(i) \/ EmbedFails(i) \/ Write(i) \/ Reindex(i) \/ Forget(i)
                      \/ ReapOrphan(i) \/ Abandon(i)
    \/ \E w \in Jobs : Run(w) \/ SearchFails(w)
    \/ \E r \in Reconcilers : Reconcile(r)
    \/ Read
    \/ Restart

GraphSpec == GraphInit /\ [][GraphNext]_graphVars

\* A request and a task run on, the reconciler's loop ticks, and so does the
\* reaper's; a statement may fail, but not for ever (MaxFailures).
GraphFairness ==
    /\ \A i \in Ids : WF_graphVars(Write(i) \/ Run(i))
    /\ \A r \in Reconcilers : WF_graphVars(Reconcile(r) \/ Run(r))
    /\ WF_graphVars(\E i \in Ids : ReapOrphan(i))

FairGraphSpec == GraphSpec /\ GraphFairness

-----------------------------------------------------------------------------
\* A cleared marker means that the entry has its edge to every neighbour the
\* search found that is still stored.
MarkerHonest ==
    \A i \in Ids : Live(i) /\ i \notin debt =>
        \A h \in found[i] : Live(h) => <<i, h>> \in edges

\* Detached tasks exceed the cap by the writes that pass the check together,
\* never by more.
CapExceededOnlyTogether == Cardinality(Running) <= Cap + together - 1

\* A neighbours call answers with what is near, and with all of it that is
\* stored throughout and may be seen, if the limit leaves room.
NeighboursNear ==
    reader.pc = "answered" =>
        /\ reader.out \subseteq reader.ball \ Hidden
        /\ Cardinality(reader.ball) <= Limit =>
             {h \in reader.ball \ Hidden : Live(h)} \subseteq reader.out

GraphSound == MarkerHonest /\ CapExceededOnlyTogether /\ NeighboursNear

\* A vector without a row that no one will delete.
Lost(h) == h \in vec /\ row[h] = "gone" /\ h \notin parked /\ Stands(h, "idle")

\* Every debt is paid, whatever failed on the way, unless a lost vector is
\* among the neighbours for ever: its edge can never be added.
EveryDebtPaid ==
    \A i \in Ids : i \in debt ~> (i \notin debt \/ \E h \in Ids : Lost(h))
=============================================================================
