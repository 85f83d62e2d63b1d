----------------------------- MODULE VectorTier -----------------------------
(***************************************************************************)
(* One memory, two stores.  The warm row (memory_entries, Postgres) is the *)
(* truth; its embedding lives in the cold vector store under the key       *)
(* (entry, namespace) and is written by a separate, fallible call after    *)
(* the row has committed.  Three debts repair what goes wrong in between:  *)
(*   - embedded_at IS NULL is the queue of the embedding reconciler,       *)
(*   - a cold_orphans row of kind 'backfill' asks the reaper to embed,     *)
(*   - a cold_orphans row of kind 'delete' asks the reaper to delete.      *)
(* Request handlers, reconcilers and reapers (one of each per replica) run *)
(* concurrently; every statement and every cold call is a step of its own. *)
(* The text of a row is abstracted to a version that grows with each       *)
(* rewrite, and an embedding to the version it was computed from.          *)
(***************************************************************************)
EXTENDS Naturals

CONSTANTS
    Ids,                \* entry ids (ULIDs, never reused)
    Namespaces,         \* shelves an entry can be filed under
    Callers,            \* request handlers
    Reconcilers,        \* embedding reconcilers, one per replica
    Reapers,            \* orphan reapers, one per replica
    MaxVer,             \* bound: rewrites of one entry
    MaxFaults,          \* bound: failed calls and aborted operations in a run
    OrphanMaxAttempts   \* orphanMaxAttempts, 10 in the code

Procs == Callers \cup Reconcilers \cup Reapers

ASSUME VectorTierAssumption ==
    /\ MaxVer \in Nat \ {0}
    /\ MaxFaults \in Nat
    /\ OrphanMaxAttempts \in Nat \ {0}
    /\ Namespaces # {}

VARIABLES
    row,      \* warm row per id: status, content version, namespace, embedded_at # NULL
    vec,      \* vec[id][n]: version of the vector stored under (id, n), 0 when absent
    orphan,   \* cold_orphans row per id, kind "none" when there is no row
    op,       \* what each process is in the middle of, with its local variables
    faults,   \* failures so far
    mark      \* history: what an entry has been through (see Marks)

vars == <<row, vec, orphan, op, faults, mark>>

Kinds == {"none", "delete", "backfill"}
Jobs == {"remember", "dedup", "update", "forget", "reconcile", "reap"}
Steps == {"probe", "reread", "load", "upsert", "stamp", "clear", "park",
          "wdelete", "cdelete", "settle", "failed"}

(***************************************************************************)
(* Marks an entry collects, so that a promise can be stated for exactly    *)
(* the histories the code keeps it in:                                     *)
(*   disturbed  two operations on the entry were in flight at once, one of *)
(*              them died half way (crash, cancelled request, database     *)
(*              error), it changed namespace, or a second remember of its  *)
(*              text lost the insert to it                                 *)
(*   parked     RecordMissingVector was called for it                      *)
(*   reindex    the cold upsert of an update failed                        *)
(***************************************************************************)
Marks == {"disturbed", "parked", "reindex"}

Idle == [pc |-> "idle"]
Row == [st : {"fresh", "live", "gone"}, ver : Nat, ns : Namespaces, emb : BOOLEAN]
Orphan == [kind : Kinds, ns : Namespaces, att : Nat]
Op == [job : Jobs, pc : Steps, id : Ids, ver : Nat, ns : Namespaces, att : Nat]

\* Filler for the columns of a row that does not exist.
Shelf == CHOOSE n \in Namespaces : TRUE
NoRow(st) == [st |-> st, ver |-> 0, ns |-> Shelf, emb |-> FALSE]
Nothing == [kind |-> "none", ns |-> Shelf, att |-> 0]
NoOrphan(id) == orphan[id].kind = "none"

TypeOK ==
    /\ row \in [Ids -> Row]
    /\ vec \in [Ids -> [Namespaces -> Nat]]
    /\ orphan \in [Ids -> Orphan]
    /\ op \in [Procs -> Op \cup {Idle}]
    /\ faults \in Nat
    /\ mark \in [Ids -> SUBSET Marks]

Live(id) == row[id].st = "live"
Gone(id) == row[id].st = "gone"
Busy(id) == \E p \in Procs : op[p] # Idle /\ op[p].id = id
At(p, pc) == op[p] # Idle /\ op[p].pc = pc

Init ==
    /\ row = [id \in Ids |-> NoRow("fresh")]
    /\ orphan = [id \in Ids |-> Nothing]
    /\ vec = [id \in Ids |-> [n \in Namespaces |-> 0]]
    /\ op = [p \in Procs |-> Idle]
    /\ faults = 0
    /\ mark = [id \in Ids |-> {}]

-----------------------------------------------------------------------------
(* Bookkeeping shared by the steps. *)

Marked(id, ms) == mark' = [mark EXCEPT ![id] = @ \cup ms]

\* Process p starts operation o; an entry already in someone's hands is overlapped.
Begin(p, o, ms) ==
    /\ op[p] = Idle
    /\ op' = [op EXCEPT ![p] = o]
    /\ Marked(o.id, ms \cup IF Busy(o.id) THEN {"disturbed"} ELSE {})

Goto(p, pc) == op' = [op EXCEPT ![p].pc = pc]
Finish(p) == op' = [op EXCEPT ![p] = Idle]

\* A dependency fails; the runs bound how often.
Fail == faults < MaxFaults /\ faults' = faults + 1

\* RecordMissingVector: the conflict branch overwrites kind and namespace, not attempts.
RecordMissingVector(id, n) ==
    orphan' = [orphan EXCEPT ![id].kind = "backfill", ![id].ns = n]

\* RecordColdOrphan: a new row is of kind 'delete'; the conflict branch bumps the
\* attempts and leaves kind and namespace as they are.
RecordColdOrphan(id, n) ==
    IF NoOrphan(id)
    THEN orphan' = [orphan EXCEPT ![id] = [kind |-> "delete", ns |-> n, att |-> 1]]
    ELSE orphan' = [orphan EXCEPT ![id].att = @ + 1]

\* UPDATE memory_entries SET embedded_at ... WHERE id: nothing to do once the row is gone.
SetEmbedded(id, b) == row' = IF Live(id) THEN [row EXCEPT ![id].emb = b] ELSE row

-----------------------------------------------------------------------------
(* remember *)

\* InsertEntry commits the row with embedded_at NULL; the embedding comes after.
PersistRemember(p, id, n) ==
    /\ row[id].st = "fresh"
    /\ row' = [row EXCEPT ![id] = [st |-> "live", ver |-> 1, ns |-> n, emb |-> FALSE]]
    /\ Begin(p, [job |-> "remember", pc |-> "upsert", id |-> id, ver |-> 1, ns |-> n,
                 att |-> 0], {})
    /\ UNCHANGED <<vec, orphan, faults>>

\* InsertEntry lost to a concurrent remember of the same text: the handler goes on with
\* the winner's id, but embeds under the namespace of its own request.
PersistRaced(p, id, n) ==
    /\ Live(id)
    /\ Begin(p, [job |-> "remember", pc |-> "upsert", id |-> id, ver |-> row[id].ver, ns |-> n,
                 att |-> 0], {"disturbed"})
    /\ UNCHANGED <<row, vec, orphan, faults>>

\* The embedder answered with an empty vector: parked for backfill.
EmbedEmpty(p) ==
    /\ At(p, "upsert") /\ op[p].job = "remember"
    /\ Fail
    /\ RecordMissingVector(op[p].id, op[p].ns)
    /\ Marked(op[p].id, {"parked"})
    /\ Finish(p)
    /\ UNCHANGED <<row, vec>>

\* parkMissingVector after a failed cold upsert; the caller gets the upsert's error.
ParkMissingVector(p) ==
    /\ At(p, "park") /\ op[p].job = "remember"
    /\ RecordMissingVector(op[p].id, op[p].ns)
    /\ Marked(op[p].id, {"parked"})
    /\ Finish(p)
    /\ UNCHANGED <<row, vec, faults>>

\* An exact duplicate: the stored entry is probed and its vector repaired if absent.
DedupHit(p, id) ==
    /\ Live(id)
    /\ Begin(p, [job |-> "dedup", pc |-> "probe", id |-> id, ver |-> row[id].ver,
                 ns |-> row[id].ns, att |-> 0], {})
    /\ UNCHANGED <<row, vec, orphan, faults>>

BackfillProbe(p) ==
    /\ At(p, "probe")
    /\ IF vec[op[p].id][op[p].ns] # 0 THEN Finish(p) ELSE Goto(p, "upsert")
    /\ UNCHANGED <<row, vec, orphan, faults, mark>>

-----------------------------------------------------------------------------
(* update *)

\* UpdateEntry with new content (the namespace may move in the same statement).
UpdateContent(p, id, n) ==
    /\ Live(id) /\ row[id].ver < MaxVer
    /\ row' = [row EXCEPT ![id].ver = @ + 1, ![id].ns = n]
    /\ Begin(p, [job |-> "update", pc |-> "reread", id |-> id, ver |-> row[id].ver + 1,
                 ns |-> n, att |-> 0], IF n # row[id].ns THEN {"disturbed"} ELSE {})
    /\ UNCHANGED <<vec, orphan, faults>>

\* UpdateEntry without content: the vector block is skipped altogether.
UpdateNamespace(p, id, n) ==
    /\ op[p] = Idle
    /\ Live(id) /\ n # row[id].ns
    /\ row' = [row EXCEPT ![id].ns = n]
    /\ Marked(id, {"disturbed"})
    /\ UNCHANGED <<vec, orphan, op, faults>>

\* GetEntry again, to learn the namespace to index under.
UpdateReread(p) ==
    /\ At(p, "reread")
    /\ IF Live(op[p].id) THEN op' = [op EXCEPT ![p].pc = "upsert", ![p].ns = row[op[p].id].ns]
                         ELSE Finish(p)
    /\ UNCHANGED <<row, vec, orphan, faults, mark>>

\* Mutant: the entry stays stamped although its vector did not move.
UpdateNotRequeued(p) ==
    /\ At(p, "upsert") /\ op[p].job = "update"
    /\ Fail
    /\ Finish(p)
    /\ UNCHANGED <<row, vec, orphan, mark>>

\* The re-embed failed: SetEmbeddedAt(nil) puts the entry back on the queue.
UpdateRequeue(p) ==
    /\ At(p, "upsert") /\ op[p].job = "update"
    /\ Fail
    /\ SetEmbedded(op[p].id, FALSE)
    /\ Finish(p)
    /\ UNCHANGED <<vec, orphan, mark>>

-----------------------------------------------------------------------------
(* The write of one vector: remember, dedup repair, update, reconciler and   *)
(* reaper all go through embed -> cold.Upsert -> stamp.                      *)

\* The embedder is down: remember leaves the row queued, dedup gives up,
\* the reconciler retries next tick, the reaper counts an attempt.
EmbedFails(p) ==
    /\ At(p, "upsert") /\ op[p].job # "update"
    /\ Fail
    /\ IF op[p].job = "reap" THEN Goto(p, "failed") ELSE Finish(p)
    /\ UNCHANGED <<row, vec, orphan, mark>>

UpsertOk(p) ==
    /\ At(p, "upsert")
    /\ vec' = [vec EXCEPT ![op[p].id][op[p].ns] = op[p].ver]
    /\ Goto(p, IF op[p].job = "dedup" THEN "clear" ELSE "stamp")
    /\ UNCHANGED <<row, orphan, faults, mark>>

\* cold.Upsert returned an error; the point may have been written all the same.
UpsertFails(p) ==
    /\ At(p, "upsert")
    /\ Fail
    /\ \/ vec' = [vec EXCEPT ![op[p].id][op[p].ns] = op[p].ver]
       \/ UNCHANGED vec
    /\ CASE op[p].job = "remember" -> Goto(p, "park")
         [] op[p].job = "reap"     -> Goto(p, "failed")
         [] OTHER                  -> Finish(p)
    /\ Marked(op[p].id, IF op[p].job = "update" THEN {"reindex"} ELSE {})
    /\ UNCHANGED <<row, orphan>>

\* Mutant: the reconciler repairs the vector and forgets the stamp.
StampSkippedByReconciler(p) ==
    /\ At(p, "stamp")
    /\ IF op[p].job = "reconcile" THEN UNCHANGED row ELSE SetEmbedded(op[p].id, TRUE)
    /\ IF op[p].job = "reconcile" THEN Goto(p, "clear") ELSE Finish(p)
    /\ UNCHANGED <<vec, orphan, faults, mark>>

\* SetEmbeddedAt(now): unconditional on what the row holds by now.
Stamp(p) ==
    /\ At(p, "stamp")
    /\ SetEmbedded(op[p].id, TRUE)
    /\ CASE op[p].job = "reconcile" -> Goto(p, "clear")
         [] op[p].job = "reap"      -> Goto(p, "settle")
         [] OTHER                   -> Finish(p)
    /\ UNCHANGED <<vec, orphan, faults, mark>>

\* ClearMissingVector deletes the orphan row only when it is a backfill.
ClearMissingVector(p) ==
    /\ At(p, "clear")
    /\ orphan' = IF orphan[op[p].id].kind = "backfill"
                 THEN [orphan EXCEPT ![op[p].id] = Nothing] ELSE orphan
    /\ Finish(p)
    /\ UNCHANGED <<row, vec, faults, mark>>

-----------------------------------------------------------------------------
(* forget *)

\* Mutant: the cold vector is deleted before the warm row.
ForgetColdFirst(p, id) ==
    /\ Live(id)
    /\ Begin(p, [job |-> "forget", pc |-> "cdelete", id |-> id, ver |-> 0,
                 ns |-> row[id].ns, att |-> 0], {})
    /\ UNCHANGED <<row, vec, orphan, faults>>

\* GetEntry in scope; the namespace read here is the one cleaned up later.
ForgetRead(p, id) ==
    /\ Live(id)
    /\ Begin(p, [job |-> "forget", pc |-> "wdelete", id |-> id, ver |-> 0,
                 ns |-> row[id].ns, att |-> 0], {})
    /\ UNCHANGED <<row, vec, orphan, faults>>

\* DeleteEntry; finding no row is not an error and the cleanup still runs.
WarmDelete(p) ==
    /\ At(p, "wdelete")
    /\ row' = [row EXCEPT ![op[p].id] = NoRow("gone")]
    /\ Goto(p, "cdelete")
    /\ UNCHANGED <<vec, orphan, faults, mark>>

\* DeleteEntriesBySourceRef: namespace read and row deleted in one transaction.
ForgetBySource(p, id) ==
    /\ Live(id)
    /\ row' = [row EXCEPT ![id] = NoRow("gone")]
    /\ Begin(p, [job |-> "forget", pc |-> "cdelete", id |-> id, ver |-> 0,
                 ns |-> row[id].ns, att |-> 0], {})
    /\ UNCHANGED <<vec, orphan, faults>>

ColdDeleteOk(p) ==
    /\ At(p, "cdelete")
    /\ vec' = [vec EXCEPT ![op[p].id][op[p].ns] = 0]
    /\ IF op[p].job = "reap" THEN Goto(p, "settle") ELSE Finish(p)
    /\ UNCHANGED <<row, orphan, faults, mark>>

\* Mutant: the reaper settles the orphan whatever cold.Delete answered.
ColdDeleteErrorIgnored(p) ==
    /\ At(p, "cdelete")
    /\ Fail
    /\ Goto(p, IF op[p].job = "reap" THEN "settle" ELSE "park")
    /\ UNCHANGED <<row, vec, orphan, mark>>

\* cold.Delete returned an error; the point may be gone all the same.
ColdDeleteFails(p) ==
    /\ At(p, "cdelete")
    /\ Fail
    /\ \/ vec' = [vec EXCEPT ![op[p].id][op[p].ns] = 0]
       \/ UNCHANGED vec
    /\ Goto(p, IF op[p].job = "reap" THEN "failed" ELSE "park")
    /\ UNCHANGED <<row, orphan, mark>>

ParkOrphan(p) ==
    /\ At(p, "park") /\ op[p].job = "forget"
    /\ RecordColdOrphan(op[p].id, op[p].ns)
    /\ Finish(p)
    /\ UNCHANGED <<row, vec, faults, mark>>

-----------------------------------------------------------------------------
(* Background work.  A tick lists a batch and works through it; entries are  *)
(* independent, so a batch is modelled one listed row at a time, with any    *)
(* delay between listing the row and acting on it.                           *)

ReconcileList(p, id) ==
    /\ Live(id) /\ ~row[id].emb
    /\ Begin(p, [job |-> "reconcile", pc |-> "upsert", id |-> id, ver |-> row[id].ver,
                 ns |-> row[id].ns, att |-> 0], {})
    /\ UNCHANGED <<row, vec, orphan, faults>>

ReapList(p, id) ==
    /\ ~NoOrphan(id) /\ orphan[id].att < OrphanMaxAttempts
    /\ Begin(p, [job |-> "reap", id |-> id, ver |-> 0,
                 pc |-> IF orphan[id].kind = "backfill" THEN "load" ELSE "cdelete",
                 ns |-> orphan[id].ns, att |-> orphan[id].att], {})
    /\ UNCHANGED <<row, vec, orphan, faults>>

\* backfillOrphanVector reads the content as it is now; no row is an error.
BackfillLoad(p) ==
    /\ At(p, "load")
    /\ IF Live(op[p].id) THEN op' = [op EXCEPT ![p].pc = "upsert", ![p].ver = row[op[p].id].ver]
                         ELSE Goto(p, "failed")
    /\ UNCHANGED <<row, vec, orphan, faults, mark>>

\* DELETE FROM cold_orphans WHERE id, whatever kind the row has by now.
ReapSettle(p) ==
    /\ At(p, "settle")
    /\ orphan' = [orphan EXCEPT ![op[p].id] = Nothing]
    /\ Finish(p)
    /\ UNCHANGED <<row, vec, faults, mark>>

\* Mutant: a failed attempt is not counted.
ReapFailedUncounted(p) ==
    /\ At(p, "failed")
    /\ Finish(p)
    /\ UNCHANGED <<row, vec, orphan, faults, mark>>

\* attempts := the value read with the batch, plus one.
ReapFailed(p) ==
    /\ At(p, "failed")
    /\ orphan' = IF NoOrphan(op[p].id) THEN orphan
                 ELSE [orphan EXCEPT ![op[p].id].att = op[p].att + 1]
    /\ Finish(p)
    /\ UNCHANGED <<row, vec, faults, mark>>

\* The replica dies, the request is cancelled or a warm statement fails:
\* the rest of the operation never runs.
Abort(p) ==
    /\ op[p] # Idle
    /\ Fail
    /\ Marked(op[p].id, {"disturbed"})
    /\ Finish(p)
    /\ UNCHANGED <<row, vec, orphan>>

-----------------------------------------------------------------------------
Request(p) ==
    \E id \in Ids :
        \/ DedupHit(p, id)
        \/ ForgetRead(p, id)
        \/ ForgetBySource(p, id)
        \/ \E n \in Namespaces :
              \/ PersistRemember(p, id, n)
              \/ PersistRaced(p, id, n)
              \/ UpdateContent(p, id, n)
              \/ UpdateNamespace(p, id, n)

Continue(p) ==
    \/ BackfillProbe(p)
    \/ UpdateReread(p)
    \/ UpsertOk(p)
    \/ Stamp(p)
    \/ ClearMissingVector(p)
    \/ ParkMissingVector(p)
    \/ WarmDelete(p)
    \/ ColdDeleteOk(p)
    \/ ParkOrphan(p)
    \/ BackfillLoad(p)
    \/ ReapSettle(p)
    \/ ReapFailed(p)

Failure(p) ==
    \/ EmbedEmpty(p)
    \/ UpdateRequeue(p)
    \/ EmbedFails(p)
    \/ UpsertFails(p)
    \/ ColdDeleteFails(p)
    \/ Abort(p)

Tick ==
    \/ \E p \in Reconcilers, id \in Ids : ReconcileList(p, id)
    \/ \E p \in Reapers, id \in Ids : ReapList(p, id)

Next ==
    \/ \E p \in Callers : Request(p)
    \/ Tick
    \/ \E p \in Procs : Continue(p) \/ Failure(p)

Spec == Init /\ [][Next]_vars

(***************************************************************************)
(* The tickers keep firing and a started operation keeps being scheduled   *)
(* (jobs.Run, one goroutine per loop).  Request handlers owe nothing: no   *)
(* fairness on Request.                                                    *)
(***************************************************************************)
FairSpec ==
    /\ Spec
    /\ \A p \in Procs : WF_vars(Continue(p))
    /\ \A p \in Reconcilers, id \in Ids : WF_vars(ReconcileList(p, id))
    /\ \A p \in Reapers, id \in Ids : WF_vars(ReapList(p, id))

-----------------------------------------------------------------------------
(* What the two stores owe each other. *)

\* A vector of a stored entry is never deleted: every cold delete, by forget or by
\* the reaper, runs only after the row is gone for good.
LiveVectorKept ==
    [][\A id \in Ids, n \in Namespaces :
          Live(id) /\ vec[id][n] # 0 => vec'[id][n] # 0]_vars

\* embedded_at is a fact, not a hope: a stored entry is stamped only if a vector of
\* it is in the cold store, whichever operations crossed on it and wherever they died.
StampHasVector ==
    \A id \in Ids : Live(id) /\ row[id].emb => \E n \in Namespaces : vec[id][n] # 0

\* Forgetting is complete or the rest is queued for deletion, for an entry whose
\* operations ran one after the other to their end, in one namespace, and that was
\* never parked for backfill nor remembered twice at once.
ForgetCompleteOrQueued ==
    \A id \in Ids :
        Gone(id) /\ ~Busy(id) /\ mark[id] \cap {"disturbed", "parked"} = {}
        => \A n \in Namespaces :
              vec[id][n] # 0 => orphan[id].kind = "delete" /\ orphan[id].ns = n

\* A stamped entry is found by its current wording, in its current namespace, unless
\* one of the marked accidents happened to it.
StampIsCurrent ==
    \A id \in Ids :
        Live(id) /\ row[id].emb /\ ~Busy(id)
            /\ mark[id] \cap {"disturbed", "reindex"} = {}
        => vec[id][row[id].ns] = row[id].ver

\* Every stored entry is eventually searchable by meaning, or forgotten, once the
\* embedder and the cold store stop failing.
EventuallyEmbedded ==
    \A id \in Ids : (Live(id) /\ ~row[id].emb) ~> (row[id].emb \/ Gone(id))

\* Every parked vector is eventually dealt with or visibly abandoned
\* (attempts = orphanMaxAttempts), whichever reapers race on it.
OrphanEventuallySettled ==
    \A id \in Ids : ~NoOrphan(id) ~> (NoOrphan(id) \/ orphan[id].att >= OrphanMaxAttempts)

-----------------------------------------------------------------------------
(* The promise this write path implements. *)

Lived(id) ==
    CASE row[id].st = "fresh" -> "absent"
      [] row[id].st = "gone"  -> "forgotten"
      [] OTHER                -> IF row[id].emb THEN "embedded" ELSE "queued"

Life == INSTANCE EntryLife WITH
    Wordings <- 1..MaxVer,
    life     <- [id \in Ids |-> Lived(id)],
    wording  <- [id \in Ids |-> row[id].ver],
    indexed  <- [id \in Ids |-> {vec[id][n] : n \in Namespaces} \ {0}]

\* However handlers, reconcilers and reapers interleave, fail and die, each of their steps
\* is one of EntryLife or changes nothing a client can see: the life of a memory runs one
\* way, its index holds only wordings it has had and is not emptied while it is stored.
ImplementsEntryLife == Life!Spec
=============================================================================
