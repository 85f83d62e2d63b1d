-------------------------------- MODULE Dream --------------------------------
(***************************************************************************)
(* The dream cycle: a walk over all entries that merges near-duplicates.   *)
(* A walk lists one slice of the table, moves the persisted cursor, and    *)
(* then, entry by entry, searches the vector store for neighbours and      *)
(* judges each against the text it listed.  A merge is a series of         *)
(* statements, each committed by itself: the hits are added to those of    *)
(* the entry that stays, the edges are redirected to it, and the rows of   *)
(* the other one are deleted, the entry last, its vector after that.       *)
(*                                                                         *)
(* Requests change entries meanwhile, and a second walk may run: on        *)
(* another replica, or started by hand (POST /v1/dream-cycle).             *)
(*                                                                         *)
(* One scope.  The ids are numbers: ULIDs, in the order of creation.       *)
(***************************************************************************)
EXTENDS Naturals, FiniteSets

CONSTANTS
    Ids,
    Texts,
    NoText,
    Alike,          \* pairs at or above both thresholds: cosine and Jaccard
    Stored,         \* the texts that entries may have at the start, NoText for none yet
    Dreamers,       \* walks that may run at the same time
    BatchSize,      \* dreamMaxEntries
    MaxHits,        \* bound: hits are counted up to this number
    MaxWrites,      \* bound: requests that change an entry in a run
    MaxFailures     \* bound: failed calls and walks that end half way

ASSUME DreamAssumption ==
    /\ Ids \subseteq Nat \ {0}
    /\ NoText \notin Texts
    /\ Alike \subseteq Texts \X Texts
    /\ \A s, t \in Texts : <<s, t>> \in Alike => <<t, s>> \in Alike
    /\ \A t \in Texts : <<t, t>> \in Alike
    /\ Stored \subseteq [Ids -> Texts \cup {NoText}]
    /\ BatchSize \in Nat \ {0}
    /\ MaxHits \in Nat

VARIABLES
    row,      \* memory_entries
    hits,     \* memory_access: None where an entry has no row
    fts,      \* ids with a row in memory_fts
    edges,    \* memory_relations, of one relation: a set, by uq_relation
    vec,      \* the text whose embedding the cold store holds for an id
    cursor,   \* engine_state "dream:cursor": 0 is the empty string
    dream,    \* the walks
    stirred,  \* history: a request came during a walk, or while a merge was half done
    writes, failures

dreamVars == <<row, hits, fts, edges, vec, cursor, dream, stirred, writes, failures>>

None == MaxHits + 1
Links == {e \in Ids \X Ids : e[1] # e[2]}
Row == [st : {"new", "live", "merged", "gone"}, text : Texts \cup {NoText}]

Merging == {"fold", "to", "from", "edges", "fts", "access", "entry", "vector"}
Awake == {"search", "judge"} \cup Merging
Idle == [pc |-> "idle"]
Walk == [pc : Awake,
         todo : SUBSET Ids,                     \* entries of the batch still to do
         listed : [Ids -> Texts \cup {NoText}], \* their texts when listed
         merged : SUBSET Ids,                   \* mergedSet
         near : SUBSET Ids,                     \* neighbours still to judge
         keep : Ids, drop : Ids,
         sum : Nat,                             \* hits of both when judged
         links : SUBSET Links,                  \* edges of both when judged
         met : SUBSET Ids]                      \* history: since listed, written or forgotten
                                                \* by a request, or in another walk's merge

Live(i) == row[i].st = "live"
Busy(d) == dream[d] # Idle
At(d, pc) == Busy(d) /\ dream[d].pc = pc
Count(i) == IF hits[i] = None THEN 0 ELSE hits[i]
AddHits(m, n) == IF m + n > MaxHits THEN MaxHits ELSE m + n
First(S) == CHOOSE i \in S : \A j \in S : i <= j
Touching(i, E) == {e \in E : e[1] = i \/ e[2] = i}

DreamTypeOK ==
    /\ row \in [Ids -> Row]
    /\ hits \in [Ids -> 0 .. None]
    /\ fts \subseteq Ids
    /\ edges \subseteq Links
    /\ vec \in [Ids -> Texts \cup {NoText}]
    /\ cursor \in Ids \cup {0}
    /\ dream \in [Dreamers -> Walk \cup {Idle}]
    /\ \A d \in Dreamers : Busy(d) => dream[d].todo # {}
    /\ \A i \in Ids : ~Live(i) => hits[i] = None /\ i \notin fts /\ Touching(i, edges) = {}
    /\ stirred \in BOOLEAN
    /\ writes \in Nat
    /\ failures \in Nat

\* A store as requests leave it: all rows of every entry, and edges from an entry to
\* the older ones unless its enrichment is still to come.  One may have been found more
\* often than the others.
DreamInit ==
    /\ \E t \in Stored :
          row = [i \in Ids |-> [st |-> IF t[i] = NoText THEN "new" ELSE "live", text |-> t[i]]]
    /\ \E k \in Ids \cup {0} :
          hits = [i \in Ids |-> IF ~Live(i) THEN None ELSE IF i = k THEN 1 ELSE 0]
    /\ fts = {i \in Ids : Live(i)}
    /\ \E S \in SUBSET {i \in Ids : Live(i)} : edges = {e \in Links : e[2] < e[1] /\ e[1] \in S}
    /\ vec = [i \in Ids |-> row[i].text]
    /\ cursor = 0
    /\ dream = [d \in Dreamers |-> Idle]
    /\ stirred = FALSE
    /\ writes = 0
    /\ failures = 0

-----------------------------------------------------------------------------
Fail == failures < MaxFailures /\ failures' = failures + 1
Set(d, w) == dream' = [dream EXCEPT ![d] = w]

\* The other walks see ids S change.
Meets(S) == [d \in Dreamers |-> IF Busy(d) THEN [dream[d] EXCEPT !.met = @ \cup S] ELSE Idle]
SetMeeting(d, w, S) == dream' = [Meets(S) EXCEPT ![d] = w]

-----------------------------------------------------------------------------
(* The walk. *)

\* Mutant: a slice counts as full only when it is over the limit.
NextCursorStuck(batch) ==
    IF Cardinality(batch) > BatchSize
    THEN CHOOSE i \in batch : \A j \in batch : j <= i
    ELSE 0

\* The persisted position after a slice: its last id if the slice is full, else the top.
NextCursor(batch) ==
    IF Cardinality(batch) = BatchSize
    THEN CHOOSE i \in batch : \A j \in batch : j <= i
    ELSE 0

\* The slice after the cursor, at most BatchSize entries; the cursor is moved before
\* the work is done.  A cursor that could not be saved is only logged.
Tick(d) ==
    /\ ~Busy(d)
    /\ LET rest == {i \in Ids : Live(i) /\ i > cursor}
           batch == {i \in rest : Cardinality({j \in rest : j < i}) < BatchSize} IN
       /\ \/ cursor' = NextCursor(batch) /\ UNCHANGED failures
          \/ Fail /\ UNCHANGED cursor
       /\ Set(d, IF batch = {} THEN Idle ELSE
                 [pc |-> "search", todo |-> batch,
                  listed |-> [i \in Ids |-> IF i \in batch THEN row[i].text ELSE NoText],
                  merged |-> {}, near |-> {}, keep |-> First(Ids), drop |-> First(Ids),
                  sum |-> 0, links |-> {}, met |-> {}])
    /\ UNCHANGED <<row, hits, fts, edges, vec, stirred, writes>>

\* On to the next entry of the batch, or the walk is over.
Onward(w, i) ==
    IF w.todo = {i} THEN Idle
    ELSE [w EXCEPT !.pc = "search", !.todo = @ \ {i}, !.near = {}, !.sum = 0, !.links = {}]

\* Embed the listed text and search; entries merged meanwhile and entries whose
\* embedding or search fails are passed over.
Search(d) ==
    /\ At(d, "search")
    /\ LET w == dream[d]
           i == First(w.todo)
           near == {n \in Ids \ ({i} \cup w.merged) :
                       vec[n] # NoText /\ <<w.listed[i], vec[n]>> \in Alike} IN
       \/ /\ i \notin w.merged /\ near # {}
          /\ Set(d, [w EXCEPT !.pc = "judge", !.near = near])
          /\ UNCHANGED failures
       \/ /\ i \in w.merged \/ near = {}
          /\ Set(d, Onward(w, i))
          /\ UNCHANGED failures
       \/ i \notin w.merged /\ Fail /\ Set(d, Onward(w, i))
    /\ UNCHANGED <<row, hits, fts, edges, vec, cursor, stirred, writes>>

\* Mutant: the neighbour is judged by its vector alone.
DuplicateByVector(t, i, n) == Live(n) /\ Live(i)

\* The neighbour and the entry are read again, but only the neighbour's text counts.
Duplicate(t, i, n) == Live(n) /\ Live(i) /\ <<t, row[n].text>> \in Alike

Stays(i, n) == Count(i) > Count(n) \/ (Count(i) = Count(n) /\ i < n)

Judge(d) ==
    /\ At(d, "judge")
    /\ LET w == dream[d]
           i == First(w.todo) IN
       \/ w.near = {} /\ Set(d, Onward(w, i))
       \/ \E n \in w.near :
             LET rest == [w EXCEPT !.near = @ \ {n}]
                 keep == IF Stays(i, n) THEN i ELSE n
                 drop == IF Stays(i, n) THEN n ELSE i IN
             IF Duplicate(w.listed[i], i, n)
             THEN Set(d, [rest EXCEPT !.pc = "fold", !.keep = keep, !.drop = drop,
                                      !.sum = AddHits(Count(i), Count(n)),
                                      !.links = Touching(drop, edges)])
             ELSE Set(d, rest)
    /\ UNCHANGED <<row, hits, fts, edges, vec, cursor, stirred, writes, failures>>

-----------------------------------------------------------------------------
(* mergeEntries, statement by statement. *)

Then(d, pc) ==
    LET w == dream[d] IN SetMeeting(d, [w EXCEPT !.pc = pc], {w.keep, w.drop})

\* The merge failed; the walk goes on with the next neighbour.
GiveUp(d) == Set(d, [dream[d] EXCEPT !.pc = "judge"])

\* Nothing is added to an entry that has no access row.
Fold(d) ==
    /\ At(d, "fold")
    /\ LET k == dream[d].keep IN
       hits' = [hits EXCEPT ![k] = IF @ = None THEN None ELSE AddHits(@, Count(dream[d].drop))]
    /\ Then(d, "to")
    /\ UNCHANGED <<row, fts, edges, vec, cursor, stirred, writes, failures>>

\* One UPDATE of memory_relations: it fails as a whole if an edge it would make exists
\* already, or if the entry that is kept is gone.
Redirect(d, old, new, pc) ==
    /\ IF new \cap edges = {} /\ (old = {} \/ Live(dream[d].keep))
       THEN edges' = (edges \ old) \cup new /\ Then(d, pc)
       ELSE UNCHANGED edges /\ GiveUp(d)
    /\ UNCHANGED <<row, hits, fts, vec, cursor, stirred, writes, failures>>

RedirectTo(d) ==
    /\ At(d, "to")
    /\ LET k == dream[d].keep
           old == {e \in edges : e[2] = dream[d].drop /\ e[1] # k} IN
       Redirect(d, old, {<<e[1], k>> : e \in old}, "from")

\* Mutant: the edges from the loser are left to be deleted.
RedirectFromNone(d) == At(d, "from") /\ Redirect(d, {}, {}, "edges")

RedirectFrom(d) ==
    /\ At(d, "from")
    /\ LET k == dream[d].keep
           old == {e \in edges : e[1] = dream[d].drop /\ e[2] # k} IN
       Redirect(d, old, {<<k, e[2]>> : e \in old}, "edges")

DropEdges(d) ==
    /\ At(d, "edges")
    /\ edges' = edges \ Touching(dream[d].drop, edges)
    /\ Then(d, "fts")
    /\ UNCHANGED <<row, hits, fts, vec, cursor, stirred, writes, failures>>

DropFts(d) ==
    /\ At(d, "fts")
    /\ fts' = fts \ {dream[d].drop}
    /\ Then(d, "access")
    /\ UNCHANGED <<row, hits, edges, vec, cursor, stirred, writes, failures>>

DropAccess(d) ==
    /\ At(d, "access")
    /\ hits' = [hits EXCEPT ![dream[d].drop] = None]
    /\ Then(d, "entry")
    /\ UNCHANGED <<row, fts, edges, vec, cursor, stirred, writes, failures>>

\* Deleting an entry takes with it, by foreign key, whatever rows refer to it by now.
Delete(i, st) ==
    /\ row' = [row EXCEPT ![i].st = st]
    /\ hits' = [hits EXCEPT ![i] = None]
    /\ fts' = fts \ {i}
    /\ edges' = edges \ Touching(i, edges)

DropEntry(d) ==
    /\ At(d, "entry")
    /\ LET i == dream[d].drop IN Delete(i, IF Live(i) THEN "merged" ELSE row[i].st)
    /\ Then(d, "vector")
    /\ UNCHANGED <<vec, cursor, stirred, writes, failures>>

\* A vector that could not be deleted is only logged, and nobody tries again.
DropVector(d) ==
    /\ At(d, "vector")
    /\ LET w == dream[d]
           done == [w EXCEPT !.merged = @ \cup {w.drop}, !.pc = "judge"]
           i == First(w.todo) IN
       /\ Set(d, IF w.drop = i THEN Onward(done, i) ELSE done)
       /\ \/ vec' = [vec EXCEPT ![w.drop] = NoText] /\ UNCHANGED failures
          \/ Fail /\ UNCHANGED vec
    /\ UNCHANGED <<row, hits, fts, edges, cursor, stirred, writes>>

\* A statement fails, or the process dies.
StatementFails(d) ==
    /\ Busy(d) /\ dream[d].pc \in Merging \ {"vector"} /\ Fail
    /\ GiveUp(d)
    /\ UNCHANGED <<row, hits, fts, edges, vec, cursor, stirred, writes>>

Crash(d) ==
    /\ Busy(d) /\ Fail
    /\ Set(d, Idle)
    /\ UNCHANGED <<row, hits, fts, edges, vec, cursor, stirred, writes>>

-----------------------------------------------------------------------------
(* Requests. *)

HalfDeleted(i) == Live(i) /\ i \notin fts

Request(S) ==
    /\ writes < MaxWrites /\ writes' = writes + 1
    /\ dream' = Meets(S)
    /\ stirred' = (stirred \/ (\E i \in Ids : HalfDeleted(i))
                           \/ \E d \in Dreamers : Busy(d))
    /\ UNCHANGED <<vec, cursor, failures>>

Remember(i, t) ==
    /\ row[i].st = "new" /\ \A j \in Ids : j < i => row[j].st # "new"
    /\ \A j \in Ids : Live(j) => row[j].text # t
    /\ row' = [row EXCEPT ![i] = [st |-> "live", text |-> t]]
    /\ hits' = [hits EXCEPT ![i] = 0]
    /\ fts' = fts \cup {i}
    /\ UNCHANGED edges
    /\ Request({i})

Rewrite(i, t) ==
    /\ Live(i) /\ \A j \in Ids : Live(j) => row[j].text # t
    /\ row' = [row EXCEPT ![i].text = t]
    /\ UNCHANGED <<hits, fts, edges>>
    /\ Request({i})

Forget(i) == Live(i) /\ Delete(i, "gone") /\ Request({i})

\* A search hit: the access row is made if there is none.
BumpHits(i) ==
    /\ Live(i)
    /\ hits' = [hits EXCEPT ![i] = AddHits(Count(i), 1)]
    /\ UNCHANGED <<row, fts, edges>>
    /\ Request({})

AddRelation(i, j) ==
    /\ Live(i) /\ Live(j) /\ i # j
    /\ edges' = edges \cup {<<i, j>>}
    /\ UNCHANGED <<row, hits, fts>>
    /\ Request({})

\* The vector follows the row (VectorTier), but not that of the loser of a merge.
Reindex(i) ==
    /\ row[i].st # "merged"
    /\ vec[i] # IF Live(i) THEN row[i].text ELSE NoText
    /\ vec' = [vec EXCEPT ![i] = IF Live(i) THEN row[i].text ELSE NoText]
    /\ UNCHANGED <<row, hits, fts, edges, cursor, dream, stirred, writes, failures>>

-----------------------------------------------------------------------------
Step(d) ==
    \/ Search(d) \/ Judge(d)
    \/ Fold(d) \/ RedirectTo(d) \/ RedirectFrom(d) \/ DropEdges(d) \/ DropFts(d)
    \/ DropAccess(d) \/ DropEntry(d) \/ DropVector(d)

DreamNext ==
    \/ \E d \in Dreamers : Tick(d) \/ Step(d) \/ StatementFails(d) \/ Crash(d)
    \/ \E i \in Ids, t \in Texts : Remember(i, t) \/ Rewrite(i, t)
    \/ \E i \in Ids : Forget(i) \/ BumpHits(i) \/ Reindex(i)
    \/ \E i, j \in Ids : AddRelation(i, j)

DreamSpec == DreamInit /\ [][DreamNext]_dreamVars

\* Every walk comes to its end, the next one comes, and vectors follow their rows.
FairDream ==
    /\ DreamSpec
    /\ \A d \in Dreamers : WF_dreamVars(Tick(d)) /\ WF_dreamVars(Step(d))
    /\ \A i \in Ids : WF_dreamVars(Reindex(i))

-----------------------------------------------------------------------------
(* Properties. *)

\* Neither text of the pair was written, and neither entry forgotten or merged by another
\* walk, since the listing.
Untouched(d) == dream[d].met \cap {dream[d].keep, dream[d].drop} = {}

\* A merge deletes an entry only while one with the same content stays, unless one of the
\* two was written, forgotten or merged elsewhere after the walk had listed it (DreamCycle,
\* both gates).
TextKept(d) ==
    DropEntry(d) /\ Untouched(d) =>
        LET k == dream[d].keep IN
        Live(k) /\ <<row[k].text, row[dream[d].drop].text>> \in Alike

\* Whoever was linked to the loser of such a merge is linked to the survivor, hits and
\* edges that requests add between its statements notwithstanding, unless it was written,
\* forgotten or merged meanwhile (mergeEntries, the two redirections).
EdgesFollow(d) ==
    DropEntry(d) /\ Untouched(d) =>
        LET k == dream[d].keep
            n == dream[d].drop IN
        \A e \in dream[d].links :
            LET m == IF e[1] = n THEN e[2] ELSE e[1] IN
            m = k \/ m \in dream[d].met
              \/ (IF e[1] = n THEN <<k, m>> ELSE <<m, k>>) \in edges

\* What a merge must keep: the text and the links of the one it deletes.
MergeKeeps == [][\A d \in Dreamers : TextKept(d) /\ EdgesFollow(d)]_dreamVars

\* Every entry is walked again and again, for as long as it lives (the cursor).
EveryEntryWalked ==
    \A i \in Ids : Live(i) ~> (~Live(i) \/ \E d \in Dreamers : Busy(d) /\ i \in dream[d].todo)

\* A merge that stopped between its statements is finished by a later walk, unless a
\* request came in between.
HalfMergedFinishes ==
    \A i \in Ids : HalfDeleted(i) ~> (~Live(i) \/ stirred)

\* The walk comes round, to every entry and to every merge it left.
WalkComesRound == EveryEntryWalked /\ HalfMergedFinishes

=============================================================================
