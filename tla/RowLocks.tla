------------------------------ MODULE RowLocks ------------------------------
(***************************************************************************)
(* Row locks of the warm store (Postgres, READ COMMITTED).  A memory is a  *)
(* memory_entries row with one row in memory_fts and one in memory_access, *)
(* and edges to other memories in memory_relations.  Every path of the     *)
(* code that touches several of them is a transaction that runs its        *)
(* statements in a fixed order of tables; a statement locks the rows it    *)
(* matches one by one, in key order only where the code asks for one, and  *)
(* keeps them to the end of the transaction.  Two transactions that wait   *)
(* for each other are a deadlock: Postgres rolls one of them back and the  *)
(* caller gets SQLSTATE 40P01.                                             *)
(***************************************************************************)
EXTENDS Integers, Sequences

CONSTANTS
    Entries,    \* ids, a set of integers: ORDER BY id is <=
    Edges,      \* memory_relations rows, integers in heap order
    Ends,       \* the two entries of an edge
    Txns,       \* database connections
    Paths,      \* code paths that run (see AllPaths)
    Free        \* lock owner of an unlocked row

AllPaths == {"forget", "forgetSource", "forgetFacts", "update", "bump",
             "reapExpired", "deleteProject", "deleteUser"}

\* The paths that lock the memory_entries row before any other row of the entry.
EntryFirst == {"forget", "forgetSource", "forgetFacts", "update"}

\* The paths that besides take contended rows in one order of their keys.
OneOrder == {"forget", "forgetSource", "update"}

ASSUME RowLocksAssumption ==
    /\ Entries \subseteq Int
    /\ Edges \subseteq Int
    /\ Ends \in [Edges -> SUBSET Entries]
    /\ Paths \subseteq AllPaths
    /\ Free \notin Txns

VARIABLES
    rows,   \* committed rows, <<table, key>>
    lock,   \* who holds each row
    txn     \* what each connection is running

vars == <<rows, lock, txn>>

Tables == {"entries", "fts", "access", "relations"}
AllRows == ({"entries", "fts", "access"} \X Entries) \cup ({"relations"} \X Edges)

Idle == [path |-> "none"]
None == <<"none", 0>>
Txn == [path : Paths, ids : SUBSET Entries, at : 1..5,
        todo : SUBSET AllRows, want : AllRows \cup {None}]

TypeOK ==
    /\ rows \subseteq AllRows
    /\ lock \in [AllRows -> Txns \cup {Free}]
    /\ txn \in [Txns -> Txn \cup {Idle}]

-----------------------------------------------------------------------------
(* The paths. *)

(* The tables a path's statements touch, in their order.  The forgets begin with a *)
(* SELECT ... FOR UPDATE of the entries; the teardowns and the TTL reaper do not.  *)

\* Mutant: the shadow rows are deleted first.
DeleteEntryShadowsFirst == <<"fts", "access", "relations", "entries">>

DeleteEntry == <<"entries", "fts", "access", "relations", "entries">>
DeleteEntriesBySourceRef == <<"entries", "fts", "access", "relations", "entries">>
DeleteDerivedFacts == <<"entries", "fts", "access", "relations", "entries">>
UpdateEntry == <<"entries", "fts">>
BumpHitsMany == <<"access">>
ReapExpired == <<"fts", "access", "relations", "entries">>
DeleteProject == <<"access", "fts", "relations", "entries">>
DeleteUserData == <<"access", "fts", "relations", "entries">>

Plan(p) ==
    CASE p = "forget"        -> DeleteEntry
      [] p = "forgetSource"  -> DeleteEntriesBySourceRef
      [] p = "forgetFacts"   -> DeleteDerivedFacts
      [] p = "update"        -> UpdateEntry
      [] p = "bump"          -> BumpHitsMany
      [] p = "reapExpired"   -> ReapExpired
      [] p = "deleteProject" -> DeleteProject
      [] OTHER               -> DeleteUserData

\* How many entries a call names: one, any, or all of a project or user.
Scope(p) ==
    CASE p \in {"forget", "update"} -> {{i} : i \in Entries}
      [] p \in {"deleteProject", "deleteUser"} -> {Entries}
      [] OTHER -> SUBSET Entries \ {{}}

\* Statements that lock in key order: the two the code sorts, and the scan of
\* memory_relations, whose OR condition allows no other order than the heap's.
Sorted(p, at) ==
    \/ Plan(p)[at] = "relations"
    \/ p = "forgetSource" /\ at = 1
    \/ p = "bump"

Deletes(p) == p \notin {"update", "bump"}

\* Rows of the table that belong to the entries ids.
RowsOf(table, ids) ==
    {r \in AllRows : r[1] = table /\ IF table = "relations" THEN Ends[r[2]] \cap ids # {}
                                                            ELSE r[2] \in ids}

Held(t) == {r \in AllRows : lock[r] = t}

\* FK ON DELETE CASCADE: what goes with a set of deleted rows.
Cascade(rs) ==
    LET ids == {r[2] : r \in {s \in rs : s[1] = "entries"}}
    IN  rs \cup UNION {RowsOf(table, ids) : table \in Tables}

-----------------------------------------------------------------------------
Init ==
    /\ rows = AllRows
    /\ lock = [r \in AllRows |-> Free]
    /\ txn = [t \in Txns |-> Idle]

Begin(t, p, ids) ==
    /\ txn[t] = Idle
    /\ txn' = [txn EXCEPT ![t] = [path |-> p, ids |-> ids, at |-> 1, want |-> None,
                                  todo |-> rows \cap RowsOf(Plan(p)[1], ids)]]
    /\ UNCHANGED <<rows, lock>>

\* The running statement turns to its next row.
Pick(t, r) ==
    /\ txn[t] # Idle /\ txn[t].want = None /\ r \in txn[t].todo
    /\ Sorted(txn[t].path, txn[t].at) => \A s \in txn[t].todo : r[2] <= s[2]
    /\ txn' = [txn EXCEPT ![t].want = r, ![t].todo = @ \ {r}]
    /\ UNCHANGED <<rows, lock>>

\* It locks the row once nobody else holds it; a row deleted meanwhile is skipped.
Acquire(t) ==
    /\ txn[t] # Idle /\ txn[t].want # None
    /\ lock[txn[t].want] \in {Free, t}
    /\ lock' = IF txn[t].want \in rows THEN [lock EXCEPT ![txn[t].want] = t] ELSE lock
    /\ txn' = [txn EXCEPT ![t].want = None]
    /\ UNCHANGED rows

StatementDone(t) == txn[t] # Idle /\ txn[t].want = None /\ txn[t].todo = {}
LastStatement(t) == txn[t].at = Len(Plan(txn[t].path))

\* The entries the first statement found; the paths without one keep what they were given.
Found(t) ==
    IF Plan(txn[t].path)[1] = "entries"
    THEN {i \in txn[t].ids : lock[<<"entries", i>>] = t} ELSE txn[t].ids

NextStatement(t) ==
    /\ StatementDone(t) /\ ~LastStatement(t)
    /\ Found(t) # {}
    /\ LET p == txn[t].path
           at == txn[t].at + 1
       IN  txn' = [txn EXCEPT ![t].at = at, ![t].ids = Found(t),
                              ![t].todo = rows \cap RowsOf(Plan(p)[at], Found(t))]
    /\ UNCHANGED <<rows, lock>>

End(t) ==
    /\ lock' = [r \in AllRows |-> IF lock[r] = t THEN Free ELSE lock[r]]
    /\ txn' = [txn EXCEPT ![t] = Idle]

\* Nothing matched: the early returns.
NothingFound(t) ==
    /\ StatementDone(t) /\ ~LastStatement(t)
    /\ Found(t) = {}
    /\ End(t)
    /\ UNCHANGED rows

Commit(t) ==
    /\ StatementDone(t) /\ LastStatement(t)
    /\ rows' = IF Deletes(txn[t].path) THEN rows \ Cascade(Held(t)) ELSE rows
    /\ End(t)

-----------------------------------------------------------------------------
(* Deadlock. *)

Waiting(t) == txn[t] # Idle /\ txn[t].want # None /\ lock[txn[t].want] \notin {Free, t}
Blocker(t) == lock[txn[t].want]

\* A set of transactions each of which waits for another of the set.
Stuck(D) == D # {} /\ \A t \in D : Waiting(t) /\ Blocker(t) \in D

\* Mutant: the deleted rows of the victim stay deleted, as without a transaction.
VictimKeepsDeletes(t) ==
    /\ \E D \in SUBSET Txns : t \in D /\ Stuck(D)
    /\ rows' = IF Deletes(txn[t].path) THEN rows \ Held(t) ELSE rows
    /\ End(t)

\* deadlock_timeout: one of them gets 40P01, and its deferred Rollback undoes it.
Victim(t) ==
    /\ \E D \in SUBSET Txns : t \in D /\ Stuck(D)
    /\ End(t)
    /\ UNCHANGED rows

Step(t) == (\E r \in AllRows : Pick(t, r)) \/ NextStatement(t) \/ NothingFound(t) \/ Commit(t)

Next ==
    \E t \in Txns :
        \/ \E p \in Paths : \E ids \in Scope(p) : Begin(t, p, ids)
        \/ Step(t)
        \/ Acquire(t)
        \/ Victim(t)

Spec == Init /\ [][Next]_vars

(***************************************************************************)
(* A connection keeps executing; Postgres queues the waiters of a row, so  *)
(* none is overtaken for ever; and its deadlock detector always runs.      *)
(***************************************************************************)
FairSpec ==
    /\ Spec
    /\ \A t \in Txns : WF_vars(Step(t)) /\ SF_vars(Acquire(t))
    /\ WF_vars(\E t \in Txns : Victim(t))

-----------------------------------------------------------------------------
(* Promises. *)

\* Whoever waits in a circle, one of them runs a path that does not keep the lock order:
\* those that do never deadlock with each other, whatever else runs beside them.
NoDeadlock == \A D \in SUBSET Txns : Stuck(D) => \E t \in D : txn[t].path \notin OneOrder

\* entries.go, DeleteEntry: "Every path that deletes an entry must lock the entries row
\* first": on the paths that do, whoever holds another row of an entry in order to delete
\* it holds the entry.
EntriesLockedFirst ==
    \A t \in Txns :
        txn[t] # Idle /\ Deletes(txn[t].path) /\ txn[t].path \in EntryFirst
        => \A r \in Held(t) :
              IF r[1] = "relations" THEN \E i \in Ends[r[2]] : lock[<<"entries", i>>] = t
                                    ELSE lock[<<"entries", r[2]>>] = t

\* An entry is there with its keyword row and its counters or not at all, and no edge
\* dangles, whichever transactions crossed on it and whichever were rolled back.
NoHalfDeleted ==
    \A r \in AllRows :
        IF r[1] = "relations"
        THEN r \in rows => \A i \in Ends[r[2]] : <<"entries", i>> \in rows
        ELSE r \in rows <=> <<"entries", r[2]>> \in rows

=============================================================================
