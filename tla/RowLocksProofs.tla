--------------------------- MODULE RowLocksProofs ---------------------------
(***************************************************************************)
(* For any number of entries, edges and connections and for all the paths  *)
(* together: transactions on the paths that lock entries first and in one  *)
(* order of their keys never deadlock with each other.  Such a transaction *)
(* waits for another of them only for an entry, holding only smaller       *)
(* entries, or for an edge, holding only smaller edges; so along a circle  *)
(* of waits the wanted key would grow for ever.  And every entry is there  *)
(* with its keyword row and its counters or not at all: a transaction that *)
(* deletes has, when it commits, locked the entry of every row it holds.   *)
(*                                                                         *)
(* For any number of processes and builds that come up: whoever serves     *)
(* serves over the schema of its build, and each process, wherever it is   *)
(* in Migrate and in the seeding, has left behind it what it says there.   *)
(*                                                                         *)
(* For any number of memories, tasks and reconcilers: a marker is cleared  *)
(* when its edges are there, tasks exceed their cap by no more than passed *)
(* the check together, and neighbours are what is near, and all of it.     *)
(***************************************************************************)
EXTENDS RowLocks, Startup, Enrichment, FiniteSetTheorems, WellFoundedInduction, TLAPS

Active(t) == txn[t] # Idle
Table(t) == Plan(txn[t].path)[txn[t].at]

\* The rows the running statement still has to lock.
Pending(t) == {r \in AllRows : r \in txn[t].todo \/ r = txn[t].want}

\* Transactions stay within their plan and lock only rows of the entries they hold.
OnPlan ==
    \A t \in Txns : Active(t) =>
        /\ txn[t].at <= Len(Plan(txn[t].path))
        /\ Pending(t) \subseteq RowsOf(Table(t), txn[t].ids)
        /\ txn[t].path \in EntryFirst /\ txn[t].at > 1 =>
              \A i \in txn[t].ids : lock[<<"entries", i>>] = t
        /\ txn[t].path \in OneOrder /\ txn[t].at = 1 /\ txn[t].path # "forgetSource" =>
              \E i \in Entries : txn[t].ids = {i}

\* No lock outlives its transaction, and a path that locks entries first holds no other
\* row without the entry's.
Beneath(r, u) ==
    /\ r[1] \in {"fts", "access"} => txn[u].at > 1 /\ lock[<<"entries", r[2]>>] = u
    /\ r[1] = "relations" => txn[u].at > 3 /\ \E i \in Ends[r[2]] : lock[<<"entries", i>>] = u

UnderEntry ==
    \A r \in AllRows, u \in Txns :
        lock[r] = u => Active(u) /\ (txn[u].path \in EntryFirst => Beneath(r, u))

\* The paths of one order take entries and edges in the order of their keys.
InOrder ==
    \A t \in Txns : Active(t) /\ txn[t].path \in OneOrder /\ txn[t].at \in {1, 4} =>
        /\ \A r \in Held(t), s \in Pending(t) :
              r[1] = s[1] => r[2] < s[2]
        /\ txn[t].want # None => \A s \in txn[t].todo : txn[t].want[2] < s[2]

IInv == TypeOK /\ OnPlan /\ UnderEntry /\ InOrder

-----------------------------------------------------------------------------
(* Rows and plans. *)

LEMMA RowShape ==
    ASSUME NEW r \in AllRows
    PROVE  /\ r = <<r[1], r[2]>>
           /\ r[2] \in Int
           /\ \/ r[1] \in {"entries", "fts", "access"} /\ r[2] \in Entries
              \/ r[1] = "relations" /\ r[2] \in Edges
           /\ r # None
<1>1. \/ \E a \in {"entries", "fts", "access"}, b \in Entries : r = <<a, b>>
      \/ \E b \in Edges : r = <<"relations", b>>
  BY DEF AllRows
<1>2. ASSUME NEW a \in {"entries", "fts", "access"}, NEW b \in Entries, r = <<a, b>>
      PROVE  r[1] = a /\ r[2] = b /\ b \in Int /\ r # None
  BY <1>2, RowLocksAssumption DEF None
<1>3. ASSUME NEW b \in Edges, r = <<"relations", b>>
      PROVE  r[1] = "relations" /\ r[2] = b /\ b \in Int /\ r # None
  BY <1>3, RowLocksAssumption DEF None
<1>4. QED
  BY <1>1, <1>2, <1>3

LEMMA EntryRow ==
    ASSUME NEW i \in Entries
    PROVE  <<"entries", i>> \in AllRows /\ <<"entries", i>>[1] = "entries"
           /\ <<"entries", i>>[2] = i
BY DEF AllRows

LEMMA SameRow ==
    ASSUME NEW r \in AllRows, NEW s \in AllRows, r[1] = s[1], r # s
    PROVE  r[2] # s[2]
BY RowShape

LEMMA PlanShape ==
    ASSUME NEW p \in Paths
    PROVE  /\ Len(Plan(p)) \in {1, 2, 4, 5}
           /\ Deletes(p) => Len(Plan(p)) \in {4, 5} /\ Plan(p)[Len(Plan(p))] = "entries"
           /\ p \in EntryFirst =>
                /\ Plan(p)[1] = "entries"
                /\ p = "update" => Len(Plan(p)) = 2 /\ Plan(p)[2] = "fts"
                /\ p # "update" => /\ Len(Plan(p)) = 5
                                   /\ Plan(p)[2] = "fts"
                                   /\ Plan(p)[3] = "access"
                                   /\ Plan(p)[4] = "relations"
                                   /\ Plan(p)[5] = "entries"
<1>1. CASE p = "update"
  BY <1>1 DEF Plan, UpdateEntry, Deletes
<1>2. CASE p = "bump"
  BY <1>2 DEF Plan, BumpHitsMany, Deletes, EntryFirst
<1>3. CASE p \in {"forget", "forgetSource", "forgetFacts"}
  BY <1>3 DEF Plan, DeleteEntry, DeleteEntriesBySourceRef, DeleteDerivedFacts
<1>4. CASE p \in {"reapExpired", "deleteProject", "deleteUser"}
  BY <1>4 DEF Plan, ReapExpired, DeleteProject, DeleteUserData, EntryFirst
<1>5. QED
  BY <1>1, <1>2, <1>3, <1>4, RowLocksAssumption DEF AllPaths

LEMMA OneOrderEntryFirst == OneOrder \subseteq EntryFirst
BY DEF OneOrder, EntryFirst

LEMMA RowsOfTable ==
    ASSUME NEW table, NEW ids \in SUBSET Entries, NEW r \in RowsOf(table, ids)
    PROVE  /\ r \in AllRows
           /\ r[1] = table
           /\ table # "relations" => r[2] \in ids
           /\ table = "relations" => \E i \in Ends[r[2]] : i \in ids
BY DEF RowsOf

-----------------------------------------------------------------------------
(* Preservation of the invariant. *)

LEMMA TxnTyped ==
    ASSUME TypeOK, NEW t \in Txns, Active(t)
    PROVE  /\ txn[t] \in Txn
           /\ txn[t].path \in Paths
           /\ txn[t].ids \in SUBSET Entries
           /\ txn[t].at \in 1..5
           /\ txn[t].todo \in SUBSET AllRows
           /\ txn[t].want \in AllRows \cup {None}
BY DEF TypeOK, Active, Txn

LEMMA TxnNotIdle == Idle \notin Txn
BY DEF Idle, Txn

LEMMA EndsAreEntries == ASSUME NEW e \in Edges, NEW i \in Ends[e] PROVE i \in Entries
BY RowLocksAssumption

LEMMA InvInit == ASSUME Init PROVE IInv
<1>1. TypeOK
  BY DEF Init, TypeOK
<1>2. OnPlan /\ InOrder
  BY DEF Init, OnPlan, InOrder, Active
<1>3. UnderEntry
  BY RowLocksAssumption DEF Init, UnderEntry
<1>4. QED
  BY <1>1, <1>2, <1>3 DEF IInv

LEMMA InvBegin ==
    ASSUME IInv, NEW t \in Txns, NEW p \in Paths, NEW ids \in Scope(p),
           Begin(t, p, ids)
    PROVE  IInv'
<1> DEFINE new == [path |-> p, ids |-> ids, at |-> 1, want |-> None,
                   todo |-> rows \cap RowsOf(Plan(p)[1], ids)]
<1>1. /\ txn[t] = Idle
      /\ txn' = [txn EXCEPT ![t] = new]
      /\ rows' = rows /\ lock' = lock
  BY DEF Begin
<1>2. /\ ids \in SUBSET Entries
      /\ p \in OneOrder /\ p # "forgetSource" => \E i \in Entries : ids = {i}
  BY DEF Scope, OneOrder
<1>3. new \in Txn
  BY <1>2 DEF Txn, RowsOf
<1>4. new # Idle
  BY <1>3, TxnNotIdle
<1>5. /\ txn'[t] = new
      /\ \A u \in Txns : u # t => txn'[u] = txn[u]
  BY <1>1 DEF IInv, TypeOK
<1>6. TypeOK'
  BY <1>1, <1>3 DEF IInv, TypeOK
<1>7. \A r \in AllRows : lock[r] # t
  BY <1>1, RowLocksAssumption DEF IInv, UnderEntry, Active
<1>8. \A r \in AllRows : lock[r] # Free => lock[r] \in Txns /\ lock[r] # t
  BY <1>7 DEF IInv, TypeOK
<1>9. 1 <= Len(Plan(p))
  BY PlanShape
<1>10. None \notin AllRows
  BY RowShape
<1>11. OnPlan'
  <2>1. ASSUME NEW u \in Txns, u # t, Active(u)'
        PROVE  /\ txn[u].at <= Len(Plan(txn[u].path))
               /\ Pending(u) \subseteq RowsOf(Table(u), txn[u].ids)
               /\ txn[u].path \in EntryFirst /\ txn[u].at > 1 =>
                     \A i \in txn[u].ids : lock[<<"entries", i>>] = u
               /\ txn[u].path \in OneOrder /\ txn[u].at = 1 /\ txn[u].path # "forgetSource" =>
                     \E i \in Entries : txn[u].ids = {i}
    BY <1>5, <2>1 DEF IInv, OnPlan, Active
  <2>2. Pending(t)' \subseteq RowsOf(Table(t)', ids)
    BY <1>5, <1>10 DEF Pending, Table
  <2>3. QED
    BY <1>1, <1>2, <1>5, <1>9, <2>1, <2>2 DEF OnPlan, Pending, Table
<1>12. UnderEntry'
  <2>1. SUFFICES ASSUME NEW r \in AllRows, NEW u \in Txns, lock'[r] = u
                 PROVE  Active(u)' /\ (txn'[u].path \in EntryFirst => Beneath(r, u)')
    BY DEF UnderEntry
  <2>2. lock[r] = u /\ u # t
    BY <1>1, <1>7, <2>1
  <2>3. Active(u) /\ (txn[u].path \in EntryFirst => Beneath(r, u))
    BY <2>2 DEF IInv, UnderEntry
  <2>4. txn'[u] = txn[u]
    BY <1>5, <2>2
  <2>5. QED
    BY <1>1, <2>3, <2>4 DEF Active, Beneath
<1>13. InOrder'
  <2>1. Held(t)' = {}
    BY <1>1, <1>7 DEF Held
  <2>2. QED
    BY <1>1, <1>5, <2>1 DEF IInv, InOrder, Active, Held, Pending
<1>14. QED
  BY <1>6, <1>11, <1>12, <1>13 DEF IInv

LEMMA InvPick ==
    ASSUME IInv, NEW t \in Txns, NEW r \in AllRows, Pick(t, r)
    PROVE  IInv'
<1> DEFINE new == [txn[t] EXCEPT !.want = r, !.todo = @ \ {r}]
           p == txn[t].path
<1>1. /\ Active(t) /\ txn[t].want = None /\ r \in txn[t].todo
      /\ txn' = [txn EXCEPT ![t] = new]
      /\ rows' = rows /\ lock' = lock
  BY DEF Pick, Active
<1>2. /\ txn[t] \in Txn /\ p \in Paths /\ txn[t].at \in 1..5
      /\ txn[t].ids \in SUBSET Entries /\ txn[t].todo \in SUBSET AllRows
  BY <1>1, TxnTyped DEF IInv
<1>3. /\ new \in Txn
      /\ new.path = p /\ new.at = txn[t].at /\ new.ids = txn[t].ids
      /\ new.want = r /\ new.todo = txn[t].todo \ {r}
  BY <1>2 DEF Txn
<1>4. new # Idle
  BY <1>3, TxnNotIdle
<1>5. /\ txn'[t] = new
      /\ \A u \in Txns : u # t => txn'[u] = txn[u]
  BY <1>1 DEF IInv, TypeOK
<1> HIDE DEF new
<1>6. TypeOK'
  BY <1>1, <1>3 DEF IInv, TypeOK
<1>7. /\ \A u \in Txns : Active(u)' <=> Active(u)
      /\ \A u \in Txns : txn'[u].at = txn[u].at /\ txn'[u].path = txn[u].path
                         /\ txn'[u].ids = txn[u].ids
  BY <1>1, <1>3, <1>4, <1>5 DEF Active
<1>8. \A u \in Txns : Pending(u)' = Pending(u)
  <2>1. None \notin AllRows
    BY RowShape
  <2>2. Pending(t)' = Pending(t)
    BY <1>1, <1>3, <1>5, <2>1 DEF Pending
  <2>3. QED
    BY <1>5, <2>2 DEF Pending
<1>9. OnPlan'
  BY <1>1, <1>7, <1>8 DEF IInv, OnPlan, Table
<1>10. \A s \in AllRows : lock[s] # Free => lock[s] \in Txns
  BY DEF IInv, TypeOK
<1>11. UnderEntry'
  BY <1>1, <1>7, <1>10 DEF IInv, UnderEntry, Beneath
<1>12. ASSUME p \in OneOrder, txn[t].at \in {1, 4}, NEW s \in txn[t].todo \ {r} PROVE r[2] < s[2]
  <2>1. /\ txn[t].at <= Len(Plan(p))
        /\ r \in RowsOf(Table(t), txn[t].ids)
        /\ s \in RowsOf(Table(t), txn[t].ids)
        /\ p \in OneOrder
        /\ txn[t].at = 1 /\ p # "forgetSource" => \E i \in Entries : txn[t].ids = {i}
    BY <1>1, <1>2, <1>12 DEF IInv, OnPlan, Pending
  <2>2. /\ r \in AllRows /\ s \in AllRows /\ r # s
        /\ r[1] = Table(t) /\ s[1] = Table(t)
        /\ Table(t) # "relations" => r[2] \in txn[t].ids /\ s[2] \in txn[t].ids
    BY <1>2, <1>12, <2>1, RowsOfTable
  <2>3. r[2] \in Int /\ s[2] \in Int /\ r[2] # s[2]
    BY <2>2, RowShape, SameRow
  <2>4. Sorted(p, txn[t].at)
    <3>1. CASE txn[t].at = 4
      BY <1>2, <1>12, <2>1, <3>1, PlanShape, OneOrderEntryFirst DEF Sorted
    <3>2. CASE txn[t].at = 1 /\ p = "forgetSource"
      BY <3>2 DEF Sorted
    <3>3. CASE txn[t].at = 1 /\ p # "forgetSource"
      <4>1. Table(t) = "entries"
        BY <1>2, <1>12, <3>3, PlanShape, OneOrderEntryFirst DEF Table
      <4>2. QED
        BY <1>12, <2>1, <2>2, <2>3, <3>3, <4>1
    <3>4. QED
      BY <1>12, <3>1, <3>2, <3>3
  <2>5. r[2] <= s[2]
    BY <1>12, <2>4 DEF Pick
  <2>6. QED
    BY <2>3, <2>5
<1>13. InOrder'
  BY <1>1, <1>3, <1>5, <1>7, <1>8, <1>12 DEF IInv, InOrder, Held
<1>14. QED
  BY <1>6, <1>9, <1>11, <1>13 DEF IInv

LEMMA InvAcquire ==
    ASSUME IInv, NEW t \in Txns, Acquire(t)
    PROVE  IInv'
<1> DEFINE r == txn[t].want
           p == txn[t].path
           new == [txn[t] EXCEPT !.want = None]
<1>1. /\ Active(t) /\ r # None
      /\ lock[r] \in {Free, t}
      /\ lock' = IF r \in rows THEN [lock EXCEPT ![r] = t] ELSE lock
      /\ txn' = [txn EXCEPT ![t] = new]
      /\ rows' = rows
  BY DEF Acquire, Active
<1>2. /\ txn[t] \in Txn /\ p \in Paths /\ txn[t].at \in 1..5 /\ r \in AllRows
      /\ txn[t].ids \in SUBSET Entries /\ txn[t].todo \in SUBSET AllRows
  BY <1>1, TxnTyped DEF IInv
<1>3. /\ new \in Txn
      /\ new.path = p /\ new.at = txn[t].at /\ new.ids = txn[t].ids
      /\ new.want = None /\ new.todo = txn[t].todo
  BY <1>2 DEF Txn
<1>4. new # Idle
  BY <1>3, TxnNotIdle
<1>5. /\ txn'[t] = new
      /\ \A u \in Txns : u # t => txn'[u] = txn[u]
  BY <1>1 DEF IInv, TypeOK
<1>6. /\ \A s \in AllRows : lock'[s] = lock[s] \/ (s = r /\ lock'[s] = t)
      /\ \A s \in AllRows, u \in Txns : lock[s] = u => lock'[s] = u
  BY <1>1, RowLocksAssumption DEF IInv, TypeOK
<1>7. TypeOK'
  BY <1>1, <1>2, <1>3 DEF IInv, TypeOK
<1> HIDE DEF new
<1>8. /\ \A u \in Txns : Active(u)' <=> Active(u)
      /\ \A u \in Txns : txn'[u].at = txn[u].at /\ txn'[u].path = txn[u].path
                         /\ txn'[u].ids = txn[u].ids
  BY <1>1, <1>3, <1>4, <1>5 DEF Active
<1>9. \A u \in Txns : Pending(u)' \subseteq Pending(u)
  BY <1>3, <1>5, RowShape DEF Pending
<1>10. \A i \in Entries, u \in Txns : lock[<<"entries", i>>] = u => lock'[<<"entries", i>>] = u
  BY <1>6, EntryRow
<1>11. OnPlan'
  <2> SUFFICES ASSUME NEW u \in Txns, Active(u)
               PROVE  /\ txn[u].at <= Len(Plan(txn[u].path))
                      /\ Pending(u)' \subseteq RowsOf(Table(u), txn[u].ids)
                      /\ txn[u].path \in EntryFirst /\ txn[u].at > 1 =>
                            \A i \in txn[u].ids : lock'[<<"entries", i>>] = u
                      /\ txn[u].path \in OneOrder /\ txn[u].at = 1
                         /\ txn[u].path # "forgetSource" => \E i \in Entries : txn[u].ids = {i}
    BY <1>8 DEF OnPlan, Table
  <2>1. txn[u].ids \in SUBSET Entries
    BY TxnTyped DEF IInv
  <2>2. QED
    BY <1>9, <1>10, <2>1 DEF IInv, OnPlan
<1>12. /\ txn[t].at <= Len(Plan(p))
       /\ r \in RowsOf(Table(t), txn[t].ids)
       /\ p \in EntryFirst /\ txn[t].at > 1 => \A i \in txn[t].ids : lock[<<"entries", i>>] = t
  BY <1>1, <1>2 DEF IInv, OnPlan, Pending
<1>13. /\ r[1] = Table(t)
       /\ Table(t) # "relations" => r[2] \in txn[t].ids
       /\ Table(t) = "relations" => \E i \in Ends[r[2]] : i \in txn[t].ids
  BY <1>2, <1>12, RowsOfTable
<1>14. UnderEntry'
  <2>1. ASSUME NEW s \in AllRows, NEW u \in Txns, lock[s] = u, txn[u].path \in EntryFirst
        PROVE  Beneath(s, u)'
    <3>1. Beneath(s, u)
      BY <2>1 DEF IInv, UnderEntry
    <3>2. /\ s[1] \in {"fts", "access"} => s[2] \in Entries
          /\ s[1] = "relations" => s[2] \in Edges
      BY RowShape
    <3>3. s[1] = "relations" => \A i \in Ends[s[2]] : i \in Entries
      BY <3>2, EndsAreEntries
    <3>4. QED
      BY <1>8, <1>10, <3>1, <3>2, <3>3 DEF Beneath
  <2>2. ASSUME NEW q \in AllRows, q = r, p \in EntryFirst PROVE Beneath(q, t)'
    <3>1. r[1] \in {"fts", "access"} => txn[t].at > 1
      BY <1>2, <1>12, <1>13, <2>2, PlanShape DEF Table
    <3>2. r[1] = "relations" => txn[t].at > 3
      <4>1. txn[t].at \in {1, 2, 3} => Table(t) # "relations"
        BY <1>2, <1>12, <2>2, PlanShape DEF Table
      <4>2. QED
        BY <1>2, <1>13, <4>1
    <3>3. txn[t].at > 1 => \A i \in txn[t].ids : lock'[<<"entries", i>>] = t
      BY <1>2, <1>10, <1>12, <2>2
    <3>4. r[1] \in {"fts", "access"} => lock'[<<"entries", r[2]>>] = t
      BY <1>13, <3>1, <3>3
    <3>5. r[1] = "relations" => txn[t].at > 1 /\ \E i \in Ends[r[2]] : i \in txn[t].ids
      BY <1>2, <1>13, <3>2
    <3>6. r[1] = "relations" => \E i \in Ends[r[2]] : lock'[<<"entries", i>>] = t
      BY <3>3, <3>5
    <3>7. QED
      BY <1>8, <2>2, <3>1, <3>2, <3>4, <3>6 DEF Beneath
  <2>3. \A s \in AllRows, u \in Txns : lock[s] = u => Active(u)
    BY DEF IInv, UnderEntry
  <2>4. SUFFICES ASSUME NEW s \in AllRows, NEW u \in Txns, lock'[s] = u
                 PROVE  Active(u)' /\ (txn'[u].path \in EntryFirst => Beneath(s, u)')
    BY DEF UnderEntry
  <2>5. CASE lock[s] = u
    BY <1>8, <2>1, <2>3, <2>5
  <2>6. CASE s = r /\ u = t
    <3>1. p \in EntryFirst => Beneath(s, t)'
      BY <2>2, <2>6
    <3>2. QED
      BY <1>1, <1>8, <2>6, <3>1
  <2>7. QED
    BY <1>6, <2>4, <2>5, <2>6
<1>15. InOrder'
  <2> SUFFICES ASSUME NEW u \in Txns, Active(u), txn[u].path \in OneOrder, txn[u].at \in {1, 4}
               PROVE  /\ \A s \in Held(u)', q \in Pending(u)' : s[1] = q[1] => s[2] < q[2]
                      /\ txn'[u].want # None => \A q \in txn'[u].todo : txn'[u].want[2] < q[2]
    BY <1>8 DEF InOrder
  <2>1. /\ \A s \in Held(u), q \in Pending(u) : s[1] = q[1] => s[2] < q[2]
        /\ txn[u].want # None => \A q \in txn[u].todo : txn[u].want[2] < q[2]
    BY DEF IInv, InOrder
  <2>2. CASE u # t
    <3>1. Held(u)' \subseteq Held(u)
      BY <1>6, <2>2 DEF Held
    <3>2. QED
      BY <1>5, <1>9, <2>1, <2>2, <3>1
  <2>3. CASE u = t
    <3>1. Held(t)' \subseteq Held(t) \cup {r}
      BY <1>6 DEF Held
    <3>2. Pending(t)' \subseteq txn[t].todo
      BY <1>3, <1>5, RowShape DEF Pending
    <3>3. \A q \in Pending(t)' : r[2] < q[2]
      BY <1>1, <2>1, <2>3, <3>2
    <3>4. QED
      BY <1>3, <1>5, <1>9, <2>1, <2>3, <3>1, <3>3
  <2>4. QED
    BY <2>2, <2>3
<1>16. QED
  BY <1>7, <1>11, <1>14, <1>15 DEF IInv

LEMMA InvNextStatement ==
    ASSUME IInv, NEW t \in Txns, NextStatement(t)
    PROVE  IInv'
<1> DEFINE p == txn[t].path
           at == txn[t].at + 1
           new == [txn[t] EXCEPT !.at = at, !.ids = Found(t),
                                 !.todo = rows \cap RowsOf(Plan(p)[at], Found(t))]
<1>1. /\ Active(t) /\ txn[t].want = None /\ txn[t].at # Len(Plan(p))
      /\ txn' = [txn EXCEPT ![t] = new]
      /\ rows' = rows /\ lock' = lock
  BY DEF NextStatement, StatementDone, LastStatement, Active
<1>2. /\ txn[t] \in Txn /\ p \in Paths /\ txn[t].at \in 1..5
      /\ txn[t].ids \in SUBSET Entries
  BY <1>1, TxnTyped DEF IInv
<1>3. txn[t].at <= Len(Plan(p))
  BY <1>1 DEF IInv, OnPlan
<1>4. at \in 2..5 /\ at <= Len(Plan(p))
  <2>1. Len(Plan(p)) \in {1, 2, 4, 5}
    BY <1>2, PlanShape
  <2>2. PICK n \in {1, 2, 4, 5} : n = Len(Plan(p))
    BY <2>1
  <2>3. txn[t].at # n /\ txn[t].at <= n
    BY <1>1, <1>3, <2>2
  <2>4. at \in 2..5 /\ at <= n
    BY <1>2, <2>3
  <2>5. QED
    BY <2>2, <2>4
<1>5. /\ Found(t) \in SUBSET Entries
      /\ p \in EntryFirst => \A i \in Found(t) : lock[<<"entries", i>>] = t
  BY <1>2, PlanShape DEF Found
<1>6. /\ new \in Txn
      /\ new.path = p /\ new.at = at /\ new.ids = Found(t) /\ new.want = None
      /\ new.todo = rows \cap RowsOf(Plan(p)[at], Found(t))
  <2> DEFINE todo == rows \cap RowsOf(Plan(p)[at], Found(t))
  <2>1. todo \in SUBSET AllRows
    BY DEF RowsOf
  <2>2. at \in 1..5
    BY <1>4
  <2>3. new = [txn[t] EXCEPT !.at = at, !.ids = Found(t), !.todo = todo]
    OBVIOUS
  <2> HIDE DEF todo, at, new
  <2>4. new \in Txn /\ new.path = p /\ new.at = at /\ new.ids = Found(t) /\ new.want = None
        /\ new.todo = todo
    BY <1>1, <1>2, <1>5, <2>1, <2>2, <2>3 DEF Txn
  <2>5. QED
    BY <2>4 DEF todo
<1>7. new # Idle
  BY <1>6, TxnNotIdle
<1>8. /\ txn'[t] = new
      /\ \A u \in Txns : u # t => txn'[u] = txn[u]
  BY <1>1 DEF IInv, TypeOK
<1>9. TypeOK'
  BY <1>1, <1>6 DEF IInv, TypeOK
<1> HIDE DEF new, at
<1>10. Pending(t)' \subseteq RowsOf(Plan(p)[at], Found(t))
  BY <1>6, <1>8, RowShape DEF Pending
<1>11. OnPlan'
  <2>1. ASSUME NEW u \in Txns, u # t, Active(u)'
        PROVE  /\ txn[u].at <= Len(Plan(txn[u].path))
               /\ Pending(u) \subseteq RowsOf(Table(u), txn[u].ids)
               /\ txn[u].path \in EntryFirst /\ txn[u].at > 1 =>
                     \A i \in txn[u].ids : lock[<<"entries", i>>] = u
               /\ txn[u].path \in OneOrder /\ txn[u].at = 1 /\ txn[u].path # "forgetSource" =>
                     \E i \in Entries : txn[u].ids = {i}
    BY <1>8, <2>1 DEF IInv, OnPlan, Active
  <2>2. QED
    BY <1>1, <1>4, <1>5, <1>6, <1>8, <1>10, <2>1 DEF OnPlan, Pending, Table
<1>12. \A s \in AllRows : lock[s] # Free => lock[s] \in Txns
  BY DEF IInv, TypeOK
<1>13. /\ \A u \in Txns : Active(u)' <=> Active(u)
       /\ at > txn[t].at
  BY <1>1, <1>2, <1>4, <1>6, <1>7, <1>8 DEF Active, at
<1>14. UnderEntry'
  <2> SUFFICES ASSUME NEW s \in AllRows, NEW u \in Txns, lock[s] = u
               PROVE  Active(u)' /\ (txn'[u].path \in EntryFirst => Beneath(s, u)')
    BY <1>1 DEF UnderEntry
  <2>1. Active(u) /\ (txn[u].path \in EntryFirst => Beneath(s, u))
    BY DEF IInv, UnderEntry
  <2>2. CASE u # t
    BY <1>1, <1>8, <2>1, <2>2 DEF Active, Beneath
  <2>3. CASE u = t
    <3>1. txn'[t].at > txn[t].at /\ txn'[t].at \in Int /\ txn[t].at \in Int
      BY <1>2, <1>4, <1>6, <1>8, <1>13
    <3>2. txn'[t].path = p /\ lock' = lock
      BY <1>1, <1>6, <1>8
    <3>3. p \in EntryFirst => Beneath(s, t)'
      BY <2>1, <2>3, <3>1, <3>2 DEF Beneath
    <3>4. QED
      BY <1>7, <1>8, <2>3, <3>2, <3>3 DEF Active
  <2>4. QED
    BY <2>2, <2>3
<1>15. InOrder'
  <2> SUFFICES ASSUME NEW u \in Txns, Active(u)', txn'[u].path \in OneOrder,
                      txn'[u].at \in {1, 4}
               PROVE  /\ \A s \in Held(u), q \in Pending(u)' : s[1] = q[1] => s[2] < q[2]
                      /\ txn'[u].want # None => \A q \in txn'[u].todo : txn'[u].want[2] < q[2]
    BY <1>1 DEF InOrder, Held
  <2>1. CASE u # t
    BY <1>8, <1>13, <2>1 DEF IInv, InOrder, Pending
  <2>2. CASE u = t
    <3>1. at = 4 /\ txn[t].at = 3
      BY <1>2, <1>4, <1>6, <1>8, <2>2 DEF at
    <3>2. Plan(p)[at] = "relations"
      BY <1>2, <1>4, <1>6, <1>8, <2>2, <3>1, PlanShape, OneOrderEntryFirst
    <3>3. \A q \in Pending(t)' : q[1] = "relations"
      BY <1>5, <1>10, <3>2, RowsOfTable
    <3>4. \A s \in Held(t) : s[1] # "relations"
      <4>1. ASSUME NEW s \in Held(t), s[1] = "relations" PROVE txn[t].at > 3
        BY <1>6, <1>8, <2>2, <4>1, OneOrderEntryFirst DEF IInv, UnderEntry, Beneath, Held
      <4>2. QED
        BY <3>1, <4>1
    <3>5. QED
      BY <1>6, <1>8, <2>2, <3>3, <3>4
  <2>3. QED
    BY <2>1, <2>2
<1>16. QED
  BY <1>9, <1>11, <1>14, <1>15 DEF IInv

LEMMA InvEnd ==
    ASSUME IInv, NEW t \in Txns, End(t), rows' \subseteq rows
    PROVE  IInv'
<1>1. /\ lock' = [r \in AllRows |-> IF lock[r] = t THEN Free ELSE lock[r]]
      /\ txn' = [txn EXCEPT ![t] = Idle]
  BY DEF End
<1>2. /\ txn'[t] = Idle
      /\ \A u \in Txns : u # t => txn'[u] = txn[u]
  BY <1>1 DEF IInv, TypeOK
<1>3. TypeOK'
  BY <1>1 DEF IInv, TypeOK
<1>4. /\ \A r \in AllRows, u \in Txns : u # t /\ lock[r] = u => lock'[r] = u
      /\ \A r \in AllRows : lock'[r] # Free =>
            lock'[r] = lock[r] /\ lock[r] \in Txns /\ lock[r] # t
  BY <1>1, RowLocksAssumption DEF IInv, TypeOK
<1>5. OnPlan'
  <2> SUFFICES ASSUME NEW u \in Txns, u # t, Active(u)
               PROVE  /\ txn[u].at <= Len(Plan(txn[u].path))
                      /\ Pending(u) \subseteq RowsOf(Table(u), txn[u].ids)
                      /\ txn[u].path \in EntryFirst /\ txn[u].at > 1 =>
                            \A i \in txn[u].ids : lock'[<<"entries", i>>] = u
                      /\ txn[u].path \in OneOrder /\ txn[u].at = 1
                         /\ txn[u].path # "forgetSource" => \E i \in Entries : txn[u].ids = {i}
    BY <1>2 DEF OnPlan, Active, Pending, Table
  <2>1. txn[u].ids \in SUBSET Entries
    BY TxnTyped DEF IInv
  <2>2. QED
    BY <1>4, <2>1, EntryRow DEF IInv, OnPlan
<1>6. UnderEntry'
  <2> SUFFICES ASSUME NEW s \in AllRows, NEW u \in Txns, lock'[s] = u
               PROVE  Active(u)' /\ (txn'[u].path \in EntryFirst => Beneath(s, u)')
    BY DEF UnderEntry
  <2>1. lock[s] = u /\ u # t
    BY <1>4, RowLocksAssumption
  <2>2. Active(u) /\ (txn[u].path \in EntryFirst => Beneath(s, u))
    BY <2>1 DEF IInv, UnderEntry
  <2>3. /\ s[1] \in {"fts", "access"} => s[2] \in Entries
        /\ s[1] = "relations" => s[2] \in Edges
    BY RowShape
  <2>4. \A i \in Entries : lock[<<"entries", i>>] = u => lock'[<<"entries", i>>] = u
    BY <1>4, <2>1, EntryRow
  <2>5. s[1] = "relations" => \A i \in Ends[s[2]] : i \in Entries
    BY <2>3, EndsAreEntries
  <2>6. txn'[u] = txn[u]
    BY <1>2, <2>1
  <2>7. QED
    BY <2>2, <2>3, <2>4, <2>5, <2>6 DEF Active, Beneath
<1>7. InOrder'
  <2> SUFFICES ASSUME NEW u \in Txns, u # t, Active(u), txn[u].path \in OneOrder,
                      txn[u].at \in {1, 4}
               PROVE  /\ \A s \in Held(u)', q \in Pending(u) : s[1] = q[1] => s[2] < q[2]
                      /\ txn[u].want # None => \A q \in txn[u].todo : txn[u].want[2] < q[2]
    BY <1>2 DEF InOrder, Active, Pending
  <2>1. Held(u)' \subseteq Held(u)
    BY <1>4, RowLocksAssumption DEF Held
  <2>2. QED
    BY <2>1 DEF IInv, InOrder
<1>8. QED
  BY <1>3, <1>5, <1>6, <1>7 DEF IInv

LEMMA InvNext == ASSUME IInv, [Next]_vars PROVE IInv'
<1>1. ASSUME NEW t \in Txns, NothingFound(t) PROVE IInv'
  BY <1>1, InvEnd DEF NothingFound
<1>2. ASSUME NEW t \in Txns, Commit(t) PROVE IInv'
  BY <1>2, InvEnd DEF Commit
<1>3. ASSUME NEW t \in Txns, Victim(t) PROVE IInv'
  BY <1>3, InvEnd DEF Victim
<1>4. CASE UNCHANGED vars
  BY <1>4 DEF vars, IInv, TypeOK, OnPlan, UnderEntry, Beneath, InOrder, Active, Table, Pending, Held
<1>5. QED
  BY <1>1, <1>2, <1>3, <1>4, InvBegin, InvPick, InvAcquire, InvNextStatement DEF Next, Step

-----------------------------------------------------------------------------
(* No deadlock, from the invariant. *)

\* A function into the integers has a maximum on a finite set.
LEMMA FiniteMax ==
    ASSUME NEW D, IsFiniteSet(D), D # {}, NEW f, \A x \in D : f[x] \in Int
    PROVE  \E x \in D : \A y \in D : f[y] <= f[x]
<1> DEFINE Bad(S) == S # {} /\ \A x \in S : \E y \in S : ~(f[y] <= f[x])
           B == {n \in Nat : \E S \in SUBSET D : Cardinality(S) = n /\ Bad(S)}
<1> SUFFICES ASSUME Bad(D) PROVE FALSE
  OBVIOUS
<1>1. Cardinality(D) \in B
  BY FS_CardinalityType
<1>2. PICK n \in B : \A m \in B : ~(<<m, n>> \in OpToRel(<, Nat))
  BY <1>1, NatLessThanWellFounded, WFMin
<1>3. PICK S \in SUBSET D : Cardinality(S) = n /\ Bad(S)
  BY <1>2
<1>4. IsFiniteSet(S)
  BY FS_Subset
<1>5. PICK x \in S : TRUE
  BY <1>3
<1>6. /\ IsFiniteSet(S \ {x})
      /\ Cardinality(S \ {x}) = n - 1
  BY <1>3, <1>4, <1>5, FS_RemoveElement
<1>7. n - 1 \in Nat
  BY <1>6, FS_CardinalityType
<1>8. <<n - 1, n>> \in OpToRel(<, Nat)
  BY <1>7 DEF OpToRel
<1>9. ~Bad(S \ {x})
  BY <1>2, <1>6, <1>7, <1>8
<1>10. CASE S \ {x} = {}
  BY <1>3, <1>5, <1>10
<1>11. CASE S \ {x} # {}
  <2>1. PICK z \in S \ {x} : \A y \in S \ {x} : f[y] <= f[z]
    BY <1>9, <1>11
  <2>2. f[x] \in Int /\ f[z] \in Int /\ \A y \in S : f[y] \in Int
    BY <1>5, <2>1
  <2>3. CASE f[x] <= f[z]
    BY <1>3, <1>5, <2>1, <2>2, <2>3
  <2>4. CASE ~(f[x] <= f[z])
    <3>1. \A y \in S : f[y] <= f[x]
      BY <1>5, <2>1, <2>2, <2>4
    <3>2. QED
      BY <1>3, <1>5, <3>1
  <2>5. QED
    BY <2>3, <2>4
<1>12. QED
  BY <1>10, <1>11

\* A transaction that waits for another of the paths that lock entries first, and is on
\* one itself, wants an entry with its first statement, or an edge.
LEMMA WaitsFor ==
    ASSUME IInv, NEW t \in Txns, NEW u \in Txns, Waiting(t), Blocker(t) = u,
           txn[t].path \in EntryFirst, txn[u].path \in EntryFirst
    PROVE  /\ txn[t].want \in AllRows
           /\ lock[txn[t].want] = u /\ u # t
           /\ \/ txn[t].at = 1 /\ txn[t].want[1] = "entries"
              \/ txn[t].at = 4 /\ txn[t].want[1] = "relations"
<1> DEFINE r == txn[t].want
           p == txn[t].path
<1>1. /\ txn[t] \in Txn
      /\ p \in Paths
      /\ txn[t].at \in 1..5
      /\ txn[t].ids \in SUBSET Entries
      /\ r \in AllRows
      /\ lock[r] = u /\ u # t
  BY DEF IInv, TypeOK, Waiting, Blocker, Txn
<1>2. /\ txn[t].at <= Len(Plan(p))
      /\ r \in RowsOf(Table(t), txn[t].ids)
      /\ txn[t].at > 1 => \A i \in txn[t].ids : lock[<<"entries", i>>] = t
  BY <1>1 DEF IInv, OnPlan, Active, Waiting, Pending
<1>3. r[1] = Table(t) /\ (Table(t) # "relations" => r[2] \in txn[t].ids)
  BY <1>1, <1>2, RowsOfTable
<1>4. CASE txn[t].at = 1
  BY <1>1, <1>3, <1>4, PlanShape DEF Table
<1>5. CASE txn[t].at \in {2, 3}
  <2>1. r[1] \in {"fts", "access"}
    BY <1>1, <1>2, <1>3, <1>5, PlanShape DEF Table
  <2>2. lock[<<"entries", r[2]>>] = t
    BY <1>2, <1>3, <1>5, <2>1
  <2>3. lock[<<"entries", r[2]>>] = u
    BY <1>1, <2>1 DEF IInv, UnderEntry, Beneath
  <2>4. QED
    BY <1>1, <2>2, <2>3
<1>6. CASE txn[t].at = 4
  BY <1>1, <1>2, <1>3, <1>6, PlanShape DEF Table
<1>7. CASE txn[t].at = 5
  <2>1. r[1] = "entries"
    BY <1>1, <1>2, <1>3, <1>7, PlanShape DEF Table
  <2>2. r = <<"entries", r[2]>>
    BY <1>1, <2>1, RowShape
  <2>3. lock[<<"entries", r[2]>>] = t
    BY <1>2, <1>3, <1>7, <2>1
  <2>4. QED
    BY <1>1, <2>2, <2>3
<1>8. QED
  BY <1>1, <1>4, <1>5, <1>6, <1>7

\* Along a wait the wanted key grows, and from an edge it only leads to edges.
LEMMA WaitGrows ==
    ASSUME IInv, NEW t \in Txns, NEW u \in Txns, NEW v \in Txns,
           Waiting(t), Waiting(u), Blocker(t) = u, Blocker(u) = v,
           txn[t].path \in OneOrder, txn[u].path \in OneOrder, txn[v].path \in OneOrder
    PROVE  /\ txn[t].want[1] = "relations" => txn[u].want[1] = "relations"
           /\ txn[t].want[1] = txn[u].want[1] => txn[t].want[2] < txn[u].want[2]
<1> DEFINE r == txn[t].want
           s == txn[u].want
<1>1. r \in AllRows /\ s \in AllRows /\ lock[r] = u
  BY WaitsFor, OneOrderEntryFirst
<1>2. \/ txn[u].at = 1 /\ s[1] = "entries"
      \/ txn[u].at = 4 /\ s[1] = "relations"
  BY WaitsFor, OneOrderEntryFirst
<1>3. r[1] = "relations" => txn[u].at > 3
  BY <1>1, OneOrderEntryFirst DEF IInv, UnderEntry, Beneath
<1>4. r[1] = "relations" => s[1] = "relations"
  BY <1>2, <1>3
<1>5. r \in Held(u) /\ s \in Pending(u)
  BY <1>1 DEF Held, Pending
<1>6. r[1] = s[1] => r[2] < s[2]
  BY <1>2, <1>5 DEF IInv, InOrder, Active, Waiting
<1>7. QED
  BY <1>4, <1>6

LEMMA InvNoDeadlock ==
    ASSUME IsFiniteSet(Txns), IInv
    PROVE  NoDeadlock
<1> SUFFICES ASSUME NEW D \in SUBSET Txns, Stuck(D), \A t \in D : txn[t].path \in OneOrder
             PROVE  FALSE
  BY DEF NoDeadlock
<1> DEFINE key == [t \in D |-> txn[t].want[2]]
           E == {t \in D : txn[t].want[1] = "relations"}
<1>1. /\ D # {} /\ IsFiniteSet(D)
      /\ \A t \in D : t \in Txns /\ Waiting(t) /\ Blocker(t) \in D
  BY FS_Subset DEF Stuck
<1>2. \A t \in D : /\ key[t] \in Int
                   /\ txn[t].want[1] \in {"entries", "relations"}
  BY <1>1, WaitsFor, OneOrderEntryFirst, RowShape
<1>3. \A t \in D :
         LET u == Blocker(t)
         IN  /\ txn[t].want[1] = "relations" => txn[u].want[1] = "relations"
             /\ txn[t].want[1] = txn[u].want[1] => key[t] < key[u]
  <2> SUFFICES ASSUME NEW t \in D, NEW u \in D, u = Blocker(t)
               PROVE  /\ txn[t].want[1] = "relations" => txn[u].want[1] = "relations"
                      /\ txn[t].want[1] = txn[u].want[1] => key[t] < key[u]
    BY <1>1
  <2>1. PICK v \in D : v = Blocker(u)
    BY <1>1
  <2>2. QED
    BY <1>1, <2>1, WaitGrows
<1> HIDE DEF key
<1>4. CASE E # {}
  <2>1. IsFiniteSet(E)
    BY <1>1, FS_Subset
  <2>2. PICK t \in E : \A y \in E : key[y] <= key[t]
    BY <1>2, <1>4, <2>1, FiniteMax
  <2>3. Blocker(t) \in E /\ key[t] < key[Blocker(t)]
    BY <1>1, <1>3
  <2>4. QED
    BY <1>2, <2>2, <2>3
<1>5. CASE E = {}
  <2>1. PICK t \in D : \A y \in D : key[y] <= key[t]
    BY <1>1, <1>2, FiniteMax
  <2>2. Blocker(t) \in D /\ key[t] < key[Blocker(t)]
    BY <1>1, <1>2, <1>3, <1>5
  <2>3. QED
    BY <1>2, <2>1, <2>2
<1>6. QED
  BY <1>4, <1>5

-----------------------------------------------------------------------------
(* An entry and its rows go together. *)

\* What a transaction holds belongs to its entries, and a deleting one at its last
\* statement has every one of them that is left locked or still ahead.
Complete ==
    \A t \in Txns : Active(t) =>
        /\ \A r \in Held(t) : r[1] # "relations" => r[2] \in txn[t].ids
        /\ Deletes(txn[t].path) /\ LastStatement(t) =>
              \A i \in txn[t].ids : <<"entries", i>> \in rows
                                    => <<"entries", i>> \in Held(t) \cup Pending(t)

WInv == IInv /\ Complete /\ NoHalfDeleted

LEMMA NoneIsNoRow == None \notin AllRows
BY RowShape

LEMMA WholeBegin ==
    ASSUME WInv, IInv', NEW t \in Txns, NEW p \in Paths, NEW ids \in Scope(p), Begin(t, p, ids)
    PROVE  Complete'
<1>1. /\ ~Active(t) /\ lock' = lock /\ rows' = rows
      /\ \A u \in Txns : u # t => txn'[u] = txn[u]
      /\ txn'[t].path = p /\ txn'[t].at = 1
  BY DEF Begin, Active, WInv, IInv, TypeOK
<1>2. Held(t) = {}
  BY <1>1 DEF WInv, IInv, UnderEntry, Held
<1>3. Deletes(p) => Len(Plan(p)) # 1
  <2>1. ASSUME Deletes(p) PROVE Len(Plan(p)) \in {4, 5}
    BY <2>1, PlanShape
  <2>2. QED
    BY <2>1
<1>4. QED
  BY <1>1, <1>2, <1>3 DEF WInv, Complete, Held, Pending, Active, LastStatement

LEMMA WholePick ==
    ASSUME WInv, NEW t \in Txns, NEW r \in AllRows, Pick(t, r)
    PROVE  Complete'
<1>1. /\ Active(t) /\ lock' = lock /\ rows' = rows
      /\ txn[t].want = None /\ r \in txn[t].todo
      /\ txn' = [txn EXCEPT ![t] = [txn[t] EXCEPT !.want = r, !.todo = @ \ {r}]]
  BY DEF Pick, Active
<1>2. txn[t] \in Txn
  BY <1>1, TxnTyped DEF WInv, IInv
<1>3. /\ \A u \in Txns : u # t => txn'[u] = txn[u]
      /\ txn'[t].path = txn[t].path /\ txn'[t].at = txn[t].at /\ txn'[t].ids = txn[t].ids
      /\ txn'[t].want = r /\ txn'[t].todo = txn[t].todo \ {r}
  BY <1>1, <1>2 DEF WInv, IInv, TypeOK, Txn
<1>4. Pending(t)' = Pending(t)
  BY <1>1, <1>3, NoneIsNoRow DEF Pending
<1>5. QED
  BY <1>1, <1>3, <1>4 DEF WInv, Complete, Held, Pending, Active, LastStatement

LEMMA WholeAcquire ==
    ASSUME WInv, NEW t \in Txns, Acquire(t)
    PROVE  Complete'
<1> DEFINE r == txn[t].want
<1>1. /\ Active(t) /\ rows' = rows /\ r # None /\ lock[r] \in {Free, t}
      /\ lock' = IF r \in rows THEN [lock EXCEPT ![r] = t] ELSE lock
      /\ txn' = [txn EXCEPT ![t] = [txn[t] EXCEPT !.want = None]]
  BY DEF Acquire, Active
<1>2. /\ txn[t] \in Txn /\ r \in AllRows
  BY <1>1, TxnTyped DEF WInv, IInv
<1>3. /\ \A u \in Txns : u # t => txn'[u] = txn[u]
      /\ txn'[t].path = txn[t].path /\ txn'[t].at = txn[t].at /\ txn'[t].ids = txn[t].ids
      /\ txn'[t].want = None /\ txn'[t].todo = txn[t].todo
  BY <1>1, <1>2 DEF WInv, IInv, TypeOK, Txn
<1>4. /\ \A u \in Txns : u # t => Pending(u)' = Pending(u)
      /\ Pending(t) \subseteq Pending(t)' \cup {r}
  BY <1>3 DEF Pending
<1>5. /\ \A u \in Txns : u # t => Held(u)' = Held(u)
      /\ Held(t)' = IF r \in rows THEN Held(t) \cup {r} ELSE Held(t)
  BY <1>1, <1>2, RowLocksAssumption DEF WInv, IInv, TypeOK, Held
<1>6. r[1] # "relations" => r[2] \in txn[t].ids
  <2>1. r \in RowsOf(Table(t), txn[t].ids)
    BY <1>1, <1>2 DEF WInv, IInv, OnPlan, Pending
  <2>2. txn[t].ids \in SUBSET Entries
    BY <1>2 DEF Txn
  <2>3. QED
    BY <2>1, <2>2, RowsOfTable
<1>7. Active(t)' /\ \A u \in Txns : u # t => (Active(u)' <=> Active(u))
  <2>1. txn'[t] # Idle
    BY <1>1, <1>2, TxnNotIdle DEF WInv, IInv, TypeOK, Txn
  <2>2. QED
    BY <1>3, <2>1 DEF Active
<1>8. ASSUME NEW u \in Txns, Active(u)
      PROVE  /\ \A s \in Held(u)' : s[1] # "relations" => s[2] \in txn'[u].ids
             /\ Deletes(txn'[u].path) /\ LastStatement(u)' =>
                   \A i \in txn'[u].ids : <<"entries", i>> \in rows'
                                         => <<"entries", i>> \in Held(u)' \cup Pending(u)'
  <2>1. CASE u # t
    BY <1>1, <1>3, <1>4, <1>5, <1>8, <2>1 DEF WInv, Complete, LastStatement
  <2>2. CASE u = t
    BY <1>1, <1>3, <1>4, <1>5, <1>6, <2>2 DEF WInv, Complete, LastStatement
  <2>3. QED
    BY <2>1, <2>2
<1>9. QED
  BY <1>1, <1>7, <1>8 DEF Complete

LEMMA WholeNextStatement ==
    ASSUME WInv, NEW t \in Txns, NextStatement(t)
    PROVE  Complete'
<1> DEFINE p == txn[t].path
           at == txn[t].at + 1
           new == [txn[t] EXCEPT !.at = at, !.ids = Found(t),
                                 !.todo = rows \cap RowsOf(Plan(p)[at], Found(t))]
<1>1. /\ Active(t) /\ txn[t].want = None
      /\ txn' = [txn EXCEPT ![t] = new]
      /\ rows' = rows /\ lock' = lock
  BY DEF NextStatement, StatementDone, Active
<1>2. txn[t] \in Txn /\ p \in Paths /\ txn[t].ids \in SUBSET Entries
  BY <1>1, TxnTyped DEF WInv, IInv
<1>3. /\ \A u \in Txns : u # t => txn'[u] = txn[u]
      /\ txn'[t].path = p /\ txn'[t].at = at /\ txn'[t].ids = Found(t)
      /\ txn'[t].todo = rows \cap RowsOf(Plan(p)[at], Found(t))
  BY <1>1, <1>2 DEF WInv, IInv, TypeOK, Txn
<1> HIDE DEF new, at
<1>4. Held(t)' = Held(t)
  BY <1>1 DEF Held
<1>5. \A s \in Held(t) : s[1] # "relations" => s[2] \in txn[t].ids
  BY <1>1 DEF WInv, Complete
<1>6. \A s \in Held(t) : s[1] # "relations" => s[2] \in Found(t)
  <2> SUFFICES ASSUME NEW s \in Held(t), s[1] # "relations", Plan(p)[1] = "entries"
               PROVE  lock[<<"entries", s[2]>>] = t
    BY <1>5 DEF Found
  <2>1. p \in EntryFirst
    BY <1>2, RowLocksAssumption
       DEF Plan, EntryFirst, AllPaths, BumpHitsMany, ReapExpired, DeleteProject, DeleteUserData
  <2>2. s \in AllRows /\ lock[s] = t
    BY DEF Held
  <2>3. CASE s[1] = "entries"
    BY <2>2, <2>3, RowShape
  <2>4. CASE s[1] \in {"fts", "access"}
    BY <2>1, <2>2, <2>4 DEF WInv, IInv, UnderEntry, Beneath
  <2>5. QED
    BY <2>2, <2>3, <2>4, RowShape
<1>7. Found(t) \subseteq Entries
  BY <1>2 DEF Found
<1>8. ASSUME Deletes(p), at = Len(Plan(p)), NEW i \in Found(t), <<"entries", i>> \in rows
      PROVE  <<"entries", i>> \in Pending(t)'
  <2>1. Plan(p)[at] = "entries"
    BY <1>2, <1>8, PlanShape
  <2>2. <<"entries", i>> \in RowsOf("entries", Found(t))
    BY <1>7, <1>8, EntryRow DEF RowsOf
  <2>3. <<"entries", i>> \in txn'[t].todo /\ <<"entries", i>> \in AllRows
    BY <1>3, <1>7, <1>8, <2>1, <2>2, EntryRow
  <2>4. QED
    BY <2>3 DEF Pending
<1>9. QED
  BY <1>1, <1>3, <1>4, <1>6, <1>8 DEF WInv, Complete, Held, Pending, Active, LastStatement

LEMMA WholeEnd ==
    ASSUME WInv, NEW t \in Txns, End(t), rows' \subseteq rows
    PROVE  Complete'
<1>1. /\ txn'[t] = Idle
      /\ \A u \in Txns : u # t => txn'[u] = txn[u]
  BY DEF End, WInv, IInv, TypeOK
<1>2. \A u \in Txns : u # t => Held(u)' = Held(u)
  BY RowLocksAssumption DEF End, WInv, IInv, TypeOK, Held
<1>3. QED
  BY <1>1, <1>2 DEF WInv, Complete, Pending, Active, LastStatement

LEMMA WholeCommit ==
    ASSUME WInv, NEW t \in Txns, Commit(t)
    PROVE  NoHalfDeleted'
<1> DEFINE E == {i \in Entries : <<"entries", i>> \in Held(t)}
<1>1. /\ Active(t) /\ txn[t].want = None /\ txn[t].todo = {} /\ LastStatement(t)
      /\ rows' = IF Deletes(txn[t].path) THEN rows \ Cascade(Held(t)) ELSE rows
  BY DEF Commit, StatementDone, Active
<1>2. CASE ~Deletes(txn[t].path)
  BY <1>1, <1>2 DEF WInv, NoHalfDeleted
<1>3. CASE Deletes(txn[t].path)
  <2>1. Pending(t) = {}
    BY <1>1, NoneIsNoRow DEF Pending
  <2>2. \A i \in txn[t].ids : <<"entries", i>> \in rows => <<"entries", i>> \in Held(t)
    BY <1>1, <1>3, <2>1 DEF WInv, Complete
  <2>3. \A s \in Held(t) : s[1] # "relations" => s[2] \in txn[t].ids
    BY <1>1 DEF WInv, Complete
  <2>4. \A s \in Held(t) : s \in AllRows
    BY DEF Held
  <2>5. Cascade(Held(t)) = Held(t) \cup UNION {RowsOf(table, E) : table \in Tables}
    <3>1. {s[2] : s \in {q \in Held(t) : q[1] = "entries"}} = E
      <4>1. \A s \in Held(t) : s[1] = "entries" => s[2] \in E
        BY <2>4, RowShape
      <4>2. \A i \in E : <<"entries", i>>[1] = "entries" /\ <<"entries", i>>[2] = i
        OBVIOUS
      <4>3. QED
        BY <4>1, <4>2
    <3>2. QED
      BY <3>1 DEF Cascade
  <2> HIDE DEF E
  <2>6. ASSUME NEW s \in AllRows, s[1] # "relations"
        PROVE  s \in UNION {RowsOf(table, E) : table \in Tables} <=> s[2] \in E
    BY <2>6, RowShape DEF RowsOf, Tables
  <2>7. ASSUME NEW s \in AllRows, s[1] = "relations"
        PROVE  s \in UNION {RowsOf(table, E) : table \in Tables} <=> Ends[s[2]] \cap E # {}
    BY <2>7 DEF RowsOf, Tables
  <2>8. ASSUME NEW i \in Entries
        PROVE  <<"entries", i>> \in rows' <=> <<"entries", i>> \in rows /\ i \notin E
    <3>1. /\ <<"entries", i>> \in AllRows
          /\ <<"entries", i>>[1] = "entries" /\ <<"entries", i>>[2] = i
      BY EntryRow
    <3>2. <<"entries", i>> \in Held(t) <=> i \in E
      BY DEF E
    <3>3. QED
      BY <1>1, <1>3, <2>5, <2>6, <3>1, <3>2
  <2>9. ASSUME NEW s \in AllRows, s[1] # "relations"
        PROVE  s \in rows' <=> <<"entries", s[2]>> \in rows'
    <3>1. s[2] \in Entries
      BY <2>9, RowShape
    <3>2. s \in rows <=> <<"entries", s[2]>> \in rows
      BY <2>9 DEF WInv, NoHalfDeleted
    <3>3. s \in rows /\ s \in Held(t) => s[2] \in E
      BY <2>2, <2>3, <2>9, <3>1, <3>2 DEF E
    <3>4. QED
      BY <1>1, <1>3, <2>5, <2>6, <2>8, <2>9, <3>1, <3>2, <3>3
  <2>10. ASSUME NEW s \in AllRows, s[1] = "relations", s \in rows', NEW i \in Ends[s[2]]
         PROVE  <<"entries", i>> \in rows'
    <3>1. s[2] \in Edges /\ i \in Entries
      BY <2>10, RowShape, EndsAreEntries
    <3>2. <<"entries", i>> \in rows
      BY <1>1, <1>3, <2>10 DEF WInv, NoHalfDeleted
    <3>3. i \notin E
      BY <1>1, <1>3, <2>5, <2>7, <2>10
    <3>4. QED
      BY <2>8, <3>1, <3>2, <3>3
  <2>11. QED
    BY <2>9, <2>10 DEF NoHalfDeleted
<1>4. QED
  BY <1>2, <1>3

LEMMA WholeNext == ASSUME WInv, [Next]_vars PROVE WInv'
<1>1. IInv'
  BY InvNext DEF WInv
<1>2. ASSUME NEW t \in Txns, NEW p \in Paths, NEW ids \in Scope(p), Begin(t, p, ids) PROVE WInv'
  BY <1>1, <1>2, WholeBegin DEF WInv, Begin, NoHalfDeleted
<1>3. ASSUME NEW t \in Txns, NEW r \in AllRows, Pick(t, r) PROVE WInv'
  BY <1>1, <1>3, WholePick DEF WInv, Pick, NoHalfDeleted
<1>4. ASSUME NEW t \in Txns, Acquire(t) PROVE WInv'
  BY <1>1, <1>4, WholeAcquire DEF WInv, Acquire, NoHalfDeleted
<1>5. ASSUME NEW t \in Txns, NextStatement(t) PROVE WInv'
  BY <1>1, <1>5, WholeNextStatement DEF WInv, NextStatement, NoHalfDeleted
<1>6. ASSUME NEW t \in Txns, NothingFound(t) \/ Victim(t) PROVE WInv'
  BY <1>1, <1>6, WholeEnd DEF WInv, NothingFound, Victim, NoHalfDeleted
<1>7. ASSUME NEW t \in Txns, Commit(t) PROVE WInv'
  BY <1>1, <1>7, WholeEnd, WholeCommit DEF WInv, Commit
<1>8. CASE UNCHANGED vars
  BY <1>1, <1>8 DEF vars, WInv, Complete, NoHalfDeleted, Held, Pending, Active, LastStatement
<1>9. QED
  BY <1>2, <1>3, <1>4, <1>5, <1>6, <1>7, <1>8 DEF Next, Step

-----------------------------------------------------------------------------
(* The theorems. *)

\* The locking invariant holds whichever paths run together.
THEOREM InvCorrect == Spec => []IInv
<1>1. Init => IInv
  BY InvInit
<1>2. IInv /\ [Next]_vars => IInv'
  BY InvNext
<1>3. QED
  BY <1>1, <1>2, PTL DEF Spec

\* Types: a transaction is idle or within one of its paths' statements, and every lock
\* belongs to a connection or to nobody.
THEOREM TypeCorrect == Spec => []TypeOK
<1>1. IInv => TypeOK
  BY DEF IInv
<1>2. QED
  BY <1>1, InvCorrect, PTL

\* Any number of transactions over any number of entries and edges: whoever waits in a
\* circle, one of them is on a path that does not keep the order.
THEOREM DeadlockFree ==
    ASSUME IsFiniteSet(Txns)
    PROVE  Spec => []NoDeadlock
<1>1. IInv => NoDeadlock
  BY InvNoDeadlock
<1>2. QED
  BY <1>1, InvCorrect, PTL

\* The forgets hold the entry's row whenever they hold another row of it in order to
\* delete it, whatever runs beside them.
THEOREM EntriesFirst == Spec => []EntriesLockedFirst
<1>1. ASSUME IInv PROVE EntriesLockedFirst
  <2> SUFFICES ASSUME NEW t \in Txns, txn[t].path \in EntryFirst, NEW r \in Held(t)
               PROVE  IF r[1] = "relations" THEN \E i \in Ends[r[2]] : lock[<<"entries", i>>] = t
                                            ELSE lock[<<"entries", r[2]>>] = t
    BY DEF EntriesLockedFirst
  <2>1. r \in AllRows /\ lock[r] = t
    BY DEF Held
  <2>2. \/ r[1] \in {"fts", "access"} \/ r[1] = "relations"
        \/ r = <<"entries", r[2]>> /\ r[1] # "relations"
    BY <2>1, RowShape
  <2>3. Beneath(r, t)
    BY <1>1, <2>1 DEF IInv, UnderEntry
  <2>4. QED
    BY <2>1, <2>2, <2>3 DEF Beneath
<1>2. QED
  BY <1>1, InvCorrect, PTL

\* Whichever transactions cross and whichever are rolled back, an entry is there with its
\* keyword row and its counters or not at all, and no edge dangles.
THEOREM WholeEntries == Spec => []NoHalfDeleted
<1>1. Init => WInv
  <2> SUFFICES ASSUME Init PROVE WInv
    OBVIOUS
  <2>1. Complete
    BY DEF Init, Complete, Active
  <2>2. NoHalfDeleted
    <3>1. ASSUME NEW r \in AllRows, r[1] # "relations" PROVE <<"entries", r[2]>> \in rows
      BY <3>1, RowShape, EntryRow DEF Init
    <3>2. ASSUME NEW r \in AllRows, r[1] = "relations", NEW i \in Ends[r[2]]
          PROVE  <<"entries", i>> \in rows
      BY <3>2, RowShape, EndsAreEntries, EntryRow DEF Init
    <3>3. QED
      BY <3>1, <3>2 DEF Init, NoHalfDeleted
  <2>3. QED
    BY <2>1, <2>2, InvInit DEF WInv
<1>2. WInv /\ [Next]_vars => WInv'
  BY WholeNext
<1>3. WInv => NoHalfDeleted
  BY DEF WInv
<1>4. QED
  BY <1>1, <1>2, <1>3, PTL DEF Spec

-----------------------------------------------------------------------------
(* Startup: what a process that serves finds in the database. *)

UpHeld == Migrating \ {"acquire", "lock"}

Seeding == {"seed", "create", "promote", "serving", "draining"}
PastUnique == {"unlock"} \cup Seeding
PastIndex == {"unique"} \cup PastUnique
PastApply == {"column", "index"} \cup PastIndex
PastAuth == {"journal", "apply"} \cup PastApply
PastCleanup == {"auth"} \cup PastAuth

\* While no connection broke, whoever is at the schema has the lock.
OneMigrates ==
    "lock" \notin spoilt => \A r \in Replicas : proc[r].pc \in UpHeld => advisory = r

\* The journal has no gaps and records a migration once.
NoGaps == \A m, n \in Migrations : m < n /\ db.journal[n] > 0 => db.journal[m] > 0
AppliedOnce == \A m \in Migrations : db.journal[m] <= 1 \/ (m \in Rerunnable /\ "lock" \in spoilt)

\* What holds of the database by where a process is.  What it read of the journal stays
\* true as far as it goes, and all of it while nobody else can be at the schema.
Reached(p) ==
    /\ p.pc \in PastCleanup => ~db.legacy
    /\ p.pc \in PastAuth => db.users
    /\ p.pc = "apply" =>
          /\ \A m \in Migrations : m <= p.last => db.journal[m] > 0
          /\ "lock" \notin spoilt => \A m \in Migrations : m > p.last => db.journal[m] = 0
    /\ p.pc \in PastApply => \A m \in Migrations : m <= p.build => db.journal[m] > 0
    /\ p.pc \in PastIndex => db.fts = "index"
    /\ p.pc \in PastUnique => db.unique \/ db.twins \/ "unique" \in spoilt
    /\ p.pc = "serving" /\ env.admin => db.boot = "admin" \/ db.other \/ "seed" \in spoilt

StartupInv ==
    /\ StartupTypeOK /\ OneMigrates /\ NoGaps /\ AppliedOnce
    /\ \A r \in Replicas : Reached(proc[r])

LEMMA ProcTyped ==
    ASSUME StartupTypeOK, NEW r \in Replicas
    PROVE  /\ proc[r] \in Proc
           /\ proc[r].pc \in Stages /\ proc[r].last \in 0..Top /\ proc[r].build \in 1..Top
<1>1. proc[r] \in Proc
  BY DEF StartupTypeOK
<1>2. QED
  BY <1>1 DEF Proc

LEMMA JournalTyped ==
    ASSUME NEW d \in Database, NEW m \in Migrations
    PROVE  d.journal[m] \in Nat
<1>1. d.journal \in [Migrations -> Nat]
  BY DEF Database
<1>2. QED
  BY <1>1

\* The newest recorded migration is the last one, of a journal without gaps.
LEMMA LatestIsLast ==
    ASSUME StartupInv
    PROVE  /\ Latest(db) \in 0..Top
           /\ \A m \in Migrations : m <= Latest(db) => db.journal[m] > 0
           /\ \A m \in Migrations : m > Latest(db) => db.journal[m] = 0
<1> DEFINE S == {m \in Migrations : db.journal[m] > 0}
           f == [m \in S |-> m]
           Newest(m) == db.journal[m] > 0 /\ \A n \in Migrations : db.journal[n] > 0 => n <= m
<1>1. Top \in Nat /\ \A m \in Migrations : m \in Int /\ m \in 0..Top /\ db.journal[m] \in Nat
  BY JournalTyped, StartupAssumption DEF StartupInv, StartupTypeOK, Migrations
<1>2. CASE \A m \in Migrations : ~(db.journal[m] > 0)
  <2>1. Latest(db) = 0
    BY <1>2 DEF Latest
  <2>2. \A m \in Migrations : m > 0 /\ db.journal[m] = 0
    BY <1>1, <1>2 DEF Migrations
  <2>3. QED
    BY <1>1, <2>1, <2>2 DEF Migrations
<1>3. CASE \E m \in Migrations : db.journal[m] > 0
  <2>1. IsFiniteSet(S)
    <3>1. IsFiniteSet(Migrations)
      BY <1>1, FS_Interval DEF Migrations
    <3>2. QED
      BY <3>1, FS_Subset
  <2>2. PICK m \in S : \A n \in S : f[n] <= f[m]
    <3>1. S # {} /\ \A n \in S : f[n] \in Int
      BY <1>1, <1>3
    <3>2. QED
      BY <2>1, <3>1, FiniteMax
  <2>3. \A n \in S : n <= m
    BY <2>2
  <2>4. m \in Migrations /\ Newest(m)
    BY <2>3
  <2>5. Latest(db) = CHOOSE n \in Migrations : Newest(n)
    BY <1>3 DEF Latest
  <2>6. Latest(db) \in Migrations /\ Newest(Latest(db))
    BY <2>4, <2>5
  <2> HIDE DEF S, f
  <2>7. NoGaps
    BY DEF StartupInv
  <2>8. ASSUME NEW n \in Migrations, n <= Latest(db) PROVE db.journal[n] > 0
    <3>1. n = Latest(db) \/ n < Latest(db)
      BY <1>1, <2>6, <2>8
    <3>2. QED
      BY <2>6, <2>7, <3>1 DEF NoGaps
  <2>9. ASSUME NEW n \in Migrations, n > Latest(db) PROVE db.journal[n] = 0
    <3>1. ~(n <= Latest(db))
      BY <1>1, <2>6, <2>9
    <3>2. ~(db.journal[n] > 0)
      BY <2>6, <3>1
    <3>3. QED
      BY <1>1, <3>2
  <2>10. QED
    BY <1>1, <2>6, <2>8, <2>9
<1>4. QED
  BY <1>2, <1>3

\* What holds in the database keeps holding.
DbGoesOn ==
    /\ db' \in Database
    /\ ~db.legacy => ~db'.legacy
    /\ db.users => db'.users
    /\ db.fts = "index" => db'.fts = "index"
    /\ db.unique => db'.unique
    /\ db'.twins = db.twins
    /\ db.boot = "admin" => db'.boot = "admin"
    /\ db'.other = db.other

JournalGoesOn == \A m \in Migrations : db.journal[m] > 0 => db'.journal[m] > 0

\* A step of r keeps the others where they are.
LEMMA ReachedByOthers ==
    ASSUME StartupInv, NEW p \in Proc, Reached(p), DbGoesOn, JournalGoesOn,
           env' = env, spoilt \subseteq spoilt',
           p.pc = "apply" /\ "lock" \notin spoilt' => db'.journal = db.journal
    PROVE  Reached(p)'
<1>1. "lock" \notin spoilt' => "lock" \notin spoilt
  OBVIOUS
<1>2. /\ p.pc = "apply" =>
          /\ \A m \in Migrations : m <= p.last => db'.journal[m] > 0
          /\ "lock" \notin spoilt' => \A m \in Migrations : m > p.last => db'.journal[m] = 0
  BY <1>1 DEF Reached, JournalGoesOn
<1>3. p.pc \in PastApply => \A m \in Migrations : m <= p.build => db'.journal[m] > 0
  BY DEF Reached, JournalGoesOn
<1>4. /\ p.pc \in PastCleanup => ~db'.legacy
      /\ p.pc \in PastAuth => db'.users
      /\ p.pc \in PastIndex => db'.fts = "index"
      /\ p.pc \in PastUnique => db'.unique \/ db'.twins \/ "unique" \in spoilt'
      /\ p.pc = "serving" /\ env'.admin => db'.boot = "admin" \/ db'.other \/ "seed" \in spoilt'
  BY DEF Reached, DbGoesOn
<1>5. QED
  BY <1>2, <1>3, <1>4 DEF Reached

LEMMA ProcMoves ==
    ASSUME StartupInv, NEW r \in Replicas, NEW p \in Proc,
           proc' = [proc EXCEPT ![r] = p], env' = env, faults' \in Nat,
           spoilt \subseteq spoilt', spoilt' \subseteq {"lock", "seed", "unique"},
           advisory' \in Replicas \cup {NoOne},
           advisory \notin {r, NoOne} => advisory' = advisory,
           "lock" \notin spoilt' /\ p.pc \in UpHeld => advisory' = r,
           DbGoesOn, JournalGoesOn, NoGaps', AppliedOnce',
           db'.journal = db.journal \/ proc[r].pc = "apply",
           Reached(p)'
    PROVE  StartupInv'
<1>1. /\ StartupTypeOK /\ OneMigrates /\ \A q \in Replicas : Reached(proc[q]) /\ proc[q] \in Proc
      /\ proc \in [Replicas -> Proc]
  BY ProcTyped DEF StartupInv, StartupTypeOK
<1>2. proc' \in [Replicas -> Proc] /\ proc'[r] = p /\ \A q \in Replicas \ {r} : proc'[q] = proc[q]
  BY <1>1
<1>3. StartupTypeOK'
  BY <1>1, <1>2 DEF StartupTypeOK, DbGoesOn
<1>4. OneMigrates'
  <2> SUFFICES ASSUME "lock" \notin spoilt', NEW q \in Replicas, proc'[q].pc \in UpHeld
               PROVE  advisory' = q
    BY DEF OneMigrates
  <2>1. CASE q = r
    BY <1>2, <2>1
  <2>2. CASE q # r
    BY <1>1, <1>2, <2>2, StartupAssumption DEF OneMigrates
  <2>3. QED
    BY <2>1, <2>2
<1>5. ASSUME NEW q \in Replicas PROVE Reached(proc[q])'
  <2>1. CASE q = r
    BY <1>2, <2>1 DEF Reached
  <2>2. CASE q # r
    <3>1. PICK o \in Proc : o = proc[q]
      BY <1>1
    <3>2. ASSUME o.pc = "apply", "lock" \notin spoilt', proc[r].pc = "apply" PROVE FALSE
      <4>1. o.pc \in UpHeld /\ proc[r].pc \in UpHeld
        BY <3>2 DEF UpHeld, Migrating
      <4>2. QED
        BY <1>1, <2>2, <3>1, <3>2, <4>1 DEF OneMigrates
    <3>3. Reached(o)'
      BY <1>1, <3>1, <3>2, ReachedByOthers
    <3>4. proc'[q] = o
      BY <1>2, <2>2, <3>1
    <3>5. QED
      BY <3>3, <3>4 DEF Reached
  <2>3. QED
    BY <2>1, <2>2
<1>6. QED
  BY <1>3, <1>4, <1>5 DEF StartupInv

\* The same of a step that leaves the database and the history alone.
LEMMA PlainMoves ==
    ASSUME StartupInv, NEW r \in Replicas, NEW p \in Proc,
           proc' = [proc EXCEPT ![r] = p], UNCHANGED <<env, db, spoilt>>, faults' \in Nat,
           advisory' \in Replicas \cup {NoOne},
           advisory \notin {r, NoOne} => advisory' = advisory,
           "lock" \notin spoilt /\ p.pc \in UpHeld => advisory' = r,
           Reached(p)
    PROVE  StartupInv'
<1>1. DbGoesOn /\ JournalGoesOn /\ NoGaps' /\ AppliedOnce'
  BY DEF StartupInv, StartupTypeOK, DbGoesOn, JournalGoesOn, NoGaps, AppliedOnce
<1>2. Reached(p)'
  BY DEF Reached
<1>3. spoilt' \subseteq {"lock", "seed", "unique"}
  BY DEF StartupInv, StartupTypeOK
<1>4. QED
  BY <1>1, <1>2, <1>3, ProcMoves

LEMMA GotoIs ==
    ASSUME StartupTypeOK, NEW r \in Replicas, NEW pc \in Stages, Goto(r, pc)
    PROVE  \E p \in Proc : /\ proc' = [proc EXCEPT ![r] = p]
                           /\ p.pc = pc /\ p.last = proc[r].last /\ p.build = proc[r].build
<1> DEFINE p == [proc[r] EXCEPT !.pc = pc]
<1>1. p \in Proc /\ p.pc = pc /\ p.last = proc[r].last /\ p.build = proc[r].build
  BY ProcTyped DEF Proc
<1>2. proc' = [proc EXCEPT ![r] = p]
  BY DEF Goto
<1>3. QED
  BY <1>1, <1>2

Walk(r, pc) == Goto(r, pc) /\ UNCHANGED <<env, db, advisory, spoilt, faults>>

\* Steps between stages at which nothing more is known of the database.
LEMMA InvWalk ==
    ASSUME StartupInv, NEW r \in Replicas, NEW pc \in Stages, Walk(r, pc),
           \/ pc \in {"off", "load", "retry", "acquire", "lock"}
           \/ pc \in Seeding \ {"serving"} /\ proc[r].pc \in Seeding
           \/ pc = "serving" /\ proc[r].pc \in Seeding /\ (env.admin => db.boot = "admin" \/ db.other)
    PROVE  StartupInv'
<1>1. StartupTypeOK /\ Reached(proc[r]) /\ proc[r] \in Proc
  BY ProcTyped DEF StartupInv
<1>2. PICK p \in Proc : /\ proc' = [proc EXCEPT ![r] = p]
                        /\ p.pc = pc /\ p.last = proc[r].last /\ p.build = proc[r].build
  BY <1>1, GotoIs DEF Walk
<1>3. Reached(p)
  BY <1>1, <1>2 DEF Reached, PastCleanup, PastAuth, PastApply, PastIndex, PastUnique, Seeding
<1>4. p.pc \notin UpHeld
  BY <1>2 DEF UpHeld, Migrating, Seeding
<1>5. QED
  BY <1>1, <1>2, <1>3, <1>4, PlainMoves DEF Walk, StartupTypeOK

LEMMA InvLock ==
    ASSUME StartupInv, NEW r \in Replicas, Lock(r) PROVE StartupInv'
<1>1. StartupTypeOK /\ Reached(proc[r]) /\ "cleanup" \in Stages
  BY DEF StartupInv, Stages, Migrating
<1>2. PICK p \in Proc : proc' = [proc EXCEPT ![r] = p] /\ p.pc = "cleanup"
  BY <1>1, GotoIs DEF Lock
<1>3. Reached(p)
  BY <1>2 DEF Reached, PastCleanup, PastAuth, PastApply, PastIndex, PastUnique, Seeding
<1>4. QED
  BY <1>1, <1>2, <1>3, PlainMoves DEF Lock, StartupTypeOK

\* Whoever is at the schema stays there with the lock.
LEMMA LockHeld ==
    ASSUME StartupInv, NEW r \in Replicas, "lock" \notin spoilt, proc[r].pc \in UpHeld
    PROVE  advisory = r
  BY DEF StartupInv, OneMigrates

\* A statement that changes something other than the journal.
LEMMA InvStatement ==
    ASSUME StartupInv, NEW r \in Replicas, NEW pc \in Stages, Goto(r, pc),
           UNCHANGED <<env, advisory, spoilt, faults>>,
           proc[r].pc \in UpHeld \/ pc \notin UpHeld,
           DbGoesOn, db'.journal = db.journal,
           \A p \in Proc : p.pc = pc /\ p.build = proc[r].build => Reached(p)'
    PROVE  StartupInv'
<1>1. StartupTypeOK
  BY DEF StartupInv
<1>2. PICK p \in Proc : /\ proc' = [proc EXCEPT ![r] = p]
                        /\ p.pc = pc /\ p.build = proc[r].build
  BY <1>1, GotoIs
<1>3. JournalGoesOn /\ NoGaps' /\ AppliedOnce'
  BY DEF StartupInv, JournalGoesOn, NoGaps, AppliedOnce
<1>4. Reached(p)'
  BY <1>2
<1>5. "lock" \notin spoilt /\ p.pc \in UpHeld => advisory = r
  BY <1>2, LockHeld
<1>6. QED
  BY <1>1, <1>2, <1>3, <1>4, <1>5, ProcMoves DEF StartupTypeOK

LEMMA InvCleanup ==
    ASSUME StartupInv, NEW r \in Replicas, Cleanup(r) PROVE StartupInv'
<1>1. StartupTypeOK /\ proc[r].pc = "cleanup" /\ "auth" \in Stages /\ "cleanup" \in UpHeld
  BY DEF StartupInv, Stages, Migrating, Cleanup, Statement, At, UpHeld
<1>2. db' = [db EXCEPT !.legacy = FALSE] /\ db \in Database
  BY <1>1 DEF Cleanup, StartupTypeOK
<1>3. DbGoesOn /\ db'.journal = db.journal /\ ~db'.legacy
  BY <1>2 DEF DbGoesOn, Database
<1>4. \A p \in Proc : p.pc = "auth" => Reached(p)'
  BY <1>3 DEF Reached, PastCleanup, PastAuth, PastApply, PastIndex, PastUnique, Seeding
<1>5. QED
  BY <1>1, <1>3, <1>4, InvStatement DEF Cleanup

LEMMA InvBetterAuth ==
    ASSUME StartupInv, NEW r \in Replicas, BetterAuth(r) PROVE StartupInv'
<1>1. StartupTypeOK /\ proc[r].pc = "auth" /\ "journal" \in Stages /\ "auth" \in UpHeld
  BY DEF StartupInv, Stages, Migrating, BetterAuth, Statement, At, UpHeld
<1>2. db' = [db EXCEPT !.users = TRUE] /\ db \in Database
  BY <1>1 DEF BetterAuth, StartupTypeOK
<1>3. DbGoesOn /\ db'.journal = db.journal /\ db'.users
  BY <1>2 DEF DbGoesOn, Database
<1>4. ~db.legacy
  BY <1>1 DEF StartupInv, Reached, PastCleanup
<1>5. \A p \in Proc : p.pc = "journal" => Reached(p)'
  BY <1>3, <1>4 DEF DbGoesOn, Reached, PastCleanup, PastAuth, PastApply, PastIndex, PastUnique, Seeding
<1>6. QED
  BY <1>1, <1>3, <1>5, InvStatement DEF BetterAuth

\* What was known at a stage is known at a later one.
LEMMA Further ==
    ASSUME NEW p, NEW q, Reached(p), q.build = p.build,
           q.pc \in PastCleanup => p.pc \in PastCleanup,
           q.pc \in PastAuth => p.pc \in PastAuth,
           q.pc \in PastApply => p.pc \in PastApply,
           q.pc \in PastIndex => p.pc \in PastIndex,
           q.pc \in PastUnique => p.pc \in PastUnique,
           q.pc \notin {"apply", "serving"}
    PROVE  Reached(q)
  BY DEF Reached

LEMMA InvAddColumn ==
    ASSUME StartupInv, NEW r \in Replicas, AddColumn(r) PROVE StartupInv'
<1>1. StartupTypeOK /\ proc[r].pc = "column" /\ "index" \in Stages /\ "column" \in UpHeld
  BY DEF StartupInv, Stages, Migrating, AddColumn, Statement, At, UpHeld
<1>2. db' = [db EXCEPT !.fts = IF @ = "none" THEN "column" ELSE @] /\ db \in Database
  BY <1>1 DEF AddColumn, StartupTypeOK
<1>3. DbGoesOn /\ db'.journal = db.journal
  BY <1>2 DEF DbGoesOn, Database
<1>4. Reached(proc[r])
  BY DEF StartupInv
<1>5. ASSUME NEW p \in Proc, p.pc = "index", p.build = proc[r].build PROVE Reached(p)'
  <2>1. Reached(p)
    BY <1>1, <1>4, <1>5, Further DEF PastCleanup, PastAuth, PastApply, PastIndex, PastUnique, Seeding
  <2>2. JournalGoesOn
    BY <1>3 DEF JournalGoesOn
  <2>3. QED
    BY <1>3, <1>5, <2>1, <2>2, ReachedByOthers DEF AddColumn
<1>6. QED
  BY <1>1, <1>3, <1>5, InvStatement DEF AddColumn

LEMMA InvAddIndex ==
    ASSUME StartupInv, NEW r \in Replicas, AddIndex(r) PROVE StartupInv'
<1>1. StartupTypeOK /\ proc[r].pc = "index" /\ "unique" \in Stages /\ "index" \in UpHeld
  BY DEF StartupInv, Stages, Migrating, AddIndex, Statement, At, UpHeld
<1>2. db' = [db EXCEPT !.fts = "index"] /\ db \in Database
  BY <1>1 DEF AddIndex, StartupTypeOK
<1>3. DbGoesOn /\ db'.journal = db.journal /\ db'.fts = "index"
  BY <1>2 DEF DbGoesOn, Database
<1>4. /\ ~db.legacy /\ db.users
      /\ \A m \in Migrations : m <= proc[r].build => db.journal[m] > 0
  BY <1>1 DEF StartupInv, Reached, PastCleanup, PastAuth, PastApply
<1>5. ASSUME NEW p \in Proc, p.pc = "unique", p.build = proc[r].build PROVE Reached(p)'
  BY <1>3, <1>4, <1>5 DEF DbGoesOn, Reached, PastCleanup, PastAuth, PastApply, PastIndex, PastUnique, Seeding
<1>6. QED
  BY <1>1, <1>3, <1>5, InvStatement DEF AddIndex

LEMMA InvAddUnique ==
    ASSUME StartupInv, NEW r \in Replicas, AddUnique(r) PROVE StartupInv'
<1>1. StartupTypeOK /\ proc[r].pc = "unique" /\ "unlock" \in Stages /\ "unique" \in UpHeld
  BY DEF StartupInv, Stages, Migrating, AddUnique, Statement, At, UpHeld
<1>2. db' = [db EXCEPT !.unique = @ \/ ~db.twins] /\ db \in Database
  BY <1>1 DEF AddUnique, StartupTypeOK
<1>3. DbGoesOn /\ db'.journal = db.journal /\ (db'.unique \/ db'.twins)
  BY <1>2 DEF DbGoesOn, Database
<1>4. /\ ~db.legacy /\ db.users /\ db.fts = "index"
      /\ \A m \in Migrations : m <= proc[r].build => db.journal[m] > 0
  BY <1>1 DEF StartupInv, Reached, PastCleanup, PastAuth, PastApply, PastIndex
<1>5. ASSUME NEW p \in Proc, p.pc = "unlock", p.build = proc[r].build PROVE Reached(p)'
  BY <1>3, <1>4, <1>5 DEF DbGoesOn, Reached, PastCleanup, PastAuth, PastApply, PastIndex, PastUnique, Seeding
<1>6. QED
  BY <1>1, <1>3, <1>5, InvStatement DEF AddUnique

LEMMA InvUniqueFails ==
    ASSUME StartupInv, NEW r \in Replicas, UniqueFails(r) PROVE StartupInv'
<1>1. StartupTypeOK /\ proc[r].pc = "unique" /\ "unlock" \in Stages /\ "unique" \in UpHeld
  BY DEF StartupInv, Stages, Migrating, UniqueFails, At, UpHeld
<1>2. PICK p \in Proc : /\ proc' = [proc EXCEPT ![r] = p]
                        /\ p.pc = "unlock" /\ p.build = proc[r].build
  BY <1>1, GotoIs DEF UniqueFails
<1>3. /\ ~db.legacy /\ db.users /\ db.fts = "index"
      /\ \A m \in Migrations : m <= proc[r].build => db.journal[m] > 0
  BY <1>1 DEF StartupInv, Reached, PastCleanup, PastAuth, PastApply, PastIndex
<1>4. Reached(p)'
  BY <1>2, <1>3 DEF UniqueFails, Reached, PastCleanup, PastAuth, PastApply, PastIndex, PastUnique, Seeding
<1>5. DbGoesOn /\ JournalGoesOn /\ NoGaps' /\ AppliedOnce'
  BY DEF UniqueFails, StartupInv, StartupTypeOK, DbGoesOn, JournalGoesOn, NoGaps, AppliedOnce
<1>6. "lock" \notin spoilt => advisory = r
  BY <1>1, LockHeld
<1>7. faults' \in Nat /\ spoilt' \subseteq {"lock", "seed", "unique"}
  BY <1>1 DEF UniqueFails, Fault, StartupTypeOK
<1>8. QED
  BY <1>1, <1>2, <1>4, <1>5, <1>6, <1>7, ProcMoves DEF UniqueFails, StartupTypeOK
LEMMA InvUnlock ==
    ASSUME StartupInv, NEW r \in Replicas, Unlock(r) PROVE StartupInv'
<1> DEFINE pc == IF env.admin THEN "seed" ELSE "serving"
<1>1. StartupTypeOK /\ proc[r].pc = "unlock" /\ pc \in Stages /\ Reached(proc[r])
  BY DEF StartupInv, Stages, Unlock, At
<1>2. PICK p \in Proc : /\ proc' = [proc EXCEPT ![r] = p]
                        /\ p.pc = pc /\ p.build = proc[r].build
  BY <1>1, GotoIs DEF Unlock
<1>3. p.pc \in {"seed", "serving"} /\ (p.pc = "serving" => ~env.admin)
  BY <1>2
<1>4. Reached(p)
  BY <1>1, <1>2, <1>3 DEF Reached, PastCleanup, PastAuth, PastApply, PastIndex, PastUnique, Seeding
<1>5. p.pc \notin UpHeld
  BY <1>3 DEF UpHeld, Migrating
<1>6. /\ advisory' \in Replicas \cup {NoOne} /\ faults' \in Nat
      /\ advisory \notin {r, NoOne} => advisory' = advisory
  BY <1>1 DEF Unlock, Release, StartupTypeOK
<1>7. QED
  BY <1>2, <1>4, <1>5, <1>6, PlainMoves DEF Unlock

\* A process ends, starts over or drains, with or without the lock in its hands.
LEMMA InvLeave ==
    ASSUME StartupInv, NEW r \in Replicas, NEW pc \in {"retry", "off", "draining"}, Goto(r, pc),
           Release(r) \/ UNCHANGED advisory, Fault \/ UNCHANGED faults, UNCHANGED <<env, db, spoilt>>,
           pc = "draining" => proc[r].pc = "serving"
    PROVE  StartupInv'
<1>1. StartupTypeOK /\ pc \in Stages /\ Reached(proc[r])
  BY DEF StartupInv, Stages
<1>2. PICK p \in Proc : /\ proc' = [proc EXCEPT ![r] = p]
                        /\ p.pc = pc /\ p.build = proc[r].build
  BY <1>1, GotoIs
<1>3. Reached(p)
  BY <1>1, <1>2 DEF Reached, PastCleanup, PastAuth, PastApply, PastIndex, PastUnique, Seeding
<1>4. p.pc \notin UpHeld
  BY <1>2 DEF UpHeld, Migrating
<1>5. /\ advisory' \in Replicas \cup {NoOne} /\ faults' \in Nat
      /\ advisory \notin {r, NoOne} => advisory' = advisory
  BY <1>1 DEF Release, Fault, StartupTypeOK
<1>6. QED
  BY <1>2, <1>3, <1>4, <1>5, PlainMoves

LEMMA InvReadJournal ==
    ASSUME StartupInv, NEW r \in Replicas, ReadJournal(r) PROVE StartupInv'
<1>1. /\ StartupTypeOK /\ proc[r] \in Proc /\ proc[r].pc = "journal" /\ "journal" \in UpHeld
      /\ ~db.legacy /\ db.users
  BY ProcTyped DEF StartupInv, ReadJournal, Statement, At, UpHeld, Migrating, Reached, PastCleanup, PastAuth
<1>2. CASE Latest(db) > proc[r].build
  BY <1>2, InvLeave DEF ReadJournal
<1>3. CASE ~(Latest(db) > proc[r].build)
  <2>1. PICK n \in 0..Top : n = Latest(db)
    BY LatestIsLast
  <2>2. PICK p \in Proc : p = [proc[r] EXCEPT !.pc = "apply", !.last = n] /\ p.pc = "apply" /\ p.last = n
    <3> DEFINE q == [proc[r] EXCEPT !.pc = "apply", !.last = n]
    <3>1. q \in Proc /\ q.pc = "apply" /\ q.last = n
      BY <1>1 DEF Proc, Stages, Migrating
    <3>2. QED
      BY <3>1
  <2>3. proc' = [proc EXCEPT ![r] = p] /\ UNCHANGED advisory
    BY <1>3, <2>1, <2>2 DEF ReadJournal
  <2>4. /\ \A m \in Migrations : m <= n => db.journal[m] > 0
        /\ \A m \in Migrations : m > n => db.journal[m] = 0
    BY <2>1, LatestIsLast
  <2>5. Reached(p)
    BY <1>1, <2>2, <2>4 DEF Reached, PastCleanup, PastAuth, PastApply, PastIndex, PastUnique, Seeding
  <2>6. "lock" \notin spoilt => advisory = r
    BY <1>1, LockHeld
  <2>7. QED
    BY <1>1, <2>3, <2>5, <2>6, PlainMoves DEF ReadJournal, StartupTypeOK
<1>4. QED
  BY <1>2, <1>3

\* What is applied is what the journal read did not record, up to the build: the journal
\* is as long as the build then, and what was recorded before is recorded twice only
\* after the lock was lost, and if it can be run again.
LEMMA InvApply ==
    ASSUME StartupInv, NEW r \in Replicas, Apply(r) PROVE StartupInv'
<1>1. /\ StartupTypeOK /\ proc[r] \in Proc /\ proc[r].pc = "apply" /\ "apply" \in UpHeld
      /\ ~db.legacy /\ db.users /\ db \in Database /\ "column" \in Stages
      /\ Top \in Nat /\ \A m \in Migrations : m \in Int
  BY ProcTyped, StartupAssumption
  DEF StartupInv, StartupTypeOK, Apply, Statement, At, UpHeld, Stages, Migrating, Reached, PastCleanup,
      PastAuth, Migrations
<1>2. CASE ~CanApply(r)
  BY <1>2, InvLeave DEF Apply
<1>3. CASE CanApply(r)
  <2>1. PICK n \in 0..Top, b \in 1..Top : n = proc[r].last /\ b = proc[r].build
    BY <1>1, ProcTyped
  <2>2. PICK p \in Proc : proc' = [proc EXCEPT ![r] = p] /\ p.pc = "column" /\ p.build = b
    BY <1>1, <1>3, <2>1, GotoIs DEF Apply
  <2>3. PICK j \in [Migrations -> Nat] : j = db.journal
    BY <1>1 DEF Database
  <2>4. PICK k \in [Migrations -> Nat] :
            k = [m \in Migrations |-> IF n < m /\ m <= b THEN j[m] + 1 ELSE j[m]]
    <3> DEFINE i == [m \in Migrations |-> IF n < m /\ m <= b THEN j[m] + 1 ELSE j[m]]
    <3>1. i \in [Migrations -> Nat]
      OBVIOUS
    <3>2. QED
      BY <3>1
  <2>5. db' = [db EXCEPT !.journal = k]
    <3>1. db' = [db EXCEPT !.journal = [m \in Migrations |->
                    IF m \in Missing(r) THEN db.journal[m] + 1 ELSE db.journal[m]]]
      BY <1>3 DEF Apply
    <3>2. \A m \in Migrations : m \in Missing(r) <=> n < m /\ m <= b
      BY <2>1 DEF Missing
    <3>3. k = [m \in Migrations |-> IF m \in Missing(r) THEN db.journal[m] + 1 ELSE db.journal[m]]
      BY <2>3, <2>4, <3>2
    <3>4. QED
      BY <3>1, <3>3
  <2>6. DbGoesOn /\ db'.journal = k /\ ~db'.legacy /\ db'.users
    BY <1>1, <2>5 DEF DbGoesOn, Database
  <2>7. /\ \A m \in Migrations : m <= n => j[m] > 0
        /\ "lock" \notin spoilt => \A m \in Migrations : m > n => j[m] = 0
    BY <1>1, <2>1, <2>3 DEF StartupInv, Reached
  <2>8. \A m \in Migrations : n < m /\ m <= b => j[m] = 0 \/ m \in Rerunnable
    BY <1>3, <2>1, <2>3 DEF CanApply, Missing
  <2>9. \A m \in Migrations : j[m] \in Nat /\ k[m] = IF n < m /\ m <= b THEN j[m] + 1 ELSE j[m]
    BY <2>3, <2>4
  <2>10. \A m \in Migrations : j[m] > 0 => k[m] > 0
    BY <2>9
  <2>11. \A m \in Migrations : m <= b => k[m] > 0
    BY <1>1, <2>1, <2>7, <2>9
  <2>12. JournalGoesOn
    BY <2>3, <2>6, <2>10 DEF JournalGoesOn
  <2>13. NoGaps'
    <3>1. ASSUME NEW m \in Migrations, NEW i \in Migrations, m < i, k[i] > 0 PROVE k[m] > 0
      <4>1. CASE j[i] > 0
        BY <2>3, <2>10, <3>1, <4>1 DEF StartupInv, NoGaps
      <4>2. CASE ~(j[i] > 0)
        <5>1. i <= b
          BY <2>9, <3>1, <4>2
        <5>2. QED
          BY <1>1, <2>1, <2>11, <3>1, <5>1
      <4>3. QED
        BY <4>1, <4>2
    <3>2. QED
      BY <2>6, <3>1 DEF NoGaps
  <2>14. AppliedOnce'
    <3>1. ASSUME NEW m \in Migrations PROVE k[m] <= 1 \/ (m \in Rerunnable /\ "lock" \in spoilt)
      <4>1. j[m] <= 1 \/ (m \in Rerunnable /\ "lock" \in spoilt)
        BY <2>3 DEF StartupInv, AppliedOnce
      <4>2. CASE ~(n < m /\ m <= b)
        BY <2>9, <4>1, <4>2
      <4>3. CASE n < m /\ m <= b /\ j[m] = 0
        BY <2>9, <4>3
      <4>4. CASE n < m /\ m <= b /\ j[m] # 0
        <5>1. m \in Rerunnable
          BY <2>8, <4>4
        <5>2. "lock" \in spoilt
          BY <1>1, <2>7, <4>4
        <5>3. QED
          BY <5>1, <5>2
      <4>5. QED
        BY <4>2, <4>3, <4>4
    <3>2. spoilt' = spoilt
      BY DEF Apply
    <3>3. QED
      BY <2>6, <3>1, <3>2 DEF AppliedOnce
  <2>15. Reached(p)'
    BY <2>2, <2>6, <2>11 DEF Reached, PastCleanup, PastAuth, PastApply, PastIndex, PastUnique, Seeding
  <2>16. "lock" \notin spoilt => advisory = r
    BY <1>1, LockHeld
  <2>17. advisory' = advisory /\ env' = env /\ spoilt' = spoilt /\ faults' = faults
    BY <1>3 DEF Apply
  <2>18. QED
    BY <1>1, <2>2, <2>6, <2>12, <2>13, <2>14, <2>15, <2>16, <2>17, ProcMoves DEF StartupTypeOK
<1>4. QED
  BY <1>2, <1>3
LEMMA InvLoseLock ==
    ASSUME StartupInv, NEW r \in Replicas, LoseLock(r) PROVE StartupInv'
<1>1. StartupTypeOK'
  BY DEF StartupInv, StartupTypeOK, LoseLock, Fault
<1>2. OneMigrates' /\ NoGaps' /\ AppliedOnce'
  BY DEF StartupInv, LoseLock, OneMigrates, NoGaps, AppliedOnce
<1>3. ASSUME NEW q \in Replicas PROVE Reached(proc[q])'
  <2>1. PICK p \in Proc : p = proc[q] /\ p = proc'[q]
    BY ProcTyped DEF StartupInv, LoseLock
  <2>2. DbGoesOn /\ JournalGoesOn
    BY DEF StartupInv, StartupTypeOK, LoseLock, DbGoesOn, JournalGoesOn
  <2>3. Reached(p)'
    BY <2>1, <2>2, ReachedByOthers DEF LoseLock, StartupInv
  <2>4. QED
    BY <2>1, <2>3 DEF Reached
<1>4. QED
  BY <1>1, <1>2, <1>3 DEF StartupInv

\* The role of the bootstrap user changes, to an admin's if at all.
LEMMA InvSeed ==
    ASSUME StartupInv, NEW r \in Replicas, NEW pc \in Seeding, NEW role \in {"none", "user", "admin"},
           proc[r].pc \in Seeding, Goto(r, pc), db' = [db EXCEPT !.boot = role],
           db.boot = "admin" => role = "admin",
           UNCHANGED <<env, advisory, spoilt, faults>>,
           pc = "serving" => role = "admin"
    PROVE  StartupInv'
<1>1. /\ StartupTypeOK /\ db \in Database /\ pc \in Stages /\ pc \notin UpHeld /\ Reached(proc[r])
      /\ role \in {"none", "user", "admin"}
  BY DEF StartupInv, StartupTypeOK, Seeding, Stages, UpHeld, Migrating
<1>2. DbGoesOn /\ db'.journal = db.journal /\ db'.boot = role
  BY <1>1 DEF DbGoesOn, Database
<1>3. /\ ~db.legacy /\ db.users /\ db.fts = "index" /\ (db.unique \/ db.twins \/ "unique" \in spoilt)
      /\ \A m \in Migrations : m <= proc[r].build => db.journal[m] > 0
  BY <1>1 DEF Reached, PastCleanup, PastAuth, PastApply, PastIndex, PastUnique
<1>4. ASSUME NEW p \in Proc, p.pc = pc, p.build = proc[r].build PROVE Reached(p)'
  <2>1. p.pc # "apply"
    BY <1>4 DEF Seeding
  <2>2. QED
    BY <1>2, <1>3, <1>4, <2>1 DEF DbGoesOn, Reached
<1>5. QED
  BY <1>1, <1>2, <1>4, InvStatement

LEMMA InvCreateUser ==
    ASSUME StartupInv, NEW r \in Replicas, CreateUser(r) PROVE StartupInv'
<1>1. db \in Database /\ proc[r].pc \in Seeding
  BY DEF StartupInv, StartupTypeOK, CreateUser, At, Seeding
<1>2. PICK role \in {"none", "user", "admin"} : role = IF db.boot = "none" THEN "admin" ELSE db.boot
  BY <1>1 DEF Database
<1>3. db' = [db EXCEPT !.boot = role]
  BY <1>2 DEF CreateUser
<1>4. PICK pc \in Seeding : Goto(r, pc) /\ (pc = "serving" => role = "admin")
  BY <1>2 DEF CreateUser, Seeding
<1>5. db.boot = "admin" => role = "admin"
  BY <1>2
<1>6. QED
  BY <1>1, <1>3, <1>4, <1>5, InvSeed DEF CreateUser

LEMMA InvPromote ==
    ASSUME StartupInv, NEW r \in Replicas, Promote(r) PROVE StartupInv'
<1>1. proc[r].pc \in Seeding /\ "serving" \in Seeding
  BY DEF Promote, At, Seeding
<1>2. QED
  BY <1>1, InvSeed DEF Promote

LEMMA InvSeedFails ==
    ASSUME StartupInv, NEW r \in Replicas, SeedFails(r) PROVE StartupInv'
<1>1. StartupTypeOK /\ proc[r].pc \in Seeding \ {"serving"} /\ "serving" \in Stages /\ Reached(proc[r])
  BY DEF StartupInv, SeedFails, Seeding, Stages
<1>2. PICK p \in Proc : /\ proc' = [proc EXCEPT ![r] = p]
                        /\ p.pc = "serving" /\ p.build = proc[r].build
  BY <1>1, GotoIs DEF SeedFails
<1>3. /\ ~db.legacy /\ db.users /\ db.fts = "index" /\ (db.unique \/ db.twins \/ "unique" \in spoilt)
      /\ \A m \in Migrations : m <= proc[r].build => db.journal[m] > 0
  BY <1>1 DEF Reached, PastCleanup, PastAuth, PastApply, PastIndex, PastUnique
<1>4. Reached(p)'
  BY <1>2, <1>3 DEF SeedFails, Reached
<1>5. DbGoesOn /\ JournalGoesOn /\ NoGaps' /\ AppliedOnce'
  BY DEF SeedFails, StartupInv, StartupTypeOK, DbGoesOn, JournalGoesOn, NoGaps, AppliedOnce
<1>6. faults' \in Nat /\ spoilt' \subseteq {"lock", "seed", "unique"} /\ p.pc \notin UpHeld
  BY <1>1, <1>2 DEF SeedFails, Fault, StartupTypeOK, UpHeld, Migrating
<1>7. QED
  BY <1>1, <1>2, <1>4, <1>5, <1>6, ProcMoves DEF SeedFails, StartupTypeOK

LEMMA StartupInvInit == ASSUME StartupInit PROVE StartupInv
<1>1. PICK build \in Builds : proc = [r \in Replicas |-> [pc |-> "off", last |-> 0, build |-> build[r]]]
  BY DEF StartupInit
<1>2. PICK n \in 0..Top : \A m \in Migrations : db.journal[m] = IF m <= n THEN 1 ELSE 0
  BY StartupAssumption DEF StartupInit
<1>3. Top \in Nat /\ env \in Env /\ db \in Database /\ \A m \in Migrations : m \in Int
  BY StartupAssumption DEF StartupInit, Migrations
<1>4. build \in [Replicas -> 1..Top]
  BY StartupAssumption
<1>5. \A r \in Replicas : proc[r].pc = "off"
  BY <1>1
<1>6. StartupTypeOK
  <2>1. 0 \in 0..Top /\ "off" \in Stages
    BY <1>3 DEF Stages
  <2>2. proc \in [Replicas -> Proc]
    BY <1>1, <1>4, <2>1 DEF Proc
  <2>3. QED
    BY <1>3, <2>2 DEF StartupTypeOK, StartupInit
<1>7. OneMigrates
  BY <1>5 DEF OneMigrates, UpHeld, Migrating
<1>8. NoGaps /\ AppliedOnce
  BY <1>2, <1>3 DEF NoGaps, AppliedOnce
<1>9. \A r \in Replicas : Reached(proc[r])
  BY <1>5 DEF Reached, PastCleanup, PastAuth, PastApply, PastIndex, PastUnique, Seeding
<1>10. QED
  BY <1>6, <1>7, <1>8, <1>9 DEF StartupInv

LEMMA InvProceed ==
    ASSUME StartupInv, NEW r \in Replicas, Proceed(r) PROVE StartupInv'
<1>1. CASE \/ Start(r) \/ Load(r) \/ Connect(r) \/ Retry(r)
  <2>1. PICK pc \in {"load", "off", "acquire", "lock"} : Walk(r, pc)
    BY <1>1 DEF Start, Load, Connect, Retry, Walk
  <2>2. pc \in Stages
    BY DEF Stages, Migrating
  <2>3. QED
    BY <2>1, <2>2, InvWalk
<1>2. CASE CountAdmins(r)
  <2>1. PICK pc \in {"serving", "create"} :
            Walk(r, pc) /\ (pc = "serving" => db.boot = "admin" \/ db.other)
    BY <1>2 DEF CountAdmins, Walk
  <2>2. pc \in Stages /\ pc \in Seeding /\ proc[r].pc \in Seeding
    BY <1>2 DEF Stages, Seeding, CountAdmins, At
  <2>3. QED
    BY <2>1, <2>2, InvWalk
<1>3. CASE JobsDone(r)
  BY <1>3, InvLeave DEF JobsDone
<1>4. QED
  BY <1>1, <1>2, <1>3, InvLock, InvCleanup, InvBetterAuth, InvReadJournal, InvApply, InvAddColumn,
     InvAddIndex, InvAddUnique, InvUnlock, InvCreateUser, InvPromote
  DEF Proceed

LEMMA InvMishap ==
    ASSUME StartupInv, NEW r \in Replicas, Mishap(r) PROVE StartupInv'
<1>1. CASE StatementFails(r)
  BY <1>1, InvLeave DEF StatementFails
<1>2. CASE Deadline(r)
  BY <1>2, InvLeave DEF Deadline
<1>3. CASE Stop(r)
  BY <1>3, InvLeave DEF Stop, At
<1>4. CASE Crash(r)
  BY <1>4, InvLeave DEF Crash
<1>5. QED
  BY <1>1, <1>2, <1>3, <1>4, InvUniqueFails, InvLoseLock, InvSeedFails DEF Mishap

LEMMA InvStartupNext == ASSUME StartupInv, [StartupNext]_startupVars PROVE StartupInv'
<1>1. ASSUME NEW r \in Replicas, Proceed(r) \/ Mishap(r) PROVE StartupInv'
  BY <1>1, InvProceed, InvMishap
<1>2. CASE UNCHANGED startupVars
  BY <1>2 DEF startupVars, StartupInv, StartupTypeOK, OneMigrates, NoGaps, AppliedOnce, Reached
<1>3. QED
  BY <1>1, <1>2 DEF StartupNext

LEMMA InvReadyToServe == ASSUME StartupInv PROVE ReadyToServe
<1>1. ASSUME NEW r \in Replicas, Serving(r)
      PROVE  /\ \A m \in 1..proc[r].build : db.journal[m] > 0
             /\ db.users /\ db.fts = "index" /\ ~db.legacy
             /\ db.unique \/ db.twins \/ "unique" \in spoilt
             /\ env.admin => db.boot = "admin" \/ db.other \/ "seed" \in spoilt
  <2>1. Reached(proc[r]) /\ proc[r].pc = "serving" /\ proc[r].build \in 1..Top /\ Top \in Nat
    BY <1>1, ProcTyped, StartupAssumption DEF StartupInv, Serving
  <2>2. \A m \in 1..proc[r].build : m \in Migrations /\ m <= proc[r].build
    BY <2>1 DEF Migrations
  <2>3. \A m \in Migrations : m <= proc[r].build => db.journal[m] > 0
    BY <2>1 DEF Reached, PastApply, PastIndex, PastUnique, Seeding
  <2>4. QED
    BY <2>1, <2>2, <2>3 DEF Reached, PastCleanup, PastAuth, PastApply, PastIndex, PastUnique, Seeding
<1>2. QED
  BY <1>1 DEF ReadyToServe, SchemaReady, AdminReady, StartupInv, AppliedOnce

(* The inductive invariant of the startup: types, one process at the schema as   *)
(* long as no connection broke, a journal without gaps, and what each process    *)
(* knows of the database by where it is in Migrate and in the seeding.           *)
THEOREM StartupCorrect == StartupSpec => []StartupInv
<1>1. QED
  BY StartupInvInit, InvStartupNext, PTL DEF StartupSpec

(* For any number of processes, builds and migrations, and whatever fails or     *)
(* breaks: who serves finds the schema of its build complete, nothing applied    *)
(* twice but what can be, and an admin (Migrate, seedBootstrapAdmin).            *)
THEOREM ServesOnlyWhenReady == StartupSpec => []ReadyToServe
<1>1. QED
  BY StartupCorrect, InvReadyToServe, PTL

-----------------------------------------------------------------------------
(* Enrichment: what a recursion computes.  Induction over an interval follows from a set of natural *)
(* numbers having a smallest, and the functions that Walks and Ball define are iterations of a step. *)

\* A set of natural numbers has a smallest.
LEMMA SmallestOf == ASSUME NEW T, T \subseteq Nat, T # {} PROVE \E n \in T : \A m \in T : n <= m
<1>1. PICK n \in T : \A m \in T : ~(<<m, n>> \in OpToRel(<, Nat))
  BY NatLessThanWellFounded, WFMin
<1>2. ASSUME NEW m \in T PROVE n <= m
  <2>1. n \in Nat /\ m \in Nat
    BY <1>1, <1>2
  <2>2. SUFFICES ASSUME m < n PROVE FALSE
    BY <2>1
  <2>3. <<m, n>> \in OpToRel(<, Nat)
    BY <2>1, <2>2 DEF OpToRel
  <2>4. QED
    BY <1>1, <1>2, <2>3
<1>3. QED
  BY <1>2

\* Induction over an interval that starts at a, with a set in place of a predicate.
LEMMA Upwards ==
    ASSUME NEW a \in Nat, NEW b \in Nat, NEW S,
           a \in S, \A n \in a..b : n \in S /\ n < b => n + 1 \in S
    PROVE  \A n \in a..b : n \in S
<1>1. SUFFICES ASSUME (a..b) \ S # {} PROVE FALSE
  OBVIOUS
<1>2. PICK n \in (a..b) \ S : \A m \in (a..b) \ S : n <= m
  <2>1. (a..b) \ S \subseteq Nat
    OBVIOUS
  <2>2. QED
    BY <1>1, <2>1, SmallestOf
<1>3. n # a /\ n - 1 \in a..b /\ n - 1 < b
  BY <1>2
<1>4. n - 1 \in S
  BY <1>2, <1>3
<1>5. QED
  BY <1>2, <1>3, <1>4

\* f is F iterated from x on, as far as b.
Iterates(f, X, x, F, a, b) ==
    f \in [a..b -> X] /\ \A m \in a..b : f[m] = IF m = a THEN x ELSE F[f[m - 1]]

\* Iterating a function a number of times is defined: no recursion is circular.
LEMMA Iterated ==
    ASSUME NEW X, NEW x \in X, NEW F \in [X -> X], NEW a \in Nat, NEW b \in Nat, a <= b
    PROVE  \E f : Iterates(f, X, x, F, a, b)
<1> DEFINE S == {n \in a..b : \E f \in [a..n -> X] :
                   \A m \in a..n : f[m] = IF m = a THEN x ELSE F[f[m - 1]]}
<1>1. a \in S
  <2> DEFINE f == [m \in a..a |-> x]
  <2>1. f \in [a..a -> X] /\ \A m \in a..a : f[m] = IF m = a THEN x ELSE F[f[m - 1]]
    OBVIOUS
  <2>2. a \in a..b
    OBVIOUS
  <2>3. QED
    BY <2>1, <2>2
<1>2. ASSUME NEW n \in a..b, n \in S, n < b PROVE n + 1 \in S
  <2>1. PICK f \in [a..n -> X] : \A m \in a..n : f[m] = IF m = a THEN x ELSE F[f[m - 1]]
    BY <1>2
  <2> DEFINE g == [m \in a..(n + 1) |-> IF m <= n THEN f[m] ELSE F[f[n]]]
  <2>2. n \in a..n /\ f[n] \in X /\ F[f[n]] \in X
    BY <2>1
  <2>3. ASSUME NEW m \in a..(n + 1) PROVE g[m] \in X
    BY <2>1, <2>2, <2>3
  <2>4. g \in [a..(n + 1) -> X]
    BY <2>3
  <2>5. ASSUME NEW m \in a..(n + 1) PROVE g[m] = IF m = a THEN x ELSE F[g[m - 1]]
    <3>1. CASE m <= n
      <4>1. m \in a..n /\ g[m] = f[m] /\ (m # a => m - 1 \in a..n /\ g[m - 1] = f[m - 1])
        BY <2>5, <3>1
      <4>2. QED
        BY <2>1, <4>1
    <3>2. CASE m = n + 1
      <4>1. m # a /\ g[m] = F[f[n]] /\ m - 1 = n /\ g[n] = f[n]
        BY <2>2, <3>2
      <4>2. QED
        BY <4>1
    <3>3. QED
      BY <2>5, <3>1, <3>2
  <2>6. n + 1 \in a..b
    BY <1>2
  <2>7. QED
    BY <2>4, <2>5, <2>6
<1>3. \A n \in a..b : n \in S
  <2> HIDE DEF S
  <2>1. QED
    BY <1>1, <1>2, Upwards
<1>4. b \in a..b
  OBVIOUS
<1>5. QED
  BY <1>3, <1>4 DEF Iterates

-----------------------------------------------------------------------------
(* Neighbours *)

\* The balls around an id, one edge further with each step.
Balls(seed) == CHOOSE ball : ball = [n \in 0 .. Depth |->
    IF n = 0 THEN {seed} ELSE ball[n - 1] \cup UNION {Touching(j) : j \in ball[n - 1]}]

LEMMA BallsGrow ==
    ASSUME NEW seed \in Ids
    PROVE  /\ Balls(seed)[0] = {seed}
           /\ \A n \in 1..Depth : Balls(seed)[n] =
                 Balls(seed)[n - 1] \cup UNION {Touching(j) : j \in Balls(seed)[n - 1]}
           /\ Ball(seed) = Balls(seed)[Depth] \ {seed}
<1> DEFINE X == SUBSET Ids
           F == [B \in X |-> B \cup UNION {Touching(j) : j \in B}]
           Is(ball) == ball = [n \in 0 .. Depth |->
               IF n = 0 THEN {seed} ELSE ball[n - 1] \cup UNION {Touching(j) : j \in ball[n - 1]}]
<1>1. F \in [X -> X] /\ {seed} \in X
  BY DEF Touching
<1>2. Depth \in Nat /\ 0 <= Depth
  BY GraphAssumption
<1>3. PICK f : Iterates(f, X, {seed}, F, 0, Depth)
  <2> HIDE DEF X, F
  <2>1. QED
    BY <1>1, <1>2, Iterated
<1>4. ASSUME NEW m \in 0..Depth, m # 0
      PROVE  f[m - 1] \in X /\ F[f[m - 1]] = f[m - 1] \cup UNION {Touching(j) : j \in f[m - 1]}
  <2>1. m - 1 \in 0..Depth
    BY <1>2, <1>4
  <2>2. f[m - 1] \in X
    BY <1>3, <2>1 DEF Iterates
  <2>3. QED
    BY <2>2
<1>5. Is(f)
  <2>1. ASSUME NEW m \in 0..Depth
        PROVE  f[m] = IF m = 0 THEN {seed} ELSE f[m - 1] \cup UNION {Touching(j) : j \in f[m - 1]}
    <3> HIDE DEF F, X
    <3>1. QED
      BY <1>3, <1>4, <2>1 DEF Iterates
  <2> HIDE DEF F, X
  <2>2. f = [m \in 0..Depth |-> f[m]]
    BY <1>3 DEF Iterates
  <2>3. QED
    BY <2>1, <2>2
<1>6. Is(Balls(seed))
  BY <1>5 DEF Balls
<1>7. /\ Balls(seed)[0] = {seed}
      /\ \A n \in 1..Depth : Balls(seed)[n] =
            Balls(seed)[n - 1] \cup UNION {Touching(j) : j \in Balls(seed)[n - 1]}
  BY <1>2, <1>6
<1>8. Ball(seed) = Balls(seed)[Depth] \ {seed}
  BY DEF Ball, Balls
<1>9. QED
  BY <1>7, <1>8

\* The walks from an id, one edge longer with each step.
Longer(p) == {[at |-> j, seen |-> p.seen \cup {j}] : j \in Touching(p.at) \ p.seen}
WalksUpTo(seed) == CHOOSE walk : walk = [n \in 1 .. Depth |->
    IF n = 1 THEN {[at |-> j, seen |-> {seed, j}] : j \in Touching(seed)}
    ELSE walk[n - 1] \cup UNION {Longer(p) : p \in walk[n - 1]}]

LEMMA WalksGrow ==
    ASSUME NEW seed \in Ids
    PROVE  /\ WalksUpTo(seed)[1] = {[at |-> j, seen |-> {seed, j}] : j \in Touching(seed)}
           /\ \A n \in 1..Depth : n # 1 => WalksUpTo(seed)[n] =
                 WalksUpTo(seed)[n - 1] \cup UNION {Longer(p) : p \in WalksUpTo(seed)[n - 1]}
           /\ Walks(seed) = WalksUpTo(seed)[Depth]
<1> DEFINE X == SUBSET [at : Ids, seen : SUBSET Ids]
           first == {[at |-> j, seen |-> {seed, j}] : j \in Touching(seed)}
           F == [B \in X |-> B \cup UNION {Longer(p) : p \in B}]
           Is(walk) == walk = [n \in 1 .. Depth |->
               IF n = 1 THEN first ELSE walk[n - 1] \cup UNION {Longer(p) : p \in walk[n - 1]}]
<1>1. F \in [X -> X] /\ first \in X
  <2>1. ASSUME NEW p \in [at : Ids, seen : SUBSET Ids] PROVE Longer(p) \in X
    <3>1. p.seen \subseteq Ids /\ Touching(p.at) \subseteq Ids
      BY <2>1 DEF Touching
    <3>2. \A j \in Touching(p.at) \ p.seen : [at |-> j, seen |-> p.seen \cup {j}] \in [at : Ids, seen : SUBSET Ids]
      BY <3>1
    <3>3. QED
      BY <3>2 DEF Longer
  <2>2. first \in X
    <3>1. \A j \in Touching(seed) : [at |-> j, seen |-> {seed, j}] \in [at : Ids, seen : SUBSET Ids]
      BY DEF Touching
    <3>2. QED
      BY <3>1
  <2>3. ASSUME NEW B \in X PROVE B \cup UNION {Longer(p) : p \in B} \in X
    BY <2>1, <2>3
  <2>4. QED
    BY <2>2, <2>3
<1>2. Depth \in Nat /\ 1 <= Depth
  BY GraphAssumption
<1>3. PICK f : Iterates(f, X, first, F, 1, Depth)
  <2> HIDE DEF X, F, first
  <2>1. QED
    BY <1>1, <1>2, Iterated
<1>4. ASSUME NEW m \in 1..Depth, m # 1
      PROVE  f[m - 1] \in X /\ F[f[m - 1]] = f[m - 1] \cup UNION {Longer(p) : p \in f[m - 1]}
  <2>1. m - 1 \in 1..Depth
    BY <1>2, <1>4
  <2>2. f[m - 1] \in X
    BY <1>3, <2>1 DEF Iterates
  <2>3. QED
    BY <2>2
<1>5. Is(f)
  <2>1. ASSUME NEW m \in 1..Depth
        PROVE  f[m] = IF m = 1 THEN first ELSE f[m - 1] \cup UNION {Longer(p) : p \in f[m - 1]}
    <3> HIDE DEF F, X, first
    <3>1. QED
      BY <1>3, <1>4, <2>1 DEF Iterates
  <2> HIDE DEF F, X, first
  <2>2. f = [m \in 1..Depth |-> f[m]]
    BY <1>3 DEF Iterates
  <2>3. QED
    BY <2>1, <2>2
<1>6. Is(WalksUpTo(seed))
  BY <1>5 DEF WalksUpTo
<1>7. /\ WalksUpTo(seed)[1] = first
      /\ \A n \in 1..Depth : n # 1 => WalksUpTo(seed)[n] =
            WalksUpTo(seed)[n - 1] \cup UNION {Longer(p) : p \in WalksUpTo(seed)[n - 1]}
  <2> HIDE DEF first
  <2>1. QED
    BY <1>2, <1>6
<1>8. Walks(seed) = WalksUpTo(seed)[Depth]
  BY DEF Walks, WalksUpTo, Longer
<1>9. QED
  BY <1>7, <1>8

\* It is at an end of an edge.
Linkable(x) == \E j \in Ids : x \in Touching(j)

\* Every id on a walk but the seed is where a walk of at most that length ends, and within as many edges.
Covers(seed, n) ==
    LET walk == WalksUpTo(seed)[n]
        ball == Balls(seed)[n] IN
    /\ walk \subseteq [at : Ids, seen : SUBSET Ids] /\ WalksUpTo(seed)[1] \subseteq walk
    /\ \A p \in walk : \A x \in p.seen : x = seed \/ \E q \in walk : q.at = x
    /\ \A p \in walk : p.at \in ball /\ p.at \in p.seen /\ Linkable(p.at)
    /\ \A x \in ball : x = seed \/ \E q \in walk : q.at = x

LEMMA WalksCover == ASSUME NEW seed \in Ids, NEW n \in 1..Depth PROVE Covers(seed, n)
<1> DEFINE S == {m \in 1..Depth : Covers(seed, m)}
<1>1. 1 \in S
  <2>1. 1 \in 1..Depth /\ 1 # 0 /\ 1 - 1 = 0
    BY GraphAssumption
  <2>2. Balls(seed)[1] = {seed} \cup Touching(seed)
    BY <2>1, BallsGrow
  <2>3. WalksUpTo(seed)[1] = {[at |-> j, seen |-> {seed, j}] : j \in Touching(seed)}
    BY WalksGrow
  <2>4. Touching(seed) \subseteq Ids
    BY DEF Touching
  <2> DEFINE walk == WalksUpTo(seed)[1]
  <2>5. ASSUME NEW p \in walk
        PROVE  /\ p \in [at : Ids, seen : SUBSET Ids]
               /\ p.at \in Balls(seed)[1] /\ p.at \in p.seen /\ Linkable(p.at)
               /\ \A x \in p.seen : x = seed \/ x = p.at
    <3>1. PICK j \in Touching(seed) : p = [at |-> j, seen |-> {seed, j}]
      BY <2>3, <2>5
    <3>2. QED
      BY <2>2, <2>4, <3>1 DEF Linkable
  <2>6. ASSUME NEW x \in Touching(seed) PROVE \E q \in walk : q.at = x
    <3>1. [at |-> x, seen |-> {seed, x}] \in walk
      BY <2>3, <2>6
    <3>2. QED
      BY <3>1
  <2> HIDE DEF walk
  <2>7. QED
    BY <2>1, <2>2, <2>5, <2>6 DEF Covers, walk
<1>2. ASSUME NEW m \in 1..Depth, m \in S, m < Depth PROVE m + 1 \in S
  <2> DEFINE old == WalksUpTo(seed)[m]
             walk == WalksUpTo(seed)[m + 1]
             near == Balls(seed)[m]
             ball == Balls(seed)[m + 1]
  <2>1. m + 1 \in 1..Depth /\ m + 1 # 1 /\ (m + 1) - 1 = m
    BY <1>2, GraphAssumption
  <2>2. ball = near \cup UNION {Touching(j) : j \in near}
    BY <2>1, BallsGrow
  <2>3. walk = old \cup UNION {Longer(p) : p \in old}
    BY <2>1, WalksGrow
  <2>4. /\ old \subseteq [at : Ids, seen : SUBSET Ids] /\ WalksUpTo(seed)[1] \subseteq old
        /\ \A p \in old : \A x \in p.seen : x = seed \/ \E q \in old : q.at = x
        /\ \A p \in old : p.at \in near /\ p.at \in p.seen /\ Linkable(p.at)
        /\ \A x \in near : x = seed \/ \E q \in old : q.at = x
    BY <1>2 DEF Covers
  <2> HIDE DEF old, walk, near, ball
  <2>5. ASSUME NEW p \in old, NEW j, j \in Touching(p.at) \ p.seen
        PROVE  /\ [at |-> j, seen |-> p.seen \cup {j}] \in walk
               /\ j \in Ids /\ j \in ball /\ Linkable(j)
    <3>1. [at |-> j, seen |-> p.seen \cup {j}] \in Longer(p)
      BY <2>5 DEF Longer
    <3>2. p.at \in near /\ p.at \in Ids
      BY <2>4, <2>5
    <3>3. QED
      BY <2>2, <2>3, <2>5, <3>1, <3>2 DEF Touching, Linkable
  <2>6. ASSUME NEW w \in walk, w \notin old
        PROVE  \E p \in old : \E j \in Touching(p.at) \ p.seen : w = [at |-> j, seen |-> p.seen \cup {j}]
    BY <2>3, <2>6 DEF Longer
  <2>7. ASSUME NEW w \in walk
        PROVE  /\ w \in [at : Ids, seen : SUBSET Ids]
               /\ w.at \in ball /\ w.at \in w.seen /\ Linkable(w.at)
               /\ \A x \in w.seen : x = seed \/ \E q \in walk : q.at = x
    <3>1. CASE w \in old
      BY <2>2, <2>3, <2>4, <3>1
    <3>2. CASE w \notin old
      <4>0. PICK p \in old :
              \E j \in Touching(p.at) \ p.seen : w = [at |-> j, seen |-> p.seen \cup {j}]
        BY <2>6, <2>7, <3>2
      <4>1. PICK j \in Touching(p.at) \ p.seen : w = [at |-> j, seen |-> p.seen \cup {j}]
        BY <4>0
      <4>2. w \in [at : Ids, seen : SUBSET Ids] /\ w.at = j /\ w.seen = p.seen \cup {j} /\ j \in ball /\ Linkable(j)
        BY <2>4, <2>5, <4>1
      <4>3. \A x \in p.seen : x = seed \/ \E q \in walk : q.at = x
        BY <2>3, <2>4
      <4>4. QED
        BY <2>7, <4>2, <4>3
    <3>3. QED
      BY <3>1, <3>2
  <2>8. ASSUME NEW x \in ball, x # seed PROVE \E q \in walk : q.at = x
    <3>1. CASE x \in near
      BY <2>3, <2>4, <2>8, <3>1
    <3>2. CASE \E j \in near : x \in Touching(j)
      <4>1. PICK j \in near : x \in Touching(j)
        BY <3>2
      <4>2. CASE j = seed
        <5>1. [at |-> x, seen |-> {seed, x}] \in WalksUpTo(seed)[1]
          BY <4>1, <4>2, WalksGrow
        <5>2. QED
          BY <2>3, <2>4, <5>1
      <4>3. CASE j # seed
        <5>1. PICK p \in old : p.at = j
          BY <2>4, <4>1, <4>3
        <5>2. CASE x \in p.seen
          BY <2>3, <2>4, <2>8, <5>1, <5>2
        <5>3. CASE x \notin p.seen
          <6>1. [at |-> x, seen |-> p.seen \cup {x}] \in walk
            BY <2>5, <4>1, <5>1, <5>3
          <6>2. QED
            BY <6>1
        <5>4. QED
          BY <5>2, <5>3
      <4>4. QED
        BY <4>2, <4>3
    <3>3. QED
      BY <2>2, <2>8, <3>1, <3>2
  <2>9. QED
    BY <2>1, <2>3, <2>4, <2>7, <2>8 DEF Covers, walk, ball
<1>3. QED
  <2>1. 1 \in Nat /\ Depth \in Nat
    BY GraphAssumption
  <2> HIDE DEF S
  <2>2. \A m \in 1..Depth : m \in S
    BY <1>1, <1>2, <2>1, Upwards
  <2>3. QED
    BY <2>2 DEF S

\* What a neighbours call walks to is what is near, and all of it.
LEMMA ReachesAllNear ==
    ASSUME NEW seed \in Ids
    PROVE  Reachable(seed) = Ball(seed) /\ Ball(seed) \subseteq Ids /\ \A x \in Ball(seed) : Linkable(x)
<1>1. Depth \in 1..Depth
  BY GraphAssumption
<1>2. Covers(seed, Depth)
  BY <1>1, WalksCover
<1>3. Ball(seed) = Balls(seed)[Depth] \ {seed} /\ Walks(seed) = WalksUpTo(seed)[Depth]
  BY BallsGrow, WalksGrow
<1> DEFINE walk == WalksUpTo(seed)[Depth]
           ball == Balls(seed)[Depth]
<1> HIDE DEF walk, ball
<1>4. /\ walk \subseteq [at : Ids, seen : SUBSET Ids]
      /\ \A p \in walk : p.at \in ball /\ Linkable(p.at)
      /\ \A x \in ball : x = seed \/ \E q \in walk : q.at = x
  BY <1>2 DEF Covers, walk, ball
<1>5. Reachable(seed) = {p.at : p \in walk} \ {seed} /\ Ball(seed) = ball \ {seed}
  BY <1>3 DEF Reachable, walk, ball
<1>6. QED
  BY <1>4, <1>5

-----------------------------------------------------------------------------
(* The invariant *)

\* An id that is not stored yet is nowhere.
IdsIntact ==
    \A i \in Ids : row[i] = "new" =>
        /\ job[i].pc = "idle"
        /\ i \notin vec
        /\ i \notin reader.ball
        /\ \A j \in Ids : i \notin found[j]
        /\ \A w \in Jobs : i \notin job[w].sought \cup job[w].batch \cup {job[w].id}

DebtsLive == debt \subseteq {i \in Ids : Live(i)}

EdgesLive == \A i, j \in Ids : <<i, j>> \in edges => Live(i) /\ Live(j)

\* A run has linked its entry with what it does not have before it any more.
Linked ==
    \A w \in Jobs :
        /\ job[w].pc \notin {"idle", "next"} => job[w].id \in Ids
        /\ job[w].pc = "link" /\ Live(job[w].id) =>
              \A h \in job[w].sought \ job[w].hits : Live(h) => <<job[w].id, h>> \in edges

\* Tasks and the writes about to start one, counted by the cap.
TasksCounted ==
    /\ inFlight = Cardinality(Running)
    /\ Cardinality(Passed) <= together
    /\ Cardinality(Running) + Cardinality(Passed) <= Cap + together - 1

\* What a neighbours call has before it and behind it.
Answering ==
    /\ reader.pc = "walk" => reader.seed \in Ids
    /\ reader.pc \in {"idle", "walk"} => reader.todo = {} /\ reader.out = {}
    /\ reader.pc = "answered" => reader.todo = {}
    /\ reader.todo \subseteq reader.ball
    /\ reader.out \subseteq reader.ball \ Hidden
    /\ reader.pc \in {"load", "answered"} /\ Cardinality(reader.ball) <= Limit =>
          {h \in reader.ball \ Hidden : Live(h)} \subseteq reader.todo \cup reader.out

GraphInv ==
    /\ GraphTypeOK /\ IdsIntact /\ DebtsLive /\ EdgesLive
    /\ Linked /\ MarkerHonest /\ TasksCounted /\ Answering

LEMMA GraphInvSound == ASSUME GraphInv PROVE GraphSound
<1>1. Cardinality(Passed) \in Nat /\ Cardinality(Running) \in Nat
  <2>1. IsFiniteSet(Passed) /\ IsFiniteSet(Running)
    BY GraphAssumption, FS_Subset DEF Passed, Running
  <2>2. QED
    BY <2>1, FS_CardinalityType
<1>2. CapExceededOnlyTogether
  BY <1>1, GraphAssumption DEF GraphInv, TasksCounted, CapExceededOnlyTogether, GraphTypeOK
<1>3. NeighboursNear
  BY DEF GraphInv, Answering, NeighboursNear
<1>4. QED
  BY <1>2, <1>3 DEF GraphInv, GraphSound

LEMMA GraphInvInit == ASSUME GraphInit PROVE GraphInv
<1>1. Running = {} /\ Passed = {}
  BY DEF GraphInit, Running, Passed, Stands, Rest, Jobs
<1>2. Cardinality({}) = 0
  BY FS_EmptySet
<1>3. TasksCounted
  BY <1>1, <1>2, GraphAssumption DEF GraphInit, TasksCounted
<1>4. GraphTypeOK
  <2>1. Cardinality(Ids) \in Nat
    BY GraphAssumption, FS_CardinalityType
  <2>2. Rest \in Job
    BY DEF Rest, Job
  <2>3. Unread \in Reader
    BY DEF Unread, Reader
  <2>4. job \in [Jobs -> Job] /\ \A w \in Jobs : job[w].hits \subseteq job[w].sought
    BY <2>2 DEF GraphInit, Rest
  <2>5. QED
    BY <2>1, <2>3, <2>4, GraphAssumption DEF GraphInit, GraphTypeOK
<1>5. IdsIntact
  BY GraphAssumption DEF GraphInit, IdsIntact, Rest, Unread, Jobs
<1>6. Linked /\ MarkerHonest /\ DebtsLive /\ EdgesLive
  BY DEF GraphInit, Linked, MarkerHonest, DebtsLive, EdgesLive, Rest, Live
<1>7. Answering
  BY DEF GraphInit, Answering, Unread
<1>8. QED
  BY <1>3, <1>4, <1>5, <1>6, <1>7 DEF GraphInv

-----------------------------------------------------------------------------
(* Steps that change one job *)

JobBecomes(w, j) == j \in Job /\ job' = [job EXCEPT ![w] = j]

\* The job can be that of an id that is stored, and has no other ids.
JobFits(w, j) ==
    /\ j.hits \subseteq j.sought
    /\ j.pc \notin {"idle", "next"} => j.id \in Ids
    /\ \A i \in Ids : row[i] = "new" =>
          (w = i => j.pc = "idle") /\ i \notin j.sought \cup j.batch \cup {j.id}

\* A change between two stages that count alike.
CountsAlike(w, j) ==
    w \in Ids =>
        \/ job[w].pc \notin {"search", "link", "add"} /\ j.pc \notin {"search", "link", "add"}
        \/ job[w].pc \in {"search", "link"} /\ j.pc \in {"search", "link"}

LEMMA JobIsSet ==
    ASSUME GraphInv, NEW w \in Jobs, NEW j, JobBecomes(w, j),
           row' = row, reader' = reader, edges \subseteq edges', JobFits(w, j),
           j.pc = "link" /\ Live(j.id) =>
               \A h \in j.sought \ j.hits : Live(h) => <<j.id, h>> \in edges',
           \A i \in Ids : row[i] = "new" => i \notin vec' /\ \A k \in Ids : i \notin found'[k]
    PROVE  /\ job' \in [Jobs -> Job] /\ \A v \in Jobs : job'[v].hits \subseteq job'[v].sought
           /\ IdsIntact' /\ Linked'
<1>1. job' \in [Jobs -> Job] /\ job'[w] = j /\ \A v \in Jobs \ {w} : job'[v] = job[v]
  BY DEF GraphInv, GraphTypeOK, JobBecomes
<1>2. \A v \in Jobs : job'[v].hits \subseteq job'[v].sought
  BY <1>1 DEF GraphInv, GraphTypeOK, JobFits
<1>3. IdsIntact'
  <2>1. SUFFICES ASSUME NEW i \in Ids, row[i] = "new"
                 PROVE  /\ job'[i].pc = "idle" /\ i \notin vec' /\ i \notin reader.ball
                        /\ \A k \in Ids : i \notin found'[k]
                        /\ \A v \in Jobs : i \notin job'[v].sought \cup job'[v].batch \cup {job'[v].id}
    BY DEF IdsIntact
  <2>2. i \in Jobs
    BY DEF Jobs
  <2>3. QED
    BY <1>1, <2>1, <2>2 DEF GraphInv, IdsIntact, JobFits
<1>4. Linked'
  <2>1. SUFFICES ASSUME NEW v \in Jobs
                 PROVE  /\ job'[v].pc \notin {"idle", "next"} => job'[v].id \in Ids
                        /\ job'[v].pc = "link" /\ Live(job'[v].id) =>
                              \A h \in job'[v].sought \ job'[v].hits :
                                  Live(h) => <<job'[v].id, h>> \in edges'
    BY DEF Linked, Live
  <2>2. CASE v = w
    BY <1>1, <2>2 DEF JobFits
  <2>3. CASE v # w
    BY <1>1, <2>1, <2>3 DEF GraphInv, Linked
  <2>4. QED
    BY <2>2, <2>3
<1>5. QED
  BY <1>1, <1>2, <1>3, <1>4

LEMMA CountsMove ==
    ASSUME GraphInv, NEW w \in Jobs, NEW j, JobBecomes(w, j)
    PROVE  /\ Running' = IF w \in Ids /\ j.pc \in {"search", "link"} THEN Running \cup {w} ELSE Running \ {w}
           /\ Passed' = IF w \in Ids /\ j.pc = "add" THEN Passed \cup {w} ELSE Passed \ {w}
<1>1. job'[w] = j /\ \A v \in Jobs \ {w} : job'[v] = job[v]
  BY DEF GraphInv, GraphTypeOK, JobBecomes
<1>2. Ids \subseteq Jobs
  BY DEF Jobs
<1>3. Running' = {i \in Ids : job'[i].pc \in {"search", "link"}}
  BY DEF Running
<1>4. Passed' = {i \in Ids : job'[i].pc = "add"}
  BY DEF Passed, Stands
<1>5. QED
  BY <1>1, <1>2, <1>3, <1>4 DEF Running, Passed, Stands

LEMMA CountsFinite ==
    /\ IsFiniteSet(Running) /\ IsFiniteSet(Passed)
    /\ Cardinality(Running) \in Nat /\ Cardinality(Passed) \in Nat
    /\ Cardinality(Passed) <= Cardinality(Ids) /\ Cardinality(Ids) \in Nat
<1>1. IsFiniteSet(Running) /\ IsFiniteSet(Passed) /\ Cardinality(Passed) <= Cardinality(Ids)
  BY GraphAssumption, FS_Subset DEF Passed, Running
<1>2. QED
  BY <1>1, FS_CardinalityType, GraphAssumption

\* What a step that touches no rows, edges or histories leaves as it is.
LEMMA RowsKept ==
    ASSUME GraphInv, UNCHANGED <<row, debt, edges, found, reader>>
    PROVE  DebtsLive' /\ EdgesLive' /\ MarkerHonest' /\ Answering'
BY DEF GraphInv, DebtsLive, EdgesLive, MarkerHonest, Answering, Live

\* A job outside the counted stages changes no count.
LEMMA CountsKept ==
    ASSUME GraphInv, NEW w \in Jobs, NEW j, JobBecomes(w, j),
           CountsAlike(w, j),
           UNCHANGED <<inFlight, together>>
    PROVE  TasksCounted'
<1>1. Running' = Running /\ Passed' = Passed
  BY CountsMove DEF Running, Passed, Stands, CountsAlike
<1>2. QED
  BY <1>1 DEF GraphInv, TasksCounted

\* A task that ends gives its place back; the reconciler goes on.
LEMMA JobLeaves ==
    ASSUME GraphInv, NEW w \in Jobs, job[w].pc \in {"search", "link"}, Leave(w), together' = together
    PROVE  /\ TasksCounted' /\ inFlight' \in Nat
           /\ \E j :
                 /\ JobBecomes(w, j)
                 /\ j.pc \in {"idle", "next"} /\ (w \in Ids => j.pc = "idle")
                 /\ j.hits = {} /\ j.sought = {} /\ j.id = 0 /\ j.batch \subseteq job[w].batch
<1>1. CASE w \in Ids
  <2>1. inFlight' = inFlight - 1 /\ job' = [job EXCEPT ![w] = Rest]
    BY <1>1 DEF Leave
  <2>2. Rest \in Job /\ Rest.pc = "idle"
    BY DEF Rest, Job
  <2>3. Running' = Running \ {w} /\ Passed' = Passed /\ w \in Running
    <3>1. Running' = Running \ {w} /\ Passed' = Passed \ {w}
      BY <2>1, <2>2, CountsMove DEF JobBecomes
    <3>2. QED
      BY <1>1, <3>1 DEF Running, Passed, Stands
  <2>4. Cardinality(Running \ {w}) = Cardinality(Running) - 1 /\ Cardinality(Running \ {w}) \in Nat
    <3>1. IsFiniteSet(Running \ {w}) /\ Cardinality(Running \ {w}) = Cardinality(Running) - 1
      BY <2>3, CountsFinite, FS_RemoveElement
    <3>2. QED
      BY <3>1, FS_CardinalityType
  <2>5. TasksCounted' /\ inFlight' \in Nat
    BY <2>1, <2>3, <2>4, CountsFinite, GraphAssumption DEF GraphInv, GraphTypeOK, TasksCounted
  <2>6. JobBecomes(w, Rest) /\ Rest.hits = {} /\ Rest.sought = {} /\ Rest.id = 0 /\ Rest.batch = {}
    BY <2>1, <2>2 DEF Rest, JobBecomes
  <2>7. QED
    BY <1>1, <2>2, <2>5, <2>6
<1>2. CASE w \notin Ids
  <2> DEFINE j == [Rest EXCEPT !.pc = "next", !.batch = job[w].batch]
  <2>1. inFlight' = inFlight /\ job' = [job EXCEPT ![w] = j]
    BY <1>2 DEF Leave
  <2>2. job[w] \in Job
    BY DEF GraphInv, GraphTypeOK
  <2>3. j \in Job /\ j.pc = "next" /\ j.hits = {} /\ j.sought = {} /\ j.id = 0 /\ j.batch = job[w].batch
    BY <2>2 DEF Rest, Job
  <2>4. TasksCounted'
    <3> HIDE DEF j
    <3>1. JobBecomes(w, j) /\ CountsAlike(w, j)
      BY <1>2, <2>1, <2>3 DEF JobBecomes, CountsAlike
    <3>2. QED
      BY <2>1, <3>1, CountsKept
  <2>5. QED
    BY <1>2, <2>1, <2>3, <2>4 DEF GraphInv, GraphTypeOK, JobBecomes
<1>3. QED
  BY <1>1, <1>2

-----------------------------------------------------------------------------
(* Writes *)

LEMMA RememberKeeps == ASSUME GraphInv, NEW i \in Ids, Remember(i) PROVE GraphInv'
<1> DEFINE j == [job[i] EXCEPT !.pc = "embed", !.id = i]
<1>1. i \in Jobs /\ row[i] = "new" /\ job[i] \in Job /\ job[i].pc = "idle"
  BY DEF GraphInv, GraphTypeOK, IdsIntact, Jobs, Remember
<1>2. j \in Job /\ j.pc = "embed" /\ job' = [job EXCEPT ![i] = j]
  BY <1>1 DEF Remember, Job, GraphInv, GraphTypeOK
<1>3. j.id = i /\ j.hits = job[i].hits /\ j.sought = job[i].sought /\ j.batch = job[i].batch
  BY <1>1 DEF Job
<1> HIDE DEF j
<1>4. TasksCounted'
  <2>1. JobBecomes(i, j) /\ CountsAlike(i, j)
    BY <1>1, <1>2 DEF JobBecomes, CountsAlike
  <2>2. QED
    BY <1>1, <2>1, CountsKept DEF Remember, tasks
<1>5. job' \in [Jobs -> Job] /\ job'[i] = j /\ \A v \in Jobs \ {i} : job'[v] = job[v]
  BY <1>1, <1>2 DEF GraphInv, GraphTypeOK
<1>6. row' \in [Ids -> {"new", "live", "gone"}] /\ row'[i] = "live" /\ \A k \in Ids \ {i} : row'[k] = row[k]
  BY DEF Remember, GraphInv, GraphTypeOK
<1>7. GraphTypeOK'
  <2>1. \A v \in Jobs : job'[v].hits \subseteq job'[v].sought
    BY <1>3, <1>5, <1>1 DEF GraphInv, GraphTypeOK
  <2>2. QED
    BY <2>1, <1>5, <1>6 DEF GraphInv, GraphTypeOK, Remember, tasks
<1>8. IdsIntact'
  <2>1. SUFFICES ASSUME NEW k \in Ids, row'[k] = "new"
                 PROVE  /\ job'[k].pc = "idle" /\ k \notin vec /\ k \notin reader.ball
                        /\ \A m \in Ids : k \notin found[m]
                        /\ \A v \in Jobs : k \notin job'[v].sought \cup job'[v].batch \cup {job'[v].id}
    BY DEF IdsIntact, Remember, tasks
  <2>2. k # i /\ row[k] = "new" /\ k \in Jobs
    BY <1>6, <2>1 DEF Jobs
  <2>3. QED
    BY <1>3, <1>5, <2>2, <1>1 DEF GraphInv, IdsIntact
<1>9. DebtsLive' /\ EdgesLive'
  BY <1>6 DEF GraphInv, DebtsLive, EdgesLive, Live, Remember
<1>10. Linked'
  <2>1. SUFFICES ASSUME NEW v \in Jobs
                 PROVE  /\ job'[v].pc \notin {"idle", "next"} => job'[v].id \in Ids
                        /\ job'[v].pc = "link" /\ row'[job'[v].id] = "live" =>
                              \A h \in job'[v].sought \ job'[v].hits :
                                  row'[h] = "live" => <<job'[v].id, h>> \in edges
    BY DEF Linked, Live, Remember
  <2>2. CASE v = i
    BY <1>2, <1>3, <1>5, <2>2
  <2>3. CASE v # i
    <3>1. job'[v] = job[v] /\ job[v] \in Job
      BY <1>5, <2>1, <2>3 DEF GraphInv, GraphTypeOK
    <3>2. i \notin job[v].sought /\ job[v].id # i
      BY <1>1, <2>1 DEF GraphInv, IdsIntact
    <3>3. job[v].sought \subseteq Ids
      BY <3>1 DEF Job
    <3>4. QED
      BY <1>6, <2>1, <3>1, <3>2, <3>3 DEF GraphInv, Linked, Live
  <2>4. QED
    BY <2>2, <2>3
<1>11. MarkerHonest'
  <2>1. SUFFICES ASSUME NEW k \in Ids, row'[k] = "live", k \notin debt', NEW h \in found[k], row'[h] = "live"
                 PROVE  <<k, h>> \in edges
    BY DEF MarkerHonest, Live, Remember
  <2>2. k # i /\ h # i /\ k \notin debt /\ h \in Ids
    BY <1>1, <2>1 DEF Remember, GraphInv, GraphTypeOK, IdsIntact
  <2>3. QED
    BY <1>6, <2>1, <2>2 DEF GraphInv, MarkerHonest, Live
<1>12. Answering'
  <2>1. i \notin reader.ball /\ reader.ball \subseteq Ids
    BY <1>1 DEF GraphInv, IdsIntact, GraphTypeOK, Reader
  <2>2. {h \in reader.ball \ Hidden : row'[h] = "live"} = {h \in reader.ball \ Hidden : row[h] = "live"}
    BY <1>6, <2>1
  <2>3. reader' = reader
    BY DEF Remember
  <2>4. QED
    BY <2>2, <2>3 DEF GraphInv, Answering, Live
<1>13. QED
  BY <1>4, <1>7, <1>8, <1>9, <1>10, <1>11, <1>12 DEF GraphInv

\* A step of a write or of the reconciler that changes its job, and at most stores its vector.
LEMMA JobGoesOn ==
    ASSUME GraphInv, NEW w \in Jobs, NEW j, JobBecomes(w, j),
           UNCHANGED <<row, debt, parked, edges, found, reader>>,
           vec' \subseteq vec \cup {i \in Ids : row[i] # "new"},
           failures' \in 0..MaxFailures, inFlight' \in Nat, together' \in 0..Cardinality(Ids),
           TasksCounted', JobFits(w, j), j.pc = "link" => j.hits = j.sought
    PROVE  GraphInv'
<1>1. vec' \subseteq Ids /\ \A i \in Ids : row[i] = "new" => i \notin vec' /\ \A k \in Ids : i \notin found[k]
  BY DEF GraphInv, GraphTypeOK, IdsIntact
<1>2. /\ job' \in [Jobs -> Job] /\ \A v \in Jobs : job'[v].hits \subseteq job'[v].sought
      /\ IdsIntact' /\ Linked'
  BY <1>1, JobIsSet
<1>3. GraphTypeOK'
  BY <1>1, <1>2 DEF GraphInv, GraphTypeOK
<1>4. QED
  BY <1>2, <1>3, RowsKept DEF GraphInv

\* A request is at its write: the entry is there, and its job has nothing else.
StaysWith(i) ==
    /\ row[i] # "new" /\ job[i].hits \subseteq job[i].sought /\ job[i].id \in Ids
    /\ \A k \in Ids : row[k] = "new" => k \notin job[i].sought \cup job[i].batch \cup {job[i].id}

LEMMA WriteUnderWay ==
    ASSUME GraphInv, NEW i \in Ids, job[i].pc \in {"embed", "check", "add", "search", "link"}
    PROVE  i \in Jobs /\ job[i] \in Job /\ StaysWith(i)
BY DEF GraphInv, GraphTypeOK, IdsIntact, Linked, Jobs, StaysWith

LEMMA RestFits == ASSUME GraphInv, NEW w \in Jobs PROVE JobFits(w, Rest)
BY GraphAssumption DEF JobFits, Rest

LEMMA RestIsJob == Rest \in Job /\ Rest.pc = "idle" /\ Rest.hits = {} /\ Rest.sought = {}
                   /\ Rest.batch = {} /\ Rest.id = 0 /\ 0 \notin Ids
BY GraphAssumption DEF Rest, Job

LEMMA FailureBounds == ASSUME GraphInv, Failure PROVE failures' \in 0..MaxFailures
BY GraphAssumption DEF GraphInv, GraphTypeOK, Failure

LEMMA EmbedFailsKeeps == ASSUME GraphInv, NEW i \in Ids, EmbedFails(i) PROVE GraphInv'
<1>1. job[i].pc = "embed" /\ job' = [job EXCEPT ![i] = Rest] /\ failures' \in 0..MaxFailures
      /\ UNCHANGED <<row, debt, vec, parked, edges, found, inFlight, together, reader>>
  BY FailureBounds DEF EmbedFails, Stands, graph, tasks
<1>2. i \in Jobs /\ JobBecomes(i, Rest) /\ CountsAlike(i, Rest)
  BY <1>1, WriteUnderWay, RestIsJob DEF JobBecomes, CountsAlike
<1>3. TasksCounted'
  BY <1>1, <1>2, CountsKept
<1>4. QED
  BY <1>1, <1>2, <1>3, RestFits, RestIsJob, JobGoesOn DEF GraphInv, GraphTypeOK

LEMMA UpsertKeeps == ASSUME GraphInv, NEW i \in Ids, Upsert(i) PROVE GraphInv'
<1> DEFINE j == [job[i] EXCEPT !.pc = "check"]
<1>1. job[i].pc = "embed" /\ vec' = vec \cup {i} /\ job' = [job EXCEPT ![i] = j]
      /\ UNCHANGED <<row, debt, parked, edges, found, inFlight, together, reader, failures>>
  BY DEF Upsert, Stands, tasks, GraphInv, GraphTypeOK
<1>2. j \in Job /\ j.pc = "check" /\ j.hits = job[i].hits /\ j.sought = job[i].sought
      /\ j.batch = job[i].batch /\ j.id = job[i].id
  BY <1>1, WriteUnderWay DEF Job
<1> HIDE DEF j
<1>3. i \in Jobs /\ row[i] # "new" /\ JobBecomes(i, j) /\ CountsAlike(i, j) /\ JobFits(i, j)
  <2>1. i \in Jobs /\ StaysWith(i)
    BY <1>1, WriteUnderWay
  <2>2. QED
    BY <1>1, <1>2, <2>1 DEF JobBecomes, CountsAlike, JobFits, StaysWith
<1>4. TasksCounted'
  BY <1>1, <1>3, CountsKept
<1>5. QED
  BY <1>1, <1>2, <1>3, <1>4, JobGoesOn DEF GraphInv, GraphTypeOK

LEMMA CheckCapKeeps == ASSUME GraphInv, NEW i \in Ids, CheckCap(i) PROVE GraphInv'
<1>1. job[i].pc = "check" /\ i \in Jobs /\ UNCHANGED <<row, debt, vec, parked, edges, found, inFlight, reader, failures>>
  BY WriteUnderWay DEF CheckCap, Stands, graph
<1>2. CASE inFlight < Cap
  <2> DEFINE j == [job[i] EXCEPT !.pc = "add"]
  <2>1. job' = [job EXCEPT ![i] = j]
    BY <1>2 DEF CheckCap, Passes, GraphInv, GraphTypeOK
  <2>2. j \in Job /\ j.pc = "add" /\ j.hits = job[i].hits /\ j.sought = job[i].sought
        /\ j.batch = job[i].batch /\ j.id = job[i].id
    BY <1>1, WriteUnderWay DEF Job
  <2> HIDE DEF j
  <2>3. JobBecomes(i, j) /\ JobFits(i, j)
    <3>1. StaysWith(i)
      BY <1>1, WriteUnderWay
    <3>2. QED
      BY <2>1, <2>2, <3>1 DEF JobBecomes, JobFits, StaysWith
  <2>4. Passed' = Passed \cup {i} /\ Running' = Running /\ i \notin Passed
    <3>1. Passed' = Passed \cup {i} /\ Running' = Running \ {i}
      BY <1>1, <2>2, <2>3, CountsMove
    <3>2. QED
      BY <1>1, <3>1 DEF Running, Passed, Stands
  <2>5. Cardinality(Passed') = Cardinality(Passed) + 1 /\ Cardinality(Passed') <= Cardinality(Ids)
    <3>1. Passed \cup {i} \subseteq Ids
      BY DEF Passed
    <3>2. Cardinality(Passed \cup {i}) <= Cardinality(Ids)
      BY <3>1, GraphAssumption, FS_Subset
    <3>3. QED
      BY <2>4, <3>2, CountsFinite, FS_AddElement
  <2>6. together' = IF Cardinality(Passed) + 1 > together THEN Cardinality(Passed) + 1 ELSE together
    BY <1>2 DEF CheckCap, Passes
  <2>7. TasksCounted' /\ together' \in 0..Cardinality(Ids)
    <3>1. inFlight' = inFlight /\ inFlight = Cardinality(Running)
          /\ Cardinality(Passed) <= together /\ together \in 0..Cardinality(Ids)
      BY <1>1 DEF GraphInv, GraphTypeOK, TasksCounted
    <3>2. Cardinality(Running') = Cardinality(Running)
      BY <2>4
    <3>3. together' \in 0..Cardinality(Ids) /\ Cardinality(Passed') <= together'
      BY <2>5, <2>6, <3>1, CountsFinite
    <3>4. Cardinality(Running') + Cardinality(Passed') <= Cap + together' - 1
      BY <1>2, <2>5, <3>1, <3>2, <3>3, CountsFinite, GraphAssumption
    <3>5. QED
      BY <3>1, <3>2, <3>3, <3>4 DEF TasksCounted
  <2>8. QED
    BY <1>1, <2>2, <2>3, <2>7, JobGoesOn DEF GraphInv, GraphTypeOK
<1>3. CASE ~(inFlight < Cap)
  <2>1. job' = [job EXCEPT ![i] = Rest] /\ together' = together
    BY <1>3 DEF CheckCap
  <2>2. JobBecomes(i, Rest) /\ CountsAlike(i, Rest)
    BY <1>1, <2>1, RestIsJob DEF JobBecomes, CountsAlike
  <2>3. TasksCounted'
    BY <1>1, <2>1, <2>2, CountsKept
  <2>4. QED
    BY <1>1, <2>1, <2>2, <2>3, RestFits, RestIsJob, JobGoesOn DEF GraphInv, GraphTypeOK
<1>4. QED
  BY <1>2, <1>3

LEMMA ScheduleKeeps == ASSUME GraphInv, NEW i \in Ids, Schedule(i) PROVE GraphInv'
<1> DEFINE j == [job[i] EXCEPT !.pc = "search"]
<1>1. /\ job[i].pc = "add" /\ i \in Jobs /\ inFlight' = inFlight + 1 /\ job' = [job EXCEPT ![i] = j]
      /\ UNCHANGED <<row, debt, vec, parked, edges, found, together, reader, failures>>
  BY WriteUnderWay DEF Schedule, Stands, graph, GraphInv, GraphTypeOK
<1>2. j \in Job /\ j.pc = "search" /\ j.hits = job[i].hits /\ j.sought = job[i].sought
      /\ j.batch = job[i].batch /\ j.id = job[i].id
  BY <1>1, WriteUnderWay DEF Job
<1> HIDE DEF j
<1>3. JobBecomes(i, j) /\ JobFits(i, j)
  <2>1. StaysWith(i)
    BY <1>1, WriteUnderWay
  <2>2. QED
    BY <1>1, <1>2, <2>1 DEF JobBecomes, JobFits, StaysWith
<1>4. Passed' = Passed \ {i} /\ Running' = Running \cup {i} /\ i \in Passed /\ i \notin Running
  <2>1. Passed' = Passed \ {i} /\ Running' = Running \cup {i}
    BY <1>1, <1>2, <1>3, CountsMove
  <2>2. QED
    BY <1>1, <2>1 DEF Running, Passed, Stands
<1>5. Cardinality(Passed') = Cardinality(Passed) - 1 /\ Cardinality(Running') = Cardinality(Running) + 1
  BY <1>4, CountsFinite, FS_AddElement, FS_RemoveElement
<1>6. TasksCounted'
  BY <1>1, <1>5, CountsFinite, GraphAssumption DEF GraphInv, GraphTypeOK, TasksCounted
<1>7. QED
  BY <1>1, <1>2, <1>3, <1>6, JobGoesOn DEF GraphInv, GraphTypeOK

-----------------------------------------------------------------------------
(* Runs *)

LEMMA SearchKeeps == ASSUME GraphInv, NEW w \in Jobs, Search(w) PROVE GraphInv'
<1> DEFINE j == [job[w] EXCEPT !.pc = "link", !.hits = Targets(job[w].id), !.sought = Targets(job[w].id)]
<1>1. /\ job[w].pc = "search" /\ job' = [job EXCEPT ![w] = j] /\ job[w] \in Job
      /\ UNCHANGED <<row, debt, vec, parked, edges, found, inFlight, together, reader, failures>>
  BY DEF Search, Stands, graph, tasks, GraphInv, GraphTypeOK
<1>2. Targets(job[w].id) \subseteq vec /\ vec \subseteq Ids
  BY DEF Targets, Nearest, GraphInv, GraphTypeOK
<1>3. /\ j \in Job /\ j.pc = "link" /\ j.hits = Targets(job[w].id) /\ j.sought = Targets(job[w].id)
      /\ j.batch = job[w].batch /\ j.id = job[w].id
  BY <1>1, <1>2 DEF Job
<1> HIDE DEF j
<1>4. JobFits(w, j)
  BY <1>1, <1>2, <1>3 DEF JobFits, GraphInv, IdsIntact, Linked
<1>5. JobBecomes(w, j) /\ CountsAlike(w, j)
  BY <1>1, <1>3 DEF JobBecomes, CountsAlike
<1>6. TasksCounted'
  BY <1>1, <1>5, CountsKept
<1>7. QED
  BY <1>1, <1>3, <1>4, <1>5, <1>6, JobGoesOn DEF GraphInv, GraphTypeOK

\* A run that fails ends, and what it was for stays as it is.
LEMMA LeaveKeeps ==
    ASSUME GraphInv, NEW w \in Jobs, job[w].pc \in {"search", "link"}, Leave(w),
           failures' \in 0..MaxFailures,
           UNCHANGED <<row, debt, vec, parked, edges, found, reader, together>>
    PROVE  GraphInv'
<1>1. PICK j : /\ JobBecomes(w, j)
               /\ j.pc \in {"idle", "next"} /\ (w \in Ids => j.pc = "idle")
               /\ j.hits = {} /\ j.sought = {} /\ j.id = 0 /\ j.batch \subseteq job[w].batch
  BY JobLeaves
<1>2. TasksCounted' /\ inFlight' \in Nat
  BY JobLeaves
<1>3. JobFits(w, j)
  BY <1>1, RestIsJob DEF JobFits, GraphInv, IdsIntact
<1>4. QED
  BY <1>1, <1>2, <1>3, JobGoesOn DEF GraphInv, GraphTypeOK

LEMMA SearchFailsKeeps == ASSUME GraphInv, NEW w \in Jobs, SearchFails(w) PROVE GraphInv'
<1>1. job[w].pc = "search" /\ Leave(w) /\ failures' \in 0..MaxFailures
      /\ UNCHANGED <<row, debt, vec, parked, edges, found, reader, together>>
  BY FailureBounds DEF SearchFails, Stands, graph
<1>2. QED
  BY <1>1, LeaveKeeps

LEMMA LinkFailsKeeps == ASSUME GraphInv, NEW w \in Jobs, LinkFails(w) PROVE GraphInv'
<1>1. PICK h \in Ids : /\ NextHit(w, h) /\ Leave(w)
                       /\ IF Live(job[w].id) /\ Live(h) THEN Failure ELSE UNCHANGED failures
                       /\ UNCHANGED <<graph, reader, together>>
  BY DEF LinkFails
<1>2. job[w].pc = "link" /\ failures' \in 0..MaxFailures
      /\ UNCHANGED <<row, debt, vec, parked, edges, found, reader, together>>
  BY <1>1, FailureBounds DEF NextHit, Stands, graph, GraphInv, GraphTypeOK
<1>3. QED
  BY <1>1, <1>2, LeaveKeeps

LEMMA LinkKeeps == ASSUME GraphInv, NEW w \in Jobs, Link(w) PROVE GraphInv'
<1>1. PICK h \in Ids : /\ NextHit(w, h) /\ Live(job[w].id) /\ Live(h)
                       /\ edges' = edges \cup {<<job[w].id, h>>}
                       /\ job' = [job EXCEPT ![w].hits = @ \ {h}]
                       /\ UNCHANGED <<row, debt, vec, parked, tasks, reader, found, failures>>
  BY DEF Link
<1> DEFINE j == [job[w] EXCEPT !.hits = @ \ {h}]
<1>2. job[w].pc = "link" /\ job[w] \in Job /\ job[w].id \in Ids /\ job' = [job EXCEPT ![w] = j]
  BY <1>1 DEF NextHit, Stands, GraphInv, GraphTypeOK, Linked
<1>3. /\ j \in Job /\ j.pc = "link" /\ j.hits = job[w].hits \ {h} /\ j.sought = job[w].sought
      /\ j.batch = job[w].batch /\ j.id = job[w].id
  BY <1>2 DEF Job
<1> HIDE DEF j
<1>4. JobFits(w, j) /\ JobBecomes(w, j) /\ CountsAlike(w, j)
  BY <1>2, <1>3 DEF JobFits, JobBecomes, CountsAlike, GraphInv, GraphTypeOK, IdsIntact
<1>5. TasksCounted'
  BY <1>1, <1>4, CountsKept DEF tasks
<1>6. \A k \in j.sought \ j.hits : Live(k) => <<j.id, k>> \in edges'
  BY <1>1, <1>2, <1>3 DEF GraphInv, Linked
<1>7. \A i \in Ids : row[i] = "new" => i \notin vec' /\ \A k \in Ids : i \notin found'[k]
  BY <1>1 DEF GraphInv, IdsIntact
<1>8. edges \subseteq edges' /\ row' = row /\ reader' = reader
  BY <1>1
<1>9. /\ job' \in [Jobs -> Job] /\ \A v \in Jobs : job'[v].hits \subseteq job'[v].sought
      /\ IdsIntact' /\ Linked'
  BY <1>4, <1>6, <1>7, <1>8, JobIsSet
<1>10. GraphTypeOK'
  BY <1>1, <1>2, <1>9 DEF GraphInv, GraphTypeOK, tasks
<1>11. DebtsLive' /\ EdgesLive'
  BY <1>1, <1>2 DEF GraphInv, DebtsLive, EdgesLive, Live
<1>12. MarkerHonest' /\ Answering'
  BY <1>1 DEF GraphInv, MarkerHonest, Answering, Live
<1>13. QED
  BY <1>5, <1>9, <1>10, <1>11, <1>12 DEF GraphInv

LEMMA ClearMarkerKeeps == ASSUME GraphInv, NEW w \in Jobs, ClearMarker(w) PROVE GraphInv'
<1>1. /\ job[w].pc = "link" /\ job[w].hits = {} /\ debt' = debt \ {job[w].id} /\ Leave(w)
      /\ found' = [found EXCEPT ![job[w].id] = job[w].sought]
      /\ UNCHANGED <<row, vec, parked, edges, reader, failures, together>>
  BY DEF ClearMarker, Stands
<1>2. PICK j : /\ JobBecomes(w, j)
               /\ j.pc \in {"idle", "next"} /\ (w \in Ids => j.pc = "idle")
               /\ j.hits = {} /\ j.sought = {} /\ j.id = 0 /\ j.batch \subseteq job[w].batch
  BY <1>1, JobLeaves
<1>3. TasksCounted' /\ inFlight' \in Nat
  BY <1>1, JobLeaves
<1>4. JobFits(w, j)
  BY <1>2, RestIsJob DEF JobFits, GraphInv, IdsIntact
<1>5. /\ job[w].id \in Ids /\ job[w].sought \subseteq Ids
      /\ \A i \in Ids : row[i] = "new" => i \notin job[w].sought
  BY <1>1 DEF GraphInv, GraphTypeOK, Linked, Job, IdsIntact
<1>6. /\ found' \in [Ids -> SUBSET Ids] /\ found'[job[w].id] = job[w].sought
      /\ \A i \in Ids \ {job[w].id} : found'[i] = found[i]
  BY <1>1, <1>5 DEF GraphInv, GraphTypeOK
<1>7. \A i \in Ids : row[i] = "new" => i \notin vec' /\ \A k \in Ids : i \notin found'[k]
  BY <1>1, <1>5, <1>6 DEF GraphInv, IdsIntact
<1>8. /\ job' \in [Jobs -> Job] /\ \A v \in Jobs : job'[v].hits \subseteq job'[v].sought
      /\ IdsIntact' /\ Linked'
  <2>1. edges \subseteq edges' /\ row' = row /\ reader' = reader
    BY <1>1
  <2>2. QED
    BY <1>2, <1>4, <1>7, <2>1, JobIsSet
<1>9. GraphTypeOK'
  BY <1>1, <1>3, <1>6, <1>8 DEF GraphInv, GraphTypeOK
<1>10. DebtsLive' /\ EdgesLive' /\ Answering'
  BY <1>1 DEF GraphInv, DebtsLive, EdgesLive, Answering, Live
<1>11. MarkerHonest'
  <2>1. SUFFICES ASSUME NEW i \in Ids, Live(i), i \notin debt', NEW h \in found'[i], Live(h)
                 PROVE  <<i, h>> \in edges
    BY <1>1 DEF MarkerHonest, Live
  <2>2. CASE i = job[w].id
    BY <1>1, <1>6, <2>1, <2>2 DEF GraphInv, Linked
  <2>3. CASE i # job[w].id
    BY <1>1, <1>6, <2>1, <2>3 DEF GraphInv, MarkerHonest
  <2>4. QED
    BY <2>2, <2>3
<1>12. QED
  BY <1>3, <1>8, <1>9, <1>10, <1>11 DEF GraphInv

-----------------------------------------------------------------------------
(* The reconciler *)

LEMMA ListPendingKeeps == ASSUME GraphInv, NEW r \in Reconcilers, ListPending(r) PROVE GraphInv'
<1> DEFINE j == [job[r] EXCEPT !.pc = "next", !.batch = Oldest]
<1>1. /\ job[r].pc = "idle" /\ job[r] \in Job /\ r \in Jobs /\ r \notin Ids /\ job' = [job EXCEPT ![r] = j]
      /\ UNCHANGED <<row, debt, vec, parked, edges, found, inFlight, together, reader, failures>>
  BY GraphAssumption DEF ListPending, Stands, graph, tasks, GraphInv, GraphTypeOK, Jobs
<1>2. Oldest \subseteq Ids /\ \A i \in Oldest : row[i] = "live"
  BY DEF Oldest, GraphInv, DebtsLive, Live
<1>3. j \in Job /\ j.pc = "next" /\ j.hits = job[r].hits /\ j.sought = job[r].sought /\ j.batch = Oldest
      /\ j.id = job[r].id
  BY <1>1, <1>2 DEF Job
<1> HIDE DEF j
<1>4. JobBecomes(r, j) /\ CountsAlike(r, j)
  BY <1>1, <1>3 DEF JobBecomes, CountsAlike
<1>5. JobFits(r, j)
  BY <1>1, <1>2, <1>3 DEF JobFits, GraphInv, GraphTypeOK, IdsIntact
<1>6. TasksCounted'
  BY <1>1, <1>4, CountsKept
<1>7. QED
  BY <1>1, <1>3, <1>4, <1>5, <1>6, JobGoesOn DEF GraphInv, GraphTypeOK

LEMMA NextRowKeeps == ASSUME GraphInv, NEW r \in Reconcilers, NextRow(r) PROVE GraphInv'
<1>1. /\ job[r].pc = "next" /\ job[r] \in Job /\ r \in Jobs /\ r \notin Ids
      /\ UNCHANGED <<row, debt, vec, parked, edges, found, inFlight, together, reader, failures>>
  BY GraphAssumption DEF NextRow, Stands, graph, tasks, GraphInv, GraphTypeOK, Jobs
<1>2. CASE job[r].batch = {}
  <2>1. job' = [job EXCEPT ![r] = Rest]
    BY <1>2 DEF NextRow
  <2>2. JobBecomes(r, Rest) /\ CountsAlike(r, Rest) /\ JobFits(r, Rest)
    BY <1>1, <2>1, RestIsJob, RestFits DEF JobBecomes, CountsAlike
  <2>3. TasksCounted'
    BY <1>1, <2>2, CountsKept
  <2>4. QED
    BY <1>1, <2>2, <2>3, RestIsJob, JobGoesOn DEF GraphInv, GraphTypeOK
<1>3. CASE job[r].batch # {}
  <2>1. PICK i \in job[r].batch :
          job' = [job EXCEPT ![r] = [@ EXCEPT !.pc = "search", !.id = i, !.batch = job[r].batch \ {i}]]
    BY <1>3 DEF NextRow
  <2> DEFINE j == [job[r] EXCEPT !.pc = "search", !.id = i, !.batch = job[r].batch \ {i}]
  <2>2. job' = [job EXCEPT ![r] = j] /\ i \in Ids /\ row[i] # "new"
    BY <1>1, <2>1 DEF GraphInv, GraphTypeOK, IdsIntact, Job
  <2>3. j \in Job /\ j.pc = "search" /\ j.hits = job[r].hits /\ j.sought = job[r].sought
        /\ j.batch = job[r].batch \ {i} /\ j.id = i
    BY <1>1, <2>2 DEF Job
  <2> HIDE DEF j
  <2>4. JobBecomes(r, j) /\ CountsAlike(r, j)
    BY <1>1, <2>2, <2>3 DEF JobBecomes, CountsAlike
  <2>5. JobFits(r, j)
    BY <1>1, <2>2, <2>3 DEF JobFits, GraphInv, GraphTypeOK, IdsIntact
  <2>6. TasksCounted'
    BY <1>1, <2>4, CountsKept
  <2>7. QED
    BY <1>1, <2>3, <2>4, <2>5, <2>6, JobGoesOn DEF GraphInv, GraphTypeOK
<1>4. QED
  BY <1>2, <1>3

LEMMA RestartKeeps == ASSUME GraphInv, Restart PROVE GraphInv'
<1>1. /\ job' = [w \in Jobs |-> Rest] /\ inFlight' = 0 /\ failures' \in 0..MaxFailures
      /\ UNCHANGED <<row, debt, vec, parked, edges, found, reader, together>>
  BY FailureBounds DEF Restart, graph
<1>2. Running' = {} /\ Passed' = {}
  BY <1>1, RestIsJob DEF Running, Passed, Stands, Jobs
<1>3. TasksCounted'
  BY <1>1, <1>2, FS_EmptySet, GraphAssumption DEF GraphInv, GraphTypeOK, TasksCounted
<1>4. GraphTypeOK'
  BY <1>1, RestIsJob DEF GraphInv, GraphTypeOK
<1>5. IdsIntact' /\ Linked'
  BY <1>1, RestIsJob DEF GraphInv, IdsIntact, Linked, Jobs
<1>6. QED
  BY <1>1, <1>3, <1>4, <1>5, RowsKept DEF GraphInv

-----------------------------------------------------------------------------
(* What else happens to entries *)

\* A vector comes or goes, of an entry that is there, and nothing else of note.
LEMMA VectorChanges ==
    ASSUME GraphInv, vec' \subseteq vec \cup {i \in Ids : row[i] # "new"}, parked' \subseteq Ids,
           UNCHANGED <<row, debt, edges, tasks, job, reader, found, failures>>
    PROVE  GraphInv'
<1>1. vec' \subseteq Ids
  BY DEF GraphInv, GraphTypeOK
<1>2. GraphTypeOK'
  BY <1>1 DEF GraphInv, GraphTypeOK, tasks
<1>3. IdsIntact' /\ Linked'
  BY <1>1 DEF GraphInv, IdsIntact, Linked, Live
<1>4. Running' = Running /\ Passed' = Passed
  BY DEF Running, Passed, Stands
<1>5. TasksCounted'
  BY <1>4 DEF GraphInv, TasksCounted, tasks
<1>6. QED
  BY <1>2, <1>3, <1>5, RowsKept DEF GraphInv

LEMMA ForgetKeeps == ASSUME GraphInv, NEW i \in Ids, Forget(i) PROVE GraphInv'
<1>1. /\ Live(i) /\ row' = [row EXCEPT ![i] = "gone"] /\ debt' = debt \ {i}
      /\ edges' = {e \in edges : i \notin {e[1], e[2]}}
      /\ vec' \subseteq vec /\ parked' \subseteq Ids /\ failures' \in 0..MaxFailures
      /\ UNCHANGED <<inFlight, together, job, reader, found>>
  BY FailureBounds DEF Forget, tasks, GraphInv, GraphTypeOK
<1>2. row' \in [Ids -> {"new", "live", "gone"}] /\ row'[i] = "gone" /\ \A k \in Ids \ {i} : row'[k] = row[k]
  BY <1>1 DEF GraphInv, GraphTypeOK
<1>3. GraphTypeOK'
  BY <1>1, <1>2 DEF GraphInv, GraphTypeOK
<1>4. \A k, h \in Ids : <<k, h>> \in edges /\ k # i /\ h # i => <<k, h>> \in edges'
  BY <1>1
<1>5. IdsIntact'
  BY <1>1, <1>2 DEF GraphInv, IdsIntact
<1>6. DebtsLive' /\ EdgesLive'
  BY <1>1, <1>2 DEF GraphInv, DebtsLive, EdgesLive, Live
<1>7. Linked'
  <2>1. SUFFICES ASSUME NEW w \in Jobs
                 PROVE  /\ job[w].pc \notin {"idle", "next"} => job[w].id \in Ids
                        /\ job[w].pc = "link" /\ row'[job[w].id] = "live" =>
                              \A h \in job[w].sought \ job[w].hits :
                                  row'[h] = "live" => <<job[w].id, h>> \in edges'
    BY <1>1 DEF Linked, Live
  <2>2. job[w].sought \subseteq Ids
    BY <2>1 DEF GraphInv, GraphTypeOK, Job
  <2>3. QED
    BY <1>2, <1>4, <2>1, <2>2 DEF GraphInv, Linked, Live
<1>8. MarkerHonest'
  <2>1. SUFFICES ASSUME NEW k \in Ids, row'[k] = "live", k \notin debt', NEW h \in found[k], row'[h] = "live"
                 PROVE  <<k, h>> \in edges'
    BY <1>1 DEF MarkerHonest, Live
  <2>2. k # i /\ h # i /\ h \in Ids /\ k \notin debt
    BY <1>1, <1>2, <2>1 DEF GraphInv, GraphTypeOK
  <2>3. QED
    BY <1>2, <1>4, <2>1, <2>2 DEF GraphInv, MarkerHonest, Live
<1>9. Answering'
  <2>1. {h \in reader.ball \ Hidden : row'[h] = "live"} \subseteq {h \in reader.ball \ Hidden : row[h] = "live"}
    <3>1. reader.ball \subseteq Ids
      BY DEF GraphInv, GraphTypeOK, Reader
    <3>2. QED
      BY <1>2, <3>1
  <2>2. QED
    BY <1>1, <2>1 DEF GraphInv, Answering, Live
<1>10. TasksCounted'
  <2>1. Running' = Running /\ Passed' = Passed
    BY <1>1 DEF Running, Passed, Stands
  <2>2. QED
    BY <1>1, <2>1 DEF GraphInv, TasksCounted
<1>11. QED
  BY <1>3, <1>5, <1>6, <1>7, <1>8, <1>9, <1>10 DEF GraphInv

-----------------------------------------------------------------------------
(* Neighbours *)

LEMMA ReaderMoves ==
    ASSUME GraphInv, UNCHANGED <<graph, tasks, job, failures>>, reader' \in Reader, Answering',
           \A i \in Ids : row[i] = "new" => i \notin reader'.ball
    PROVE  GraphInv'
<1>1. GraphTypeOK' /\ IdsIntact' /\ Linked' /\ DebtsLive' /\ EdgesLive' /\ MarkerHonest'
  BY DEF GraphInv, GraphTypeOK, IdsIntact, Linked, DebtsLive, EdgesLive, MarkerHonest, Live, graph, tasks
<1>2. Running' = Running /\ Passed' = Passed
  BY DEF Running, Passed, Stands
<1>3. TasksCounted'
  BY <1>2 DEF GraphInv, TasksCounted, tasks
<1>4. QED
  BY <1>1, <1>3 DEF GraphInv

LEMMA ReadSeedKeeps == ASSUME GraphInv, NEW i \in Ids, ReadSeed(i) PROVE GraphInv'
<1>1. /\ reader.pc = "idle" /\ reader' = [reader EXCEPT !.pc = "walk", !.seed = i] /\ reader \in Reader
      /\ UNCHANGED <<graph, tasks, job, failures>>
  BY DEF ReadSeed, GraphInv, GraphTypeOK
<1>2. reader' \in Reader /\ reader'.pc = "walk" /\ reader'.seed = i /\ reader'.todo = reader.todo
      /\ reader'.out = reader.out /\ reader'.ball = reader.ball
  BY <1>1 DEF Reader
<1>3. Answering'
  BY <1>1, <1>2 DEF GraphInv, Answering
<1>4. QED
  BY <1>1, <1>2, <1>3, ReaderMoves DEF GraphInv, IdsIntact

LEMMA WalkEdgesKeeps == ASSUME GraphInv, WalkEdges PROVE GraphInv'
<1>1. PICK best \in SUBSET Reachable(reader.seed) :
        /\ Cardinality(best) = Limit \/ best = Reachable(reader.seed)
        /\ reader' = [reader EXCEPT !.pc = "load", !.seed = 0, !.todo = best, !.ball = Ball(reader.seed)]
  BY DEF WalkEdges
<1>2. /\ reader.pc = "walk" /\ reader.seed \in Ids /\ reader \in Reader /\ reader.out = {}
      /\ UNCHANGED <<graph, tasks, job, failures>>
  BY DEF WalkEdges, GraphInv, GraphTypeOK, Answering
<1> DEFINE ball == Ball(reader.seed)
<1>3. Reachable(reader.seed) = ball /\ ball \subseteq Ids /\ \A x \in ball : Linkable(x)
  BY <1>2, ReachesAllNear
<1> HIDE DEF ball
<1>4. \A x \in ball : row[x] = "live"
  BY <1>3 DEF Linkable, Touching, GraphInv, EdgesLive, Live
<1>5. /\ reader' \in Reader /\ reader'.pc = "load" /\ reader'.todo = best /\ reader'.ball = ball
      /\ reader'.out = {} /\ reader'.seed = 0
  BY <1>1, <1>2, <1>3 DEF Reader, ball
<1>6. Cardinality(ball) <= Limit => best = ball
  <2>1. IsFiniteSet(ball)
    BY <1>3, GraphAssumption, FS_Subset
  <2>2. best \subseteq ball
    BY <1>1, <1>3
  <2>3. IsFiniteSet(best) /\ Cardinality(best) <= Cardinality(ball)
        /\ (Cardinality(best) = Cardinality(ball) => best = ball)
    BY <2>1, <2>2, FS_Subset
  <2>4. Cardinality(ball) \in Nat /\ Cardinality(best) \in Nat /\ Limit \in Nat
    BY <2>1, <2>3, FS_CardinalityType, GraphAssumption
  <2>5. Cardinality(best) = Limit \/ best = ball
    BY <1>1, <1>3
  <2>6. QED
    BY <2>3, <2>4, <2>5
<1>7. best \subseteq ball
  BY <1>1, <1>3
<1>8. Answering'
  BY <1>5, <1>6, <1>7 DEF Answering
<1>9. QED
  BY <1>2, <1>3, <1>4, <1>5, <1>8, ReaderMoves

LEMMA LoadHitKeeps == ASSUME GraphInv, NEW h \in Ids, LoadHit(h) PROVE GraphInv'
<1>1. /\ reader.pc = "load" /\ h \in reader.todo /\ reader \in Reader
      /\ reader' = [reader EXCEPT !.todo = @ \ {h},
                                  !.out = IF Live(h) /\ h \notin Hidden THEN @ \cup {h} ELSE @]
      /\ UNCHANGED <<graph, tasks, job, failures>>
  BY DEF LoadHit, GraphInv, GraphTypeOK
<1>2. /\ reader' \in Reader /\ reader'.pc = "load" /\ reader'.todo = reader.todo \ {h}
      /\ reader'.out = (IF Live(h) /\ h \notin Hidden THEN reader.out \cup {h} ELSE reader.out)
      /\ reader'.ball = reader.ball /\ reader'.seed = reader.seed
  BY <1>1 DEF Reader
<1>3. row' = row
  BY <1>1 DEF graph
<1>4. Answering'
  BY <1>1, <1>2, <1>3 DEF GraphInv, Answering, Live
<1>5. QED
  BY <1>1, <1>2, <1>4, ReaderMoves DEF GraphInv, IdsIntact

LEMMA AnswerKeeps == ASSUME GraphInv, Answer PROVE GraphInv'
<1>1. /\ reader.pc = "load" /\ reader.todo = {} /\ reader \in Reader
      /\ reader' = [reader EXCEPT !.pc = "answered"]
      /\ UNCHANGED <<graph, tasks, job, failures>>
  BY DEF Answer, GraphInv, GraphTypeOK
<1>2. /\ reader' \in Reader /\ reader'.pc = "answered" /\ reader'.todo = reader.todo
      /\ reader'.out = reader.out /\ reader'.ball = reader.ball /\ reader'.seed = reader.seed
  BY <1>1 DEF Reader
<1>3. Answering'
  BY <1>1, <1>2 DEF GraphInv, Answering, Live, graph
<1>4. QED
  BY <1>1, <1>2, <1>3, ReaderMoves DEF GraphInv, IdsIntact

-----------------------------------------------------------------------------
LEMMA GraphInvNext == ASSUME GraphInv, [GraphNext]_graphVars PROVE GraphInv'
<1>1. ASSUME NEW i \in Ids, Reindex(i) \/ ReapOrphan(i) \/ Abandon(i) PROVE GraphInv'
  <2>1. /\ vec' \subseteq vec \cup {k \in Ids : row[k] # "new"} /\ parked' \subseteq Ids
        /\ UNCHANGED <<row, debt, edges, tasks, job, reader, found, failures>>
    BY <1>1 DEF Reindex, ReapOrphan, Abandon, Live, GraphInv, GraphTypeOK
  <2>2. QED
    BY <2>1, VectorChanges
<1>2. ASSUME NEW i \in Ids, Write(i) PROVE GraphInv'
  BY <1>2, UpsertKeeps, CheckCapKeeps, ScheduleKeeps DEF Write
<1>3. ASSUME NEW w \in Jobs, Run(w) PROVE GraphInv'
  BY <1>3, SearchKeeps, LinkKeeps, LinkFailsKeeps, ClearMarkerKeeps DEF Run
<1>4. ASSUME NEW r \in Reconcilers, Reconcile(r) PROVE GraphInv'
  BY <1>4, ListPendingKeeps, NextRowKeeps DEF Reconcile
<1>5. CASE Read
  BY <1>5, ReadSeedKeeps, LoadHitKeeps, WalkEdgesKeeps, AnswerKeeps DEF Read
<1>6. CASE UNCHANGED graphVars
  <2>1. GraphTypeOK' /\ IdsIntact' /\ Linked' /\ DebtsLive' /\ EdgesLive' /\ MarkerHonest' /\ Answering'
    BY <1>6 DEF graphVars, GraphInv, GraphTypeOK, IdsIntact, Linked, DebtsLive, EdgesLive, MarkerHonest,
                Answering, Live
  <2>2. Running' = Running /\ Passed' = Passed
    BY <1>6 DEF graphVars, Running, Passed, Stands
  <2>3. TasksCounted'
    BY <1>6, <2>2 DEF graphVars, GraphInv, TasksCounted
  <2>4. QED
    BY <2>1, <2>3 DEF GraphInv
<1>7. QED
  BY <1>1, <1>2, <1>3, <1>4, <1>5, <1>6, RememberKeeps, EmbedFailsKeeps, ForgetKeeps, SearchFailsKeeps,
     RestartKeeps DEF GraphNext

\* What the graph of a shelf is, whatever fails or restarts: the steps above keep it.  The whole of
\* Enrichment.
THEOREM GraphCorrect == GraphSpec => []GraphInv
<1>1. GraphInit => GraphInv
  BY GraphInvInit
<1>2. GraphInv /\ [GraphNext]_graphVars => GraphInv'
  BY GraphInvNext
<1>3. QED
  BY <1>1, <1>2, PTL DEF GraphSpec

\* A cleared marker means every edge that its run owed, tasks exceed their cap by the writes that pass the
\* check together at most, and a neighbours call answers with what is near and all of it.
\* scheduleEnrichment, enrichEntry, ReconcilePendingEnrichment, Neighbors.
THEOREM GraphIsSound == GraphSpec => []GraphSound
<1>1. GraphInv => GraphSound
  BY GraphInvSound
<1>2. QED
  BY <1>1, GraphCorrect, PTL
=============================================================================
