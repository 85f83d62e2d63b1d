--------------------------- MODULE VectorTierProofs ---------------------------
(***************************************************************************)
(* For any number of entries, namespaces, handlers, reconcilers and        *)
(* reapers: the stamp of a stored entry is backed by a vector, and no      *)
(* vector of a stored entry is ever deleted; the write path is an          *)
(* implementation of EntryLife, the life of a memory as a client knows it; *)
(* and an entry whose operations did not cross is indexed as it stands,    *)
(* or forgotten to the last vector.                                        *)
(***************************************************************************)
EXTENDS VectorTier, TLAPS

\* A content version is never 0, so a vector that was written is there to be found.
RowVersioned == \A id \in Ids : Live(id) => row[id].ver # 0

OpVersioned ==
    \A p \in Procs :
        op[p] # Idle /\ op[p].pc \in {"probe", "reread", "upsert"} => op[p].ver # 0

\* A cold delete, done or owed, is only ever about a row that is gone.
DeleteOwedWhenGone == \A id \in Ids : orphan[id].kind = "delete" => Gone(id)

DeletesWhenGone ==
    \A p \in Procs :
        op[p] # Idle /\ (op[p].pc = "cdelete" \/ (op[p].pc = "park" /\ op[p].job = "forget"))
        => Gone(op[p].id)

\* Whoever is about to stamp has written a vector that nobody has removed since.
StampsAfterUpsert ==
    \A p \in Procs :
        op[p] # Idle /\ op[p].pc = "stamp"
        => Gone(op[p].id) \/ vec[op[p].id][op[p].ns] # 0

IInv ==
    /\ TypeOK
    /\ RowVersioned
    /\ OpVersioned
    /\ DeleteOwedWhenGone
    /\ DeletesWhenGone
    /\ StampsAfterUpsert
    /\ StampHasVector

-----------------------------------------------------------------------------
(* Types. *)

LEMMA ShelfType == Shelf \in Namespaces
BY VectorTierAssumption DEF Shelf

\* The three ways a step changes op, and the ways it changes row and orphan, keep the types.
LEMMA OpAt ==
    ASSUME TypeOK, NEW p \in Procs, op[p] # Idle
    PROVE  /\ op[p] \in Op
           /\ op[p].id \in Ids
           /\ op[p].ns \in Namespaces
           /\ op[p].ver \in Nat
           /\ op[p].att \in Nat
BY DEF TypeOK, Op

LEMMA GotoType ==
    ASSUME TypeOK, NEW p \in Procs, op[p] # Idle, NEW pc \in Steps, Goto(p, pc)
    PROVE  op' \in [Procs -> Op \cup {Idle}]
<1>1. op[p] \in Op
  BY OpAt
<1>2. [op[p] EXCEPT !.pc = pc] \in Op
  BY <1>1 DEF Op
<1>3. QED
  BY <1>2 DEF TypeOK, Goto

LEMMA FinishType ==
    ASSUME TypeOK, NEW p \in Procs, Finish(p)
    PROVE  op' \in [Procs -> Op \cup {Idle}]
BY DEF TypeOK, Finish

LEMMA BeginType ==
    ASSUME TypeOK, NEW p \in Procs, NEW o \in Op, NEW ms \in SUBSET Marks, Begin(p, o, ms)
    PROVE  /\ op' \in [Procs -> Op \cup {Idle}]
           /\ mark' \in [Ids -> SUBSET Marks]
<1>1. op' \in [Procs -> Op \cup {Idle}]
  BY DEF TypeOK, Begin
<1>2. ms \cup (IF Busy(o.id) THEN {"disturbed"} ELSE {}) \in SUBSET Marks
  BY DEF Marks
<1>3. QED
  BY <1>1, <1>2 DEF TypeOK, Begin, Marked

LEMMA SetEmbeddedType ==
    ASSUME TypeOK, NEW id \in Ids, NEW b \in BOOLEAN, SetEmbedded(id, b)
    PROVE  row' \in [Ids -> Row]
BY DEF TypeOK, SetEmbedded, Row

LEMMA RecordType ==
    ASSUME TypeOK, NEW id \in Ids, NEW n \in Namespaces,
           RecordMissingVector(id, n) \/ RecordColdOrphan(id, n)
    PROVE  orphan' \in [Ids -> Orphan]
<1>1. CASE RecordMissingVector(id, n)
  BY <1>1 DEF TypeOK, RecordMissingVector, Orphan, Kinds
<1>2. CASE RecordColdOrphan(id, n)
  <2>0. orphan[id] \in Orphan
    BY DEF TypeOK
  <2>1. [orphan[id] EXCEPT !.att = orphan[id].att + 1]
            \in Orphan
    BY <2>0 DEF Orphan
  <2>2. [kind |-> "delete", ns |-> n, att |-> 1] \in Orphan
    BY DEF Orphan, Kinds
  <2>3. QED
    BY <1>2, <2>1, <2>2 DEF TypeOK, RecordColdOrphan
<1>3. QED
  BY <1>1, <1>2

LEMMA TypeInit == Init => TypeOK
BY ShelfType, VectorTierAssumption DEF Init, TypeOK, NoRow, Nothing, Row, Orphan, Kinds

LEMMA TypeNext == TypeOK /\ [Next]_vars => TypeOK'
<1> SUFFICES ASSUME TypeOK, [Next]_vars PROVE TypeOK'
  OBVIOUS
<1> USE DEF At, Fail
<1>1. ASSUME NEW p \in Procs, NEW id \in Ids, NEW n \in Namespaces, PersistRemember(p, id, n)
      PROVE  TypeOK'
  <2>1. [job |-> "remember", pc |-> "upsert", id |-> id, ver |-> 1, ns |-> n, att |-> 0] \in Op
    BY DEF Op, Jobs, Steps
  <2>2. row' \in [Ids -> Row]
    BY <1>1 DEF PersistRemember, TypeOK, Row
  <2>3. QED
    BY <1>1, <2>1, <2>2, BeginType DEF PersistRemember, TypeOK
<1>2. ASSUME NEW p \in Procs, EmbedEmpty(p) PROVE TypeOK'
  <2>1. mark' \in [Ids -> SUBSET Marks]
    BY <1>2 DEF EmbedEmpty, TypeOK, Marked, Marks
  <2>2. QED
    BY <1>2, <2>1, OpAt, FinishType, RecordType DEF EmbedEmpty, TypeOK
<1>3. ASSUME NEW p \in Procs, ParkMissingVector(p) PROVE TypeOK'
  <2>1. mark' \in [Ids -> SUBSET Marks]
    BY <1>3 DEF ParkMissingVector, TypeOK, Marked, Marks
  <2>2. QED
    BY <1>3, <2>1, OpAt, FinishType, RecordType DEF ParkMissingVector, TypeOK
<1>31. ASSUME NEW p \in Procs, NEW id \in Ids, NEW n \in Namespaces, PersistRaced(p, id, n)
       PROVE  TypeOK'
  <2>1. [job |-> "remember", pc |-> "upsert", id |-> id, ver |-> row[id].ver,
         ns |-> n, att |-> 0] \in Op
    BY DEF Op, Jobs, Steps, TypeOK, Row
  <2>2. {"disturbed"} \in SUBSET Marks
    BY DEF Marks
  <2>3. QED
    BY <1>31, <2>1, <2>2, BeginType DEF PersistRaced, TypeOK
<1>4. ASSUME NEW p \in Procs, NEW id \in Ids, DedupHit(p, id) PROVE TypeOK'
  <2>1. [job |-> "dedup", pc |-> "probe", id |-> id, ver |-> row[id].ver,
         ns |-> row[id].ns, att |-> 0] \in Op
    BY DEF Op, Jobs, Steps, TypeOK, Row
  <2>2. QED
    BY <1>4, <2>1, BeginType DEF DedupHit, TypeOK
<1>5. ASSUME NEW p \in Procs, BackfillProbe(p) PROVE TypeOK'
  BY <1>5, FinishType, GotoType DEF BackfillProbe, TypeOK, Steps
<1>6. ASSUME NEW p \in Procs, NEW id \in Ids, NEW n \in Namespaces, UpdateContent(p, id, n)
      PROVE  TypeOK'
  <2>1. [job |-> "update", pc |-> "reread", id |-> id, ver |-> row[id].ver + 1,
         ns |-> n, att |-> 0] \in Op
    BY DEF Op, Jobs, Steps, TypeOK, Row
  <2>2. row[id] \in Row
    BY DEF TypeOK
  <2>3. [row[id] EXCEPT !.ver = row[id].ver + 1, !.ns = n] \in Row
    <3>1. row[id].ver + 1 \in Nat
      BY <2>2 DEF Row
    <3>2. QED
      BY <2>2, <3>1 DEF Row
  <2>4. row' \in [Ids -> Row]
    BY <1>6, <2>3 DEF UpdateContent, TypeOK
  <2>5. (IF n # row[id].ns THEN {"disturbed"} ELSE {}) \in SUBSET Marks
    BY DEF Marks
  <2>6. QED
    BY <1>6, <2>1, <2>4, <2>5, BeginType DEF UpdateContent, TypeOK
<1>7. ASSUME NEW p \in Procs, NEW id \in Ids, NEW n \in Namespaces, UpdateNamespace(p, id, n)
      PROVE  TypeOK'
  <2>1. row' \in [Ids -> Row]
    BY <1>7 DEF UpdateNamespace, TypeOK, Row
  <2>2. mark' \in [Ids -> SUBSET Marks]
    BY <1>7 DEF UpdateNamespace, TypeOK, Marked, Marks
  <2>3. QED
    BY <1>7, <2>1, <2>2 DEF UpdateNamespace, TypeOK
<1>8. ASSUME NEW p \in Procs, UpdateReread(p) PROVE TypeOK'
  <2>1. CASE Live(op[p].id)
    <3>1. op[p] \in Op /\ row[op[p].id].ns \in Namespaces
      BY <1>8, OpAt DEF UpdateReread, TypeOK, Row
    <3>2. [op[p] EXCEPT !.pc = "upsert", !.ns = row[op[p].id].ns] \in Op
      BY <3>1 DEF Op, Steps
    <3>3. QED
      BY <1>8, <2>1, <3>2 DEF UpdateReread, TypeOK
  <2>2. CASE ~Live(op[p].id)
    BY <1>8, <2>2, FinishType DEF UpdateReread, TypeOK
  <2>3. QED
    BY <2>1, <2>2
<1>9. ASSUME NEW p \in Procs, UpdateRequeue(p) PROVE TypeOK'
  <2>1. row' \in [Ids -> Row]
    BY <1>9, OpAt, SetEmbeddedType DEF UpdateRequeue
  <2>2. QED
    BY <1>9, <2>1, FinishType DEF UpdateRequeue, TypeOK
<1>10. ASSUME NEW p \in Procs, EmbedFails(p) PROVE TypeOK'
  BY <1>10, FinishType, GotoType DEF EmbedFails, TypeOK, Steps
<1>11. ASSUME NEW p \in Procs, UpsertOk(p) PROVE TypeOK'
  <2>1. vec' \in [Ids -> [Namespaces -> Nat]]
    BY <1>11, OpAt DEF UpsertOk, TypeOK
  <2>2. op' \in [Procs -> Op \cup {Idle}]
    BY <1>11, GotoType DEF UpsertOk, Steps
  <2>3. QED
    BY <1>11, <2>1, <2>2 DEF UpsertOk, TypeOK
<1>12. ASSUME NEW p \in Procs, UpsertFails(p) PROVE TypeOK'
  <2>1. vec' \in [Ids -> [Namespaces -> Nat]]
    <3>1. op[p].id \in Ids /\ op[p].ns \in Namespaces /\ op[p].ver \in Nat
      BY <1>12, OpAt DEF UpsertFails
    <3>2. CASE vec' = [vec EXCEPT ![op[p].id][op[p].ns] = op[p].ver]
      BY <3>1, <3>2 DEF TypeOK
    <3>3. CASE UNCHANGED vec
      BY <3>3 DEF TypeOK
    <3>4. QED
      BY <1>12, <3>2, <3>3 DEF UpsertFails
  <2>2. op' \in [Procs -> Op \cup {Idle}]
    BY <1>12, GotoType, FinishType DEF UpsertFails, Steps
  <2>3. mark' \in [Ids -> SUBSET Marks]
    BY <1>12 DEF UpsertFails, TypeOK, Marked, Marks
  <2>4. QED
    BY <1>12, <2>1, <2>2, <2>3 DEF UpsertFails, TypeOK
<1>13. ASSUME NEW p \in Procs, Stamp(p) PROVE TypeOK'
  <2>1. op' \in [Procs -> Op \cup {Idle}]
    BY <1>13, GotoType, FinishType DEF Stamp, Steps
  <2>2. QED
    BY <1>13, <2>1, OpAt, SetEmbeddedType DEF Stamp, TypeOK
<1>14. ASSUME NEW p \in Procs, ClearMissingVector(p) PROVE TypeOK'
  <2>1. orphan' \in [Ids -> Orphan]
    BY <1>14, ShelfType DEF ClearMissingVector, TypeOK, Nothing, Orphan, Kinds
  <2>2. QED
    BY <1>14, <2>1, FinishType DEF ClearMissingVector, TypeOK
<1>15. ASSUME NEW p \in Procs, ReapSettle(p) PROVE TypeOK'
  <2>1. orphan' \in [Ids -> Orphan]
    BY <1>15, ShelfType DEF ReapSettle, TypeOK, Nothing, Orphan, Kinds
  <2>2. QED
    BY <1>15, <2>1, FinishType DEF ReapSettle, TypeOK
<1>16. ASSUME NEW p \in Procs, NEW id \in Ids, ForgetRead(p, id) PROVE TypeOK'
  <2>1. [job |-> "forget", pc |-> "wdelete", id |-> id, ver |-> 0,
         ns |-> row[id].ns, att |-> 0] \in Op
    BY DEF Op, Jobs, Steps, TypeOK, Row
  <2>2. QED
    BY <1>16, <2>1, BeginType DEF ForgetRead, TypeOK
<1>17. ASSUME NEW p \in Procs, WarmDelete(p) PROVE TypeOK'
  <2>1. row' \in [Ids -> Row]
    BY <1>17, ShelfType DEF WarmDelete, TypeOK, NoRow, Row
  <2>2. QED
    BY <1>17, <2>1, GotoType DEF WarmDelete, TypeOK, Steps
<1>18. ASSUME NEW p \in Procs, NEW id \in Ids, ForgetBySource(p, id) PROVE TypeOK'
  <2>1. [job |-> "forget", pc |-> "cdelete", id |-> id, ver |-> 0,
         ns |-> row[id].ns, att |-> 0] \in Op
    BY DEF Op, Jobs, Steps, TypeOK, Row
  <2>2. row' \in [Ids -> Row]
    BY <1>18, ShelfType DEF ForgetBySource, TypeOK, NoRow, Row
  <2>3. QED
    BY <1>18, <2>1, <2>2, BeginType DEF ForgetBySource, TypeOK
<1>19. ASSUME NEW p \in Procs, ColdDeleteOk(p) PROVE TypeOK'
  <2>1. vec' \in [Ids -> [Namespaces -> Nat]]
    BY <1>19 DEF ColdDeleteOk, TypeOK
  <2>2. op' \in [Procs -> Op \cup {Idle}]
    BY <1>19, GotoType, FinishType DEF ColdDeleteOk, Steps
  <2>3. QED
    BY <1>19, <2>1, <2>2 DEF ColdDeleteOk, TypeOK
<1>20. ASSUME NEW p \in Procs, ColdDeleteFails(p) PROVE TypeOK'
  <2>1. vec' \in [Ids -> [Namespaces -> Nat]]
    <3>1. CASE vec' = [vec EXCEPT ![op[p].id][op[p].ns] = 0]
      BY <3>1 DEF TypeOK
    <3>2. CASE UNCHANGED vec
      BY <3>2 DEF TypeOK
    <3>3. QED
      BY <1>20, <3>1, <3>2 DEF ColdDeleteFails
  <2>2. op' \in [Procs -> Op \cup {Idle}]
    BY <1>20, GotoType, FinishType DEF ColdDeleteFails, Steps
  <2>3. QED
    BY <1>20, <2>1, <2>2 DEF ColdDeleteFails, TypeOK
<1>21. ASSUME NEW p \in Procs, ParkOrphan(p) PROVE TypeOK'
  BY <1>21, OpAt, FinishType, RecordType DEF ParkOrphan, TypeOK
<1>22. ASSUME NEW p \in Procs, NEW id \in Ids, ReconcileList(p, id) PROVE TypeOK'
  <2>1. [job |-> "reconcile", pc |-> "upsert", id |-> id, ver |-> row[id].ver,
         ns |-> row[id].ns, att |-> 0] \in Op
    BY DEF Op, Jobs, Steps, TypeOK, Row
  <2>2. QED
    BY <1>22, <2>1, BeginType DEF ReconcileList, TypeOK
<1>23. ASSUME NEW p \in Procs, NEW id \in Ids, ReapList(p, id) PROVE TypeOK'
  <2>1. [job |-> "reap", id |-> id, ver |-> 0,
         pc |-> IF orphan[id].kind = "backfill" THEN "load" ELSE "cdelete",
         ns |-> orphan[id].ns, att |-> orphan[id].att] \in Op
    BY DEF Op, Jobs, Steps, TypeOK, Orphan
  <2>2. QED
    BY <1>23, <2>1, BeginType DEF ReapList, TypeOK
<1>24. ASSUME NEW p \in Procs, BackfillLoad(p) PROVE TypeOK'
  <2>1. CASE Live(op[p].id)
    <3>1. op[p] \in Op /\ row[op[p].id].ver \in Nat
      BY <1>24, OpAt DEF BackfillLoad, TypeOK, Row
    <3>2. [op[p] EXCEPT !.pc = "upsert", !.ver = row[op[p].id].ver] \in Op
      BY <3>1 DEF Op, Steps
    <3>3. QED
      BY <1>24, <2>1, <3>2 DEF BackfillLoad, TypeOK
  <2>2. CASE ~Live(op[p].id)
    BY <1>24, <2>2, GotoType DEF BackfillLoad, TypeOK, Steps
  <2>3. QED
    BY <2>1, <2>2
<1>25. ASSUME NEW p \in Procs, ReapFailed(p) PROVE TypeOK'
  <2>1. /\ orphan[op[p].id] \in Orphan
        /\ op[p].att + 1 \in Nat
    BY <1>25, OpAt DEF ReapFailed, TypeOK
  <2>2. [orphan[op[p].id] EXCEPT !.att = op[p].att + 1] \in Orphan
    BY <2>1 DEF Orphan
  <2>3. orphan' \in [Ids -> Orphan]
    BY <1>25, <2>2 DEF ReapFailed, TypeOK
  <2>4. QED
    BY <1>25, <2>3, FinishType DEF ReapFailed, TypeOK
<1>26. ASSUME NEW p \in Procs, Abort(p) PROVE TypeOK'
  <2>1. mark' \in [Ids -> SUBSET Marks]
    BY <1>26 DEF Abort, TypeOK, Marked, Marks
  <2>2. QED
    BY <1>26, <2>1, FinishType DEF Abort, TypeOK
<1>27. CASE UNCHANGED vars
  BY <1>27 DEF vars, TypeOK
<1>28. QED
  BY <1>1, <1>2, <1>3, <1>4, <1>5, <1>6, <1>7, <1>8, <1>9, <1>10, <1>11, <1>12, <1>13, <1>14,
     <1>15, <1>16, <1>17, <1>18, <1>19, <1>20, <1>21, <1>22, <1>23, <1>24, <1>25, <1>26, <1>27,
     <1>31
  DEF Next, Request, Tick, Continue, Failure, Procs

\* Every reachable state is well formed, for every set of entries, namespaces and processes.
THEOREM TypeCorrect == Spec => []TypeOK
BY TypeInit, TypeNext, PTL DEF Spec

-----------------------------------------------------------------------------
(* The stamp and the vector. *)

LEMMA GotoOp ==
    ASSUME TypeOK, NEW p \in Procs, op[p] # Idle, NEW pc \in Steps, Goto(p, pc)
    PROVE  /\ op'[p].pc = pc
           /\ op'[p].job = op[p].job
           /\ op'[p].id = op[p].id
           /\ op'[p].ver = op[p].ver
           /\ op'[p].ns = op[p].ns
           /\ \A q \in Procs : q # p => op'[q] = op[q]
BY OpAt DEF TypeOK, Goto, Op

LEMMA FinishOp ==
    ASSUME TypeOK, NEW p \in Procs, Finish(p)
    PROVE  /\ op'[p] = Idle
           /\ \A q \in Procs : q # p => op'[q] = op[q]
BY DEF TypeOK, Finish

LEMMA InvInit == Init => IInv
BY TypeInit
DEF Init, IInv, RowVersioned, OpVersioned, DeleteOwedWhenGone, DeletesWhenGone,
   StampsAfterUpsert, StampHasVector, Live, NoRow, Nothing

LEMMA InvNext == IInv /\ [Next]_vars => IInv'
<1> SUFFICES ASSUME IInv, [Next]_vars PROVE IInv'
  OBVIOUS
<1> TypeOK /\ TypeOK'
  BY TypeNext DEF IInv
<1> USE DEF At, Fail
<1>1. ASSUME NEW p \in Procs, NEW id \in Ids, NEW n \in Namespaces, PersistRemember(p, id, n)
      PROVE  IInv'
  BY <1>1, OpAt
  DEF PersistRemember, IInv, TypeOK, Op, Row, RowVersioned, OpVersioned, DeleteOwedWhenGone,
      DeletesWhenGone, StampsAfterUpsert, StampHasVector, Live, Gone, Begin
<1>2. ASSUME NEW p \in Procs, EmbedEmpty(p) PROVE IInv'
  BY <1>2, OpAt
  DEF EmbedEmpty, IInv, TypeOK, RowVersioned, OpVersioned, DeleteOwedWhenGone,
      DeletesWhenGone, StampsAfterUpsert, StampHasVector, Live, Gone, Finish,
      RecordMissingVector
<1>3. ASSUME NEW p \in Procs, ParkMissingVector(p) PROVE IInv'
  BY <1>3, OpAt
  DEF ParkMissingVector, IInv, TypeOK, RowVersioned, OpVersioned, DeleteOwedWhenGone,
      DeletesWhenGone, StampsAfterUpsert, StampHasVector, Live, Gone, Finish,
      RecordMissingVector
<1>31. ASSUME NEW p \in Procs, NEW id \in Ids, NEW n \in Namespaces, PersistRaced(p, id, n)
       PROVE  IInv'
  BY <1>31, OpAt
  DEF PersistRaced, IInv, TypeOK, Op, Row, RowVersioned, OpVersioned, DeleteOwedWhenGone,
      DeletesWhenGone, StampsAfterUpsert, StampHasVector, Live, Gone, Begin
<1>4. ASSUME NEW p \in Procs, NEW id \in Ids, DedupHit(p, id) PROVE IInv'
  BY <1>4, OpAt
  DEF DedupHit, IInv, TypeOK, Op, Row, RowVersioned, OpVersioned, DeleteOwedWhenGone,
      DeletesWhenGone, StampsAfterUpsert, StampHasVector, Live, Gone, Begin
<1>5. ASSUME NEW p \in Procs, BackfillProbe(p) PROVE IInv'
  <2>0. /\ op'[p] = Idle \/ (op'[p].pc = "upsert" /\ op'[p].ver = op[p].ver /\ op[p].ver # 0)
        /\ \A q \in Procs : q # p => op'[q] = op[q]
    BY <1>5, OpAt, GotoOp, FinishOp
    DEF BackfillProbe, IInv, TypeOK, OpVersioned, RowVersioned, Steps, Op, Row
  <2>1. RowVersioned'
    BY <1>5, <2>0, OpAt
    DEF BackfillProbe, IInv, TypeOK, Live, Gone, RowVersioned, Row
  <2>2. OpVersioned'
    BY <1>5, <2>0, OpAt
    DEF BackfillProbe, IInv, TypeOK, Live, Gone, OpVersioned
  <2>3. DeleteOwedWhenGone'
    BY <1>5, <2>0, OpAt
    DEF BackfillProbe, IInv, TypeOK, Live, Gone, DeleteOwedWhenGone, Orphan, DeletesWhenGone
  <2>4. DeletesWhenGone'
    BY <1>5, <2>0, OpAt
    DEF BackfillProbe, IInv, TypeOK, Live, Gone, DeletesWhenGone, DeleteOwedWhenGone
  <2>5. StampsAfterUpsert'
    BY <1>5, <2>0, OpAt
    DEF BackfillProbe, IInv, TypeOK, Live, Gone, StampsAfterUpsert, OpVersioned,
        DeletesWhenGone
  <2>6. StampHasVector'
    BY <1>5, <2>0, OpAt
    DEF BackfillProbe, IInv, TypeOK, Live, Gone, StampHasVector, StampsAfterUpsert,
        DeletesWhenGone, OpVersioned
  <2>7. QED
    BY <2>1, <2>2, <2>3, <2>4, <2>5, <2>6 DEF IInv
<1>6. ASSUME NEW p \in Procs, NEW id \in Ids, NEW n \in Namespaces, UpdateContent(p, id, n)
      PROVE  IInv'
  <2>1. RowVersioned'
    BY <1>6, OpAt
    DEF UpdateContent, IInv, TypeOK, Live, Gone, RowVersioned, Row, Begin, Op, Orphan
  <2>2. OpVersioned'
    BY <1>6, OpAt
    DEF UpdateContent, IInv, TypeOK, Live, Gone, OpVersioned, Begin, Op, Orphan, Row
  <2>3. DeleteOwedWhenGone'
    BY <1>6, OpAt
    DEF UpdateContent, IInv, TypeOK, Live, Gone, DeleteOwedWhenGone, Orphan, DeletesWhenGone,
        Begin, Op, Row
  <2>4. DeletesWhenGone'
    BY <1>6, OpAt
    DEF UpdateContent, IInv, TypeOK, Live, Gone, DeletesWhenGone, DeleteOwedWhenGone, Begin,
        Op, Orphan, Row
  <2>5. StampsAfterUpsert'
    BY <1>6, OpAt
    DEF UpdateContent, IInv, TypeOK, Live, Gone, StampsAfterUpsert, OpVersioned,
        DeletesWhenGone, Begin, Op, Orphan, Row
  <2>6. StampHasVector'
    BY <1>6, OpAt
    DEF UpdateContent, IInv, TypeOK, Live, Gone, StampHasVector, StampsAfterUpsert,
        DeletesWhenGone, OpVersioned, Begin, Op, Orphan, Row
  <2>7. QED
    BY <2>1, <2>2, <2>3, <2>4, <2>5, <2>6 DEF IInv
<1>7. ASSUME NEW p \in Procs, NEW id \in Ids, NEW n \in Namespaces, UpdateNamespace(p, id, n)
      PROVE  IInv'
  BY <1>7, OpAt
  DEF UpdateNamespace, IInv, TypeOK, RowVersioned, OpVersioned, DeleteOwedWhenGone,
      DeletesWhenGone, StampsAfterUpsert, StampHasVector, Live, Gone
<1>8. ASSUME NEW p \in Procs, UpdateReread(p) PROVE IInv'
  <2>0. /\ op'[p] = Idle \/ (op'[p].pc = "upsert" /\ op'[p].ver = op[p].ver /\ op[p].ver # 0)
        /\ \A q \in Procs : q # p => op'[q] = op[q]
    BY <1>8, OpAt, GotoOp, FinishOp
    DEF UpdateReread, IInv, TypeOK, OpVersioned, RowVersioned, Steps, Op, Row
  <2>1. RowVersioned'
    BY <1>8, <2>0, OpAt
    DEF UpdateReread, IInv, TypeOK, Live, Gone, RowVersioned, Row
  <2>2. OpVersioned'
    BY <1>8, <2>0, OpAt
    DEF UpdateReread, IInv, TypeOK, Live, Gone, OpVersioned
  <2>3. DeleteOwedWhenGone'
    BY <1>8, <2>0, OpAt
    DEF UpdateReread, IInv, TypeOK, Live, Gone, DeleteOwedWhenGone, Orphan, DeletesWhenGone
  <2>4. DeletesWhenGone'
    BY <1>8, <2>0, OpAt
    DEF UpdateReread, IInv, TypeOK, Live, Gone, DeletesWhenGone, DeleteOwedWhenGone
  <2>5. StampsAfterUpsert'
    BY <1>8, <2>0, OpAt
    DEF UpdateReread, IInv, TypeOK, Live, Gone, StampsAfterUpsert, OpVersioned,
        DeletesWhenGone
  <2>6. StampHasVector'
    BY <1>8, <2>0, OpAt
    DEF UpdateReread, IInv, TypeOK, Live, Gone, StampHasVector, StampsAfterUpsert,
        DeletesWhenGone, OpVersioned
  <2>7. QED
    BY <2>1, <2>2, <2>3, <2>4, <2>5, <2>6 DEF IInv
<1>9. ASSUME NEW p \in Procs, UpdateRequeue(p) PROVE IInv'
  BY <1>9, OpAt
  DEF UpdateRequeue, IInv, TypeOK, RowVersioned, OpVersioned, DeleteOwedWhenGone,
      DeletesWhenGone, StampsAfterUpsert, StampHasVector, Live, Gone, Finish, SetEmbedded
<1>10. ASSUME NEW p \in Procs, EmbedFails(p) PROVE IInv'
  <2>0. /\ op'[p] = Idle \/ op'[p].pc = "failed"
        /\ \A q \in Procs : q # p => op'[q] = op[q]
    BY <1>10, OpAt, GotoOp, FinishOp
    DEF EmbedFails, IInv, TypeOK, OpVersioned, RowVersioned, Steps, Op, Row
  <2>1. RowVersioned'
    BY <1>10, <2>0, OpAt
    DEF EmbedFails, IInv, TypeOK, Live, Gone, RowVersioned, Row
  <2>2. OpVersioned'
    BY <1>10, <2>0, OpAt
    DEF EmbedFails, IInv, TypeOK, Live, Gone, OpVersioned
  <2>3. DeleteOwedWhenGone'
    BY <1>10, <2>0, OpAt
    DEF EmbedFails, IInv, TypeOK, Live, Gone, DeleteOwedWhenGone, Orphan, DeletesWhenGone
  <2>4. DeletesWhenGone'
    BY <1>10, <2>0, OpAt
    DEF EmbedFails, IInv, TypeOK, Live, Gone, DeletesWhenGone, DeleteOwedWhenGone
  <2>5. StampsAfterUpsert'
    BY <1>10, <2>0, OpAt
    DEF EmbedFails, IInv, TypeOK, Live, Gone, StampsAfterUpsert, OpVersioned, DeletesWhenGone
  <2>6. StampHasVector'
    BY <1>10, <2>0, OpAt
    DEF EmbedFails, IInv, TypeOK, Live, Gone, StampHasVector, StampsAfterUpsert,
        DeletesWhenGone, OpVersioned
  <2>7. QED
    BY <2>1, <2>2, <2>3, <2>4, <2>5, <2>6 DEF IInv
<1>11. ASSUME NEW p \in Procs, UpsertOk(p) PROVE IInv'
  BY <1>11, OpAt
  DEF UpsertOk, IInv, TypeOK, RowVersioned, OpVersioned, DeleteOwedWhenGone, DeletesWhenGone,
      StampsAfterUpsert, StampHasVector, Live, Gone, Goto
<1>12. ASSUME NEW p \in Procs, UpsertFails(p) PROVE IInv'
  <2>0. /\ op'[p] = Idle \/ op'[p].pc = "failed" \/ (op'[p].pc = "park" /\ op'[p].job = "remember")
        /\ \A q \in Procs : q # p => op'[q] = op[q]
    BY <1>12, OpAt, GotoOp, FinishOp
    DEF UpsertFails, IInv, TypeOK, OpVersioned, RowVersioned, Steps, Op, Row
  <2>1. RowVersioned'
    BY <1>12, <2>0, OpAt
    DEF UpsertFails, IInv, TypeOK, Live, Gone, RowVersioned, Row
  <2>2. OpVersioned'
    BY <1>12, <2>0, OpAt
    DEF UpsertFails, IInv, TypeOK, Live, Gone, OpVersioned
  <2>3. DeleteOwedWhenGone'
    BY <1>12, <2>0, OpAt
    DEF UpsertFails, IInv, TypeOK, Live, Gone, DeleteOwedWhenGone, Orphan, DeletesWhenGone
  <2>4. DeletesWhenGone'
    BY <1>12, <2>0, OpAt
    DEF UpsertFails, IInv, TypeOK, Live, Gone, DeletesWhenGone, DeleteOwedWhenGone
  <2>5. StampsAfterUpsert'
    <3>1. CASE vec' = [vec EXCEPT ![op[p].id][op[p].ns] = op[p].ver]
      BY <1>12, <2>0, <3>1, OpAt
      DEF UpsertFails, IInv, TypeOK, Gone, StampsAfterUpsert, OpVersioned, DeletesWhenGone
    <3>2. CASE UNCHANGED vec
      BY <1>12, <2>0, <3>2, OpAt
      DEF UpsertFails, IInv, TypeOK, Gone, StampsAfterUpsert
    <3>3. QED
      BY <1>12, <3>1, <3>2 DEF UpsertFails
  <2>6. StampHasVector'
    BY <1>12, <2>0, OpAt
    DEF UpsertFails, IInv, TypeOK, Live, Gone, StampHasVector, StampsAfterUpsert,
        DeletesWhenGone, OpVersioned
  <2>7. QED
    BY <2>1, <2>2, <2>3, <2>4, <2>5, <2>6 DEF IInv
<1>13. ASSUME NEW p \in Procs, Stamp(p) PROVE IInv'
  <2>0. /\ op'[p] = Idle \/ op'[p].pc \in {"clear", "settle"}
        /\ \A q \in Procs : q # p => op'[q] = op[q]
    BY <1>13, OpAt, GotoOp, FinishOp
    DEF Stamp, IInv, TypeOK, OpVersioned, RowVersioned, Steps, Op, Row
  <2>1. RowVersioned'
    BY <1>13, <2>0, OpAt
    DEF Stamp, IInv, TypeOK, Live, Gone, RowVersioned, Row, SetEmbedded
  <2>2. OpVersioned'
    BY <1>13, <2>0, OpAt
    DEF Stamp, IInv, TypeOK, Live, Gone, OpVersioned, SetEmbedded
  <2>3. DeleteOwedWhenGone'
    BY <1>13, <2>0, OpAt
    DEF Stamp, IInv, TypeOK, Live, Gone, DeleteOwedWhenGone, Orphan, DeletesWhenGone,
        SetEmbedded
  <2>4. DeletesWhenGone'
    BY <1>13, <2>0, OpAt
    DEF Stamp, IInv, TypeOK, Live, Gone, DeletesWhenGone, DeleteOwedWhenGone, SetEmbedded
  <2>5. StampsAfterUpsert'
    BY <1>13, <2>0, OpAt
    DEF Stamp, IInv, TypeOK, Live, Gone, StampsAfterUpsert, OpVersioned, DeletesWhenGone,
        SetEmbedded
  <2>6. StampHasVector'
    BY <1>13, <2>0, OpAt
    DEF Stamp, IInv, TypeOK, Live, Gone, StampHasVector, StampsAfterUpsert, DeletesWhenGone,
        OpVersioned, SetEmbedded
  <2>7. QED
    BY <2>1, <2>2, <2>3, <2>4, <2>5, <2>6 DEF IInv
<1>14. ASSUME NEW p \in Procs, ClearMissingVector(p) PROVE IInv'
  BY <1>14, OpAt
  DEF ClearMissingVector, IInv, TypeOK, Orphan, RowVersioned, OpVersioned,
      DeleteOwedWhenGone, DeletesWhenGone, StampsAfterUpsert, StampHasVector, Live, Gone,
      Finish, Nothing
<1>15. ASSUME NEW p \in Procs, NEW id \in Ids, ForgetRead(p, id) PROVE IInv'
  BY <1>15, OpAt
  DEF ForgetRead, IInv, TypeOK, Op, Row, RowVersioned, OpVersioned, DeleteOwedWhenGone,
      DeletesWhenGone, StampsAfterUpsert, StampHasVector, Live, Gone, Begin
<1>16. ASSUME NEW p \in Procs, WarmDelete(p) PROVE IInv'
  BY <1>16, OpAt
  DEF WarmDelete, IInv, TypeOK, RowVersioned, OpVersioned, DeleteOwedWhenGone,
      DeletesWhenGone, StampsAfterUpsert, StampHasVector, Live, Gone, Goto, NoRow
<1>17. ASSUME NEW p \in Procs, NEW id \in Ids, ForgetBySource(p, id) PROVE IInv'
  BY <1>17, OpAt
  DEF ForgetBySource, IInv, TypeOK, Op, Row, RowVersioned, OpVersioned, DeleteOwedWhenGone,
      DeletesWhenGone, StampsAfterUpsert, StampHasVector, Live, Gone, Begin, NoRow
<1>18. ASSUME NEW p \in Procs, ColdDeleteOk(p) PROVE IInv'
  <2>0. /\ op'[p] = Idle \/ op'[p].pc = "settle"
        /\ \A q \in Procs : q # p => op'[q] = op[q]
    BY <1>18, OpAt, GotoOp, FinishOp
    DEF ColdDeleteOk, IInv, TypeOK, OpVersioned, RowVersioned, Steps, Op, Row
  <2>1. RowVersioned'
    BY <1>18, <2>0, OpAt
    DEF ColdDeleteOk, IInv, TypeOK, Live, Gone, RowVersioned, Row
  <2>2. OpVersioned'
    BY <1>18, <2>0, OpAt
    DEF ColdDeleteOk, IInv, TypeOK, Live, Gone, OpVersioned
  <2>3. DeleteOwedWhenGone'
    BY <1>18, <2>0, OpAt
    DEF ColdDeleteOk, IInv, TypeOK, Live, Gone, DeleteOwedWhenGone, Orphan, DeletesWhenGone
  <2>4. DeletesWhenGone'
    BY <1>18, <2>0, OpAt
    DEF ColdDeleteOk, IInv, TypeOK, Live, Gone, DeletesWhenGone, DeleteOwedWhenGone
  <2>5. StampsAfterUpsert'
    BY <1>18, <2>0, OpAt
    DEF ColdDeleteOk, IInv, TypeOK, Live, Gone, StampsAfterUpsert, OpVersioned,
        DeletesWhenGone
  <2>6. StampHasVector'
    BY <1>18, <2>0, OpAt
    DEF ColdDeleteOk, IInv, TypeOK, Live, Gone, StampHasVector, StampsAfterUpsert,
        DeletesWhenGone, OpVersioned
  <2>7. QED
    BY <2>1, <2>2, <2>3, <2>4, <2>5, <2>6 DEF IInv
<1>19. ASSUME NEW p \in Procs, ColdDeleteFails(p) PROVE IInv'
  <2>0. /\ op'[p].pc \in {"failed", "park"} /\ op'[p].id = op[p].id
        /\ \A q \in Procs : q # p => op'[q] = op[q]
    BY <1>19, OpAt, GotoOp, FinishOp
    DEF ColdDeleteFails, IInv, TypeOK, OpVersioned, RowVersioned, Steps, Op, Row
  <2>1. RowVersioned'
    BY <1>19, <2>0, OpAt
    DEF ColdDeleteFails, IInv, TypeOK, Live, Gone, RowVersioned, Row
  <2>2. OpVersioned'
    BY <1>19, <2>0, OpAt
    DEF ColdDeleteFails, IInv, TypeOK, Live, Gone, OpVersioned
  <2>3. DeleteOwedWhenGone'
    BY <1>19, <2>0, OpAt
    DEF ColdDeleteFails, IInv, TypeOK, Live, Gone, DeleteOwedWhenGone, Orphan, DeletesWhenGone
  <2>4. DeletesWhenGone'
    BY <1>19, <2>0, OpAt
    DEF ColdDeleteFails, IInv, TypeOK, Live, Gone, DeletesWhenGone, DeleteOwedWhenGone
  <2>5. StampsAfterUpsert'
    <3>1. CASE vec' = [vec EXCEPT ![op[p].id][op[p].ns] = 0]
      BY <1>19, <2>0, <3>1, OpAt
      DEF ColdDeleteFails, IInv, TypeOK, Gone, StampsAfterUpsert, OpVersioned, DeletesWhenGone
    <3>2. CASE UNCHANGED vec
      BY <1>19, <2>0, <3>2, OpAt
      DEF ColdDeleteFails, IInv, TypeOK, Gone, StampsAfterUpsert
    <3>3. QED
      BY <1>19, <3>1, <3>2 DEF ColdDeleteFails
  <2>6. StampHasVector'
    BY <1>19, <2>0, OpAt
    DEF ColdDeleteFails, IInv, TypeOK, Live, Gone, StampHasVector, StampsAfterUpsert,
        DeletesWhenGone, OpVersioned
  <2>7. QED
    BY <2>1, <2>2, <2>3, <2>4, <2>5, <2>6 DEF IInv
<1>20. ASSUME NEW p \in Procs, ParkOrphan(p) PROVE IInv'
  <2>0. /\ op'[p] = Idle
        /\ \A q \in Procs : q # p => op'[q] = op[q]
    BY <1>20, OpAt, GotoOp, FinishOp
    DEF ParkOrphan, IInv, TypeOK, OpVersioned, RowVersioned, Steps, Op, Row
  <2>1. RowVersioned'
    BY <1>20, <2>0, OpAt
    DEF ParkOrphan, IInv, TypeOK, Live, Gone, RowVersioned, Row, RecordColdOrphan
  <2>2. OpVersioned'
    BY <1>20, <2>0, OpAt
    DEF ParkOrphan, IInv, TypeOK, Live, Gone, OpVersioned, RecordColdOrphan
  <2>3. DeleteOwedWhenGone'
    BY <1>20, <2>0, OpAt
    DEF ParkOrphan, IInv, TypeOK, Live, Gone, DeleteOwedWhenGone, Orphan, DeletesWhenGone,
        RecordColdOrphan
  <2>4. DeletesWhenGone'
    BY <1>20, <2>0, OpAt
    DEF ParkOrphan, IInv, TypeOK, Live, Gone, DeletesWhenGone, DeleteOwedWhenGone,
        RecordColdOrphan
  <2>5. StampsAfterUpsert'
    BY <1>20, <2>0, OpAt
    DEF ParkOrphan, IInv, TypeOK, Live, Gone, StampsAfterUpsert, OpVersioned,
        DeletesWhenGone, RecordColdOrphan
  <2>6. StampHasVector'
    BY <1>20, <2>0, OpAt
    DEF ParkOrphan, IInv, TypeOK, Live, Gone, StampHasVector, StampsAfterUpsert,
        DeletesWhenGone, OpVersioned, RecordColdOrphan
  <2>7. QED
    BY <2>1, <2>2, <2>3, <2>4, <2>5, <2>6 DEF IInv
<1>21. ASSUME NEW p \in Procs, NEW id \in Ids, ReconcileList(p, id) PROVE IInv'
  BY <1>21, OpAt
  DEF ReconcileList, IInv, TypeOK, Op, Row, RowVersioned, OpVersioned, DeleteOwedWhenGone,
      DeletesWhenGone, StampsAfterUpsert, StampHasVector, Live, Gone, Begin
<1>22. ASSUME NEW p \in Procs, NEW id \in Ids, ReapList(p, id) PROVE IInv'
  <2>1. RowVersioned'
    BY <1>22, OpAt
    DEF ReapList, IInv, TypeOK, Live, Gone, RowVersioned, Row, Begin, NoOrphan, Op, Orphan
  <2>2. OpVersioned'
    BY <1>22, OpAt
    DEF ReapList, IInv, TypeOK, Live, Gone, OpVersioned, Begin, NoOrphan, Op, Orphan, Row
  <2>3. DeleteOwedWhenGone'
    BY <1>22, OpAt
    DEF ReapList, IInv, TypeOK, Live, Gone, DeleteOwedWhenGone, Orphan, DeletesWhenGone,
        Begin, NoOrphan, Op, Row
  <2>4. DeletesWhenGone'
    BY <1>22, OpAt
    DEF ReapList, IInv, TypeOK, Live, Gone, DeletesWhenGone, DeleteOwedWhenGone, Begin,
        Kinds, NoOrphan, Op, Orphan, Row
  <2>5. StampsAfterUpsert'
    BY <1>22, OpAt
    DEF ReapList, IInv, TypeOK, Live, Gone, StampsAfterUpsert, OpVersioned, DeletesWhenGone,
        Begin, NoOrphan, Op, Orphan, Row
  <2>6. StampHasVector'
    BY <1>22, OpAt
    DEF ReapList, IInv, TypeOK, Live, Gone, StampHasVector, StampsAfterUpsert,
        DeletesWhenGone, OpVersioned, Begin, NoOrphan, Op, Orphan, Row
  <2>7. QED
    BY <2>1, <2>2, <2>3, <2>4, <2>5, <2>6 DEF IInv
<1>23. ASSUME NEW p \in Procs, BackfillLoad(p) PROVE IInv'
  <2>0. /\ op'[p].pc = "failed" \/ (op'[p].pc = "upsert" /\ op'[p].ver # 0)
        /\ \A q \in Procs : q # p => op'[q] = op[q]
    BY <1>23, OpAt, GotoOp, FinishOp
    DEF BackfillLoad, IInv, TypeOK, OpVersioned, RowVersioned, Steps, Op, Row
  <2>1. RowVersioned'
    BY <1>23, <2>0, OpAt
    DEF BackfillLoad, IInv, TypeOK, Live, Gone, RowVersioned, Row
  <2>2. OpVersioned'
    BY <1>23, <2>0, OpAt
    DEF BackfillLoad, IInv, TypeOK, Live, Gone, OpVersioned
  <2>3. DeleteOwedWhenGone'
    BY <1>23, <2>0, OpAt
    DEF BackfillLoad, IInv, TypeOK, Live, Gone, DeleteOwedWhenGone, Orphan, DeletesWhenGone
  <2>4. DeletesWhenGone'
    BY <1>23, <2>0, OpAt
    DEF BackfillLoad, IInv, TypeOK, Live, Gone, DeletesWhenGone, DeleteOwedWhenGone
  <2>5. StampsAfterUpsert'
    BY <1>23, <2>0, OpAt
    DEF BackfillLoad, IInv, TypeOK, Live, Gone, StampsAfterUpsert, OpVersioned,
        DeletesWhenGone
  <2>6. StampHasVector'
    BY <1>23, <2>0, OpAt
    DEF BackfillLoad, IInv, TypeOK, Live, Gone, StampHasVector, StampsAfterUpsert,
        DeletesWhenGone, OpVersioned
  <2>7. QED
    BY <2>1, <2>2, <2>3, <2>4, <2>5, <2>6 DEF IInv
<1>24. ASSUME NEW p \in Procs, ReapSettle(p) PROVE IInv'
  BY <1>24, OpAt
  DEF ReapSettle, IInv, TypeOK, RowVersioned, OpVersioned, DeleteOwedWhenGone,
      DeletesWhenGone, StampsAfterUpsert, StampHasVector, Live, Gone, Finish, Nothing
<1>25. ASSUME NEW p \in Procs, ReapFailed(p) PROVE IInv'
  BY <1>25, OpAt
  DEF ReapFailed, IInv, TypeOK, Orphan, RowVersioned, OpVersioned, DeleteOwedWhenGone,
      DeletesWhenGone, StampsAfterUpsert, StampHasVector, Live, Gone, NoOrphan, Finish
<1>26. ASSUME NEW p \in Procs, Abort(p) PROVE IInv'
  BY <1>26, OpAt
  DEF Abort, IInv, TypeOK, RowVersioned, OpVersioned, DeleteOwedWhenGone, DeletesWhenGone,
      StampsAfterUpsert, StampHasVector, Live, Gone, Finish
<1>27. CASE UNCHANGED vars
  BY <1>27
  DEF vars, IInv, TypeOK, Op, Row, Orphan, RowVersioned, OpVersioned, DeleteOwedWhenGone,
      DeletesWhenGone,
     StampsAfterUpsert, StampHasVector, Live, Gone, NoOrphan, Idle, Begin, Goto, Finish, SetEmbedded,
     RecordMissingVector, RecordColdOrphan, NoRow, Nothing
<1>28. QED
  BY <1>1, <1>2, <1>3, <1>4, <1>5, <1>6, <1>7, <1>8, <1>9, <1>10, <1>11, <1>12, <1>13, <1>14,
     <1>15, <1>16, <1>17, <1>18, <1>19, <1>20, <1>21, <1>22, <1>23, <1>24, <1>25, <1>26, <1>27,
     <1>31
  DEF Next, Request, Tick, Continue, Failure, Procs

\* Holds in every reachable state: the stamp is kept honest by the order of the calls
\* (upsert, then stamp; warm delete, then cold delete), whoever else is running.
THEOREM InvCorrect == Spec => []IInv
BY InvInit, InvNext, PTL DEF Spec

\* embedded_at of a stored entry always has a vector behind it (StampHasVector), for any
\* number of entries, handlers, reconcilers and reapers, and any number of failures.
THEOREM StampedHasVector == Spec => []StampHasVector
<1>1. IInv => StampHasVector
  BY DEF IInv
<1>2. QED
  BY <1>1, InvCorrect, PTL

LEMMA KeepStep ==
    IInv /\ [Next]_vars
    => \A id \in Ids, n \in Namespaces :
          Live(id) /\ vec[id][n] # 0 => vec'[id][n] # 0
<1> SUFFICES ASSUME IInv, [Next]_vars, NEW id \in Ids, NEW n \in Namespaces,
                    Live(id), vec[id][n] # 0
             PROVE  vec'[id][n] # 0
  OBVIOUS
<1> TypeOK
  BY DEF IInv
<1>1. ASSUME NEW p \in Procs, UpsertOk(p) \/ UpsertFails(p)
      PROVE  vec'[id][n] # 0
  <2>1. op[p].id \in Ids /\ op[p].ns \in Namespaces /\ op[p].ver # 0
    BY <1>1, OpAt DEF UpsertOk, UpsertFails, At, IInv, OpVersioned
  <2>2. \/ vec' = [vec EXCEPT ![op[p].id][op[p].ns] = op[p].ver]
        \/ UNCHANGED vec
    BY <1>1 DEF UpsertOk, UpsertFails
  <2>3. QED
    BY <2>1, <2>2 DEF TypeOK
<1>2. ASSUME NEW p \in Procs, ColdDeleteOk(p) \/ ColdDeleteFails(p)
      PROVE  vec'[id][n] # 0
  <2>1. op[p].id # id
    BY <1>2 DEF ColdDeleteOk, ColdDeleteFails, At, IInv, DeletesWhenGone, Live, Gone
  <2>2. QED
    BY <1>2, <2>1, OpAt DEF ColdDeleteOk, ColdDeleteFails, At, TypeOK
<1>3. CASE UNCHANGED vec
  BY <1>3
<1>4. ASSUME NEW p \in Procs, NEW i \in Ids, Request(p) \/ ReconcileList(p, i) \/ ReapList(p, i)
      PROVE  UNCHANGED vec
  BY <1>4
  DEF Request, PersistRemember, PersistRaced, DedupHit, ForgetRead, ForgetBySource,
      UpdateContent, UpdateNamespace, ReconcileList, ReapList
<1>5. QED
  BY <1>1, <1>2, <1>3, <1>4
  DEF Next, Tick, Continue, Failure, vars, Procs, BackfillProbe, UpdateReread, Stamp,
      ClearMissingVector, ParkMissingVector, WarmDelete, ParkOrphan, BackfillLoad,
      ReapSettle, ReapFailed, EmbedEmpty, UpdateRequeue, EmbedFails, Abort

\* No step of anyone, failed calls and aborted operations included, deletes a vector of an
\* entry that is still stored (LiveVectorKept).
THEOREM VectorKept == Spec => LiveVectorKept
BY InvCorrect, KeepStep, PTL DEF Spec, LiveVectorKept

-----------------------------------------------------------------------------
(* The refinement of EntryLife. *)

\* What a row that is not stored still says: nothing.
RowWorded ==
    \A id \in Ids : IF Live(id) THEN row[id].ver \in 1..MaxVer ELSE row[id].ver = 0

\* Nobody writes a vector of a wording the entry has not had.
OpWorded ==
    \A p \in Procs :
        op[p] # Idle /\ op[p].pc \in {"probe", "reread", "upsert"}
        => /\ op[p].ver \in 1..MaxVer
           /\ Live(op[p].id) => op[p].ver <= row[op[p].id].ver

VecWorded ==
    \A id \in Ids, n \in Namespaces :
        /\ vec[id][n] \in 0..MaxVer
        /\ Live(id) => vec[id][n] <= row[id].ver

\* Nothing is known of an entry before it is stored.
FreshUntouched ==
    \A id \in Ids : row[id].st = "fresh" =>
        /\ \A n \in Namespaces : vec[id][n] = 0
        /\ NoOrphan(id)
        /\ \A p \in Procs : op[p] # Idle => op[p].id # id

RInv == IInv /\ RowWorded /\ OpWorded /\ VecWorded /\ FreshUntouched

\* What a step can do to the row of an entry.
RowStep(id, r) ==
    \/ row[id].st = "fresh" /\ r.st = "live" /\ r.ver = 1 /\ ~r.emb
    \/ Live(id) /\ r.st = "live" /\ r.ver = row[id].ver + 1 /\ r.ver <= MaxVer
       /\ r.emb = row[id].emb
    \/ Live(id) /\ r.st = "live" /\ r.ver = row[id].ver
       /\ (r.emb => row[id].emb \/ \E n \in Namespaces : vec[id][n] # 0)
    \/ row[id].st # "fresh" /\ r = NoRow("gone")

\* And to one of its vectors.
VecStep(id, n, v) ==
    \/ Gone(id) /\ v = 0
    \/ \E p \in Procs : op[p] # Idle /\ op[p].pc = "upsert" /\ op[p].id = id /\ op[p].ver = v

DataStep ==
    \/ row' = row /\ vec' = vec
    \/ vec' = vec /\ \E id \in Ids, r \in Row : row' = [row EXCEPT ![id] = r] /\ RowStep(id, r)
    \/ row' = row /\ \E id \in Ids, n \in Namespaces, v \in Nat :
                        vec' = [vec EXCEPT ![id][n] = v] /\ VecStep(id, n, v)

LEMMA RowSteps ==
    ASSUME RInv, NEW p \in Procs, NEW id \in Ids, NEW n \in Namespaces,
           \/ PersistRemember(p, id, n)
           \/ UpdateContent(p, id, n)
           \/ UpdateNamespace(p, id, n)
           \/ ForgetBySource(p, id)
    PROVE  DataStep
<1>0. row[id] \in Row /\ vec' = vec /\ MaxVer \in Nat
  BY VectorTierAssumption
  DEF RInv, IInv, TypeOK, PersistRemember, UpdateContent, UpdateNamespace, ForgetBySource
<1>1. CASE PersistRemember(p, id, n)
  <2> DEFINE r == [st |-> "live", ver |-> 1, ns |-> n, emb |-> FALSE]
  <2>1. r \in Row /\ row' = [row EXCEPT ![id] = r] /\ RowStep(id, r)
    BY <1>1 DEF PersistRemember, Row, RowStep
  <2>2. QED
    BY <1>0, <2>1 DEF DataStep
<1>2. CASE UpdateContent(p, id, n)
  <2> DEFINE v == row[id].ver + 1
             r == [row[id] EXCEPT !.ver = v, !.ns = n]
  <2>0. v \in Nat
    BY <1>0 DEF Row
  <2>1. row' = [row EXCEPT ![id] = r]
    BY <1>2 DEF UpdateContent
  <2>2. r \in Row /\ r.ver = row[id].ver + 1 /\ r.st = row[id].st /\ r.emb = row[id].emb
    <3> HIDE DEF v
    <3>1. r \in Row /\ r.ver = v /\ r.st = row[id].st /\ r.emb = row[id].emb
      BY <1>0, <2>0 DEF Row
    <3>2. QED
      BY <3>1 DEF v
  <2>3. row[id].ver < MaxVer /\ Live(id)
    BY <1>2 DEF UpdateContent
  <2>4. r.ver <= MaxVer
    BY <1>0, <2>2, <2>3 DEF Row
  <2>5. RowStep(id, r)
    BY <2>2, <2>3, <2>4 DEF RowStep, Live
  <2>6. QED
    BY <1>0, <2>1, <2>2, <2>5 DEF DataStep
<1>3. CASE UpdateNamespace(p, id, n)
  <2> DEFINE r == [row[id] EXCEPT !.ns = n]
  <2>1. row' = [row EXCEPT ![id] = r] /\ Live(id)
    BY <1>3 DEF UpdateNamespace
  <2>2. r \in Row /\ r.ver = row[id].ver /\ r.st = row[id].st /\ r.emb = row[id].emb
    BY <1>0 DEF Row
  <2>3. RowStep(id, r)
    BY <2>1, <2>2 DEF RowStep, Live
  <2>4. QED
    BY <1>0, <2>1, <2>2, <2>3 DEF DataStep
<1>4. CASE ForgetBySource(p, id)
  <2>1. row' = [row EXCEPT ![id] = NoRow("gone")] /\ Live(id)
    BY <1>4 DEF ForgetBySource
  <2>2. NoRow("gone") \in Row
    BY ShelfType DEF NoRow, Row
  <2>3. QED
    BY <1>0, <2>1, <2>2 DEF DataStep, RowStep, Live
<1>5. QED
  BY <1>1, <1>2, <1>3, <1>4

LEMMA StampSteps ==
    ASSUME RInv, NEW p \in Procs, Stamp(p) \/ UpdateRequeue(p) \/ WarmDelete(p)
    PROVE  DataStep
<1> DEFINE id == op[p].id
<1>1. id \in Ids /\ op[p] # Idle /\ vec' = vec
  BY OpAt DEF RInv, IInv, Stamp, UpdateRequeue, WarmDelete, At
<1>2. row[id] \in Row
  BY <1>1 DEF RInv, IInv, TypeOK
<1>3. ASSUME NEW b \in BOOLEAN, SetEmbedded(id, b), b => Gone(id) \/ \E n \in Namespaces : vec[id][n] # 0
      PROVE  DataStep
  <2> DEFINE r == [row[id] EXCEPT !.emb = b]
  <2>1. CASE Live(id)
    <3>1. row' = [row EXCEPT ![id] = r]
      BY <1>3, <2>1 DEF SetEmbedded
    <3>2. r \in Row /\ r.ver = row[id].ver /\ r.st = row[id].st /\ r.emb = b
      BY <1>2 DEF Row
    <3>3. RowStep(id, r)
      BY <1>3, <2>1, <3>2 DEF RowStep, Live, Gone
    <3>4. QED
      BY <1>1, <3>1, <3>2, <3>3 DEF DataStep
  <2>2. CASE ~Live(id)
    BY <1>1, <1>3, <2>2 DEF SetEmbedded, DataStep
  <2>3. QED
    BY <2>1, <2>2
<1>4. CASE Stamp(p)
  <2>1. SetEmbedded(id, TRUE)
    BY <1>4 DEF Stamp
  <2>2. Gone(id) \/ vec[id][op[p].ns] # 0
    BY <1>4 DEF Stamp, At, RInv, IInv, StampsAfterUpsert
  <2>3. op[p].ns \in Namespaces
    BY <1>1, OpAt DEF RInv, IInv
  <2>4. QED
    BY <1>3, <2>1, <2>2, <2>3
<1>5. CASE UpdateRequeue(p)
  BY <1>3, <1>5 DEF UpdateRequeue
<1>6. CASE WarmDelete(p)
  <2>1. row' = [row EXCEPT ![id] = NoRow("gone")]
    BY <1>6 DEF WarmDelete
  <2>2. NoRow("gone") \in Row
    BY ShelfType DEF NoRow, Row
  <2>3. row[id].st # "fresh"
    BY <1>1 DEF RInv, FreshUntouched
  <2>4. QED
    BY <1>1, <2>1, <2>2, <2>3 DEF DataStep, RowStep
<1>7. QED
  BY <1>4, <1>5, <1>6

LEMMA VecSteps ==
    ASSUME RInv, NEW p \in Procs,
           UpsertOk(p) \/ UpsertFails(p) \/ ColdDeleteOk(p) \/ ColdDeleteFails(p)
    PROVE  DataStep
<1> DEFINE id == op[p].id
           n == op[p].ns
<1>1. op[p] # Idle /\ row' = row /\ id \in Ids /\ n \in Namespaces /\ op[p].ver \in Nat
  BY OpAt DEF RInv, IInv, UpsertOk, UpsertFails, ColdDeleteOk, ColdDeleteFails, At
<1>2. CASE UpsertOk(p) \/ UpsertFails(p)
  <2>1. VecStep(id, n, op[p].ver)
    BY <1>2 DEF VecStep, UpsertOk, UpsertFails, At
  <2>2. vec' = [vec EXCEPT ![id][n] = op[p].ver] \/ vec' = vec
    BY <1>2 DEF UpsertOk, UpsertFails
  <2>3. QED
    BY <1>1, <2>1, <2>2 DEF DataStep
<1>3. CASE ColdDeleteOk(p) \/ ColdDeleteFails(p)
  <2>1. VecStep(id, n, 0)
    BY <1>3 DEF VecStep, ColdDeleteOk, ColdDeleteFails, At, RInv, IInv, DeletesWhenGone
  <2>2. vec' = [vec EXCEPT ![id][n] = 0] \/ vec' = vec
    BY <1>3 DEF ColdDeleteOk, ColdDeleteFails
  <2>3. QED
    BY <1>1, <2>1, <2>2 DEF DataStep
<1>4. QED
  BY <1>2, <1>3

LEMMA DataSteps == ASSUME RInv, [Next]_vars PROVE DataStep
<1>1. ASSUME NEW p \in Procs, NEW id \in Ids, NEW n \in Namespaces,
             \/ PersistRaced(p, id, n) \/ DedupHit(p, id) \/ ForgetRead(p, id)
             \/ ReconcileList(p, id) \/ ReapList(p, id)
      PROVE  DataStep
  BY <1>1 DEF DataStep, PersistRaced, DedupHit, ForgetRead, ReconcileList, ReapList
<1>2. ASSUME NEW p \in Procs,
             \/ BackfillProbe(p) \/ UpdateReread(p) \/ ClearMissingVector(p)
             \/ ParkMissingVector(p) \/ ParkOrphan(p) \/ BackfillLoad(p) \/ ReapSettle(p)
             \/ ReapFailed(p) \/ EmbedEmpty(p) \/ EmbedFails(p) \/ Abort(p)
      PROVE  DataStep
  BY <1>2
  DEF DataStep, BackfillProbe, UpdateReread, ClearMissingVector, ParkMissingVector, ParkOrphan,
      BackfillLoad, ReapSettle, ReapFailed, EmbedEmpty, EmbedFails, Abort
<1>3. CASE UNCHANGED vars
  BY <1>3 DEF vars, DataStep
<1>4. PICK n \in Namespaces : TRUE
  BY VectorTierAssumption
<1>5. QED
  BY <1>1, <1>2, <1>3, <1>4, RowSteps, StampSteps, VecSteps
  DEF Next, Request, Tick, Continue, Failure, Procs

\* A process is started on an entry that exists, and what it may upsert is the wording it
\* had read before or the one the row has now.
OpStep ==
    \A q \in Procs : op'[q] # Idle =>
        /\ \/ op[q] # Idle /\ op'[q].id = op[q].id
           \/ ~NoOrphan(op'[q].id)
           \/ row'[op'[q].id].st # "fresh"
        /\ op'[q].pc \in {"probe", "reread", "upsert"} =>
              \/ /\ op[q] # Idle /\ op[q].pc \in {"probe", "reread", "upsert"}
                 /\ op'[q].id = op[q].id /\ op'[q].ver = op[q].ver
              \/ row'[op'[q].id].st = "live" /\ op'[q].ver = row'[op'[q].id].ver

LEMMA BeginSteps ==
    ASSUME RInv, NEW p \in Procs, NEW id \in Ids, NEW n \in Namespaces,
           \/ PersistRemember(p, id, n) \/ PersistRaced(p, id, n) \/ UpdateContent(p, id, n)
           \/ UpdateNamespace(p, id, n) \/ DedupHit(p, id) \/ ForgetRead(p, id)
           \/ ForgetBySource(p, id) \/ ReconcileList(p, id) \/ ReapList(p, id)
    PROVE  OpStep /\ \A i \in Ids : NoOrphan(i)' <=> NoOrphan(i)
<1>0. TypeOK
  BY DEF RInv, IInv
<1>1. CASE PersistRemember(p, id, n)
  BY <1>0, <1>1 DEF PersistRemember, Begin, OpStep, TypeOK, Live, NoOrphan
<1>2. CASE PersistRaced(p, id, n) \/ DedupHit(p, id) \/ ReconcileList(p, id)
  BY <1>0, <1>2 DEF PersistRaced, DedupHit, ReconcileList, Begin, OpStep, TypeOK, Live, NoOrphan
<1>3. CASE UpdateContent(p, id, n)
  <2>1. row'[id].st = "live" /\ row'[id].ver = row[id].ver + 1 /\ orphan' = orphan
    BY <1>0, <1>3 DEF UpdateContent, TypeOK, Row, Live
  <2>2. QED
    BY <1>0, <1>3, <2>1 DEF UpdateContent, Begin, OpStep, TypeOK, Live, NoOrphan
<1>4. CASE UpdateNamespace(p, id, n)
  BY <1>0, <1>4 DEF UpdateNamespace, OpStep, NoOrphan
<1>5. CASE ForgetRead(p, id) \/ ForgetBySource(p, id)
  BY <1>0, <1>5 DEF ForgetRead, ForgetBySource, Begin, OpStep, TypeOK, Live, NoOrphan, NoRow
<1>6. CASE ReapList(p, id)
  BY <1>0, <1>6 DEF ReapList, Begin, OpStep, TypeOK, NoOrphan
<1>7. QED
  BY <1>1, <1>2, <1>3, <1>4, <1>5, <1>6

LEMMA ContinueSteps ==
    ASSUME RInv, NEW p \in Procs, Continue(p) \/ Failure(p)
    PROVE  /\ OpStep
           /\ \A i \in Ids : NoOrphan(i) /\ ~NoOrphan(i)' => op[p].id = i
           /\ op[p] # Idle
<1>0. TypeOK
  BY DEF RInv, IInv
<1>1. op[p] # Idle
  BY DEF Continue, Failure, At, BackfillProbe, UpdateReread, UpsertOk, Stamp,
         ClearMissingVector, ParkMissingVector, WarmDelete, ColdDeleteOk, ParkOrphan,
         BackfillLoad, ReapSettle, ReapFailed, EmbedEmpty, UpdateRequeue, EmbedFails,
         UpsertFails, ColdDeleteFails, Abort
<1>2. /\ op[p] \in Op /\ op[p].id \in Ids
  BY <1>0, <1>1, OpAt
<1>3. ASSUME NEW pc \in Steps \ {"probe", "reread", "upsert"}, Goto(p, pc) PROVE OpStep
  BY <1>0, <1>1, <1>3, GotoOp DEF OpStep
<1>4. ASSUME Finish(p) PROVE OpStep
  BY <1>0, <1>4, FinishOp DEF OpStep
<1>5. CASE BackfillProbe(p)
  <2>1. ASSUME Goto(p, "upsert") PROVE OpStep
    BY <1>0, <1>1, <1>5, <2>1, GotoOp DEF OpStep, BackfillProbe, At, Steps
  <2>2. QED
    BY <1>1, <1>4, <1>5, <2>1 DEF BackfillProbe, NoOrphan
<1>6. CASE UpdateReread(p)
  <2>1. CASE Live(op[p].id)
    <3> DEFINE o == [op[p] EXCEPT !.pc = "upsert", !.ns = row[op[p].id].ns]
    <3>1. op' = [op EXCEPT ![p] = o] /\ orphan' = orphan
      BY <1>6, <2>1 DEF UpdateReread
    <3>2. o.id = op[p].id /\ o.ver = op[p].ver
      BY <1>2 DEF Op
    <3>3. op[p].pc = "reread"
      BY <1>6 DEF UpdateReread, At
    <3> HIDE DEF o
    <3>4. QED
      BY <1>0, <1>1, <3>1, <3>2, <3>3 DEF OpStep, TypeOK, NoOrphan
  <2>2. CASE ~Live(op[p].id)
    BY <1>1, <1>4, <1>6, <2>2 DEF UpdateReread, NoOrphan
  <2>3. QED
    BY <2>1, <2>2
<1>7. CASE BackfillLoad(p)
  <2>1. CASE Live(op[p].id)
    <3> DEFINE o == [op[p] EXCEPT !.pc = "upsert", !.ver = row[op[p].id].ver]
    <3>1. op' = [op EXCEPT ![p] = o] /\ orphan' = orphan /\ row' = row
      BY <1>7, <2>1 DEF BackfillLoad
    <3>2. o.id = op[p].id /\ o.ver = row[op[p].id].ver
      BY <1>2 DEF Op
    <3> HIDE DEF o
    <3>3. QED
      BY <1>0, <1>1, <2>1, <3>1, <3>2 DEF OpStep, TypeOK, NoOrphan, Live
  <2>2. CASE ~Live(op[p].id)
    BY <1>1, <1>3, <1>7, <2>2 DEF BackfillLoad, NoOrphan, Steps
  <2>3. QED
    BY <2>1, <2>2
<1>8. CASE UpsertOk(p) \/ Stamp(p) \/ WarmDelete(p) \/ ColdDeleteOk(p) \/ EmbedFails(p)
           \/ UpsertFails(p) \/ ColdDeleteFails(p) \/ UpdateRequeue(p) \/ Abort(p)
  BY <1>1, <1>3, <1>4, <1>8
  DEF UpsertOk, Stamp, WarmDelete, ColdDeleteOk, EmbedFails, UpsertFails, ColdDeleteFails,
      UpdateRequeue, Abort, NoOrphan, Steps
<1>9. CASE ClearMissingVector(p) \/ ReapSettle(p) \/ ReapFailed(p)
  BY <1>0, <1>1, <1>2, <1>4, <1>9
  DEF ClearMissingVector, ReapSettle, ReapFailed, NoOrphan, Nothing, TypeOK, Orphan
<1>10. CASE ParkMissingVector(p) \/ ParkOrphan(p) \/ EmbedEmpty(p)
  BY <1>0, <1>1, <1>2, <1>4, <1>10
  DEF ParkMissingVector, ParkOrphan, EmbedEmpty, RecordMissingVector, RecordColdOrphan, NoOrphan,
      TypeOK, Orphan
<1>11. QED
  BY <1>5, <1>6, <1>7, <1>8, <1>9, <1>10 DEF Continue, Failure

LEMMA WordInit == Init => RInv
BY InvInit, VectorTierAssumption
DEF Init, RInv, RowWorded, OpWorded, VecWorded, FreshUntouched, Live, NoRow, Nothing, NoOrphan

LEMMA WordNext == ASSUME RInv, [Next]_vars PROVE RInv'
<1>0. /\ TypeOK /\ IInv' /\ TypeOK' /\ MaxVer \in Nat \ {0}
      /\ \A id \in Ids : row[id] \in Row /\ (row[id].st \in {"fresh", "live", "gone"})
                         /\ row[id].ver \in Nat
  BY InvNext, VectorTierAssumption DEF RInv, IInv, TypeOK, Row
<1>1. DataStep
  BY DataSteps
<1>2. \A id \in Ids : \/ row'[id] = row[id]
                      \/ vec' = vec /\ RowStep(id, row'[id])
  BY <1>0, <1>1 DEF DataStep, TypeOK
<1>3. \A id \in Ids, n \in Namespaces :
         vec'[id][n] = vec[id][n] \/ (row' = row /\ VecStep(id, n, vec'[id][n]))
  <2>1. ASSUME NEW i \in Ids, NEW m \in Namespaces, NEW v, vec' = [vec EXCEPT ![i][m] = v]
        PROVE  \A id \in Ids, n \in Namespaces :
                  vec'[id][n] = IF id = i /\ n = m THEN v ELSE vec[id][n]
    BY <1>0, <2>1 DEF TypeOK
  <2>2. CASE vec' = vec
    BY <2>2
  <2>3. CASE /\ row' = row
             /\ \E i \in Ids, m \in Namespaces, v \in Nat :
                   vec' = [vec EXCEPT ![i][m] = v] /\ VecStep(i, m, v)
    <3>1. PICK i \in Ids, m \in Namespaces, v \in Nat :
             vec' = [vec EXCEPT ![i][m] = v] /\ VecStep(i, m, v)
      BY <2>3
    <3>2. QED
      BY <2>1, <2>3, <3>1
  <2>4. QED
    BY <1>1, <2>2, <2>3 DEF DataStep
<1>4. /\ OpStep
      /\ \A id \in Ids : NoOrphan(id) /\ ~NoOrphan(id)' => \E p \in Procs : op[p] # Idle /\ op[p].id = id
  <2>1. CASE UNCHANGED vars
    BY <2>1 DEF vars, OpStep, NoOrphan
  <2>2. CASE Next
    <3>1. PICK n \in Namespaces : TRUE
      BY VectorTierAssumption
    <3>2. QED
      BY <2>2, <3>1, BeginSteps, ContinueSteps DEF Next, Request, Tick, Procs
  <2>3. QED
    BY <2>1, <2>2
<1>5. RowWorded'
  <2> SUFFICES ASSUME NEW id \in Ids
               PROVE  IF row'[id].st = "live" THEN row'[id].ver \in 1..MaxVer ELSE row'[id].ver = 0
    BY DEF RowWorded, Live
  <2>1. IF row[id].st = "live" THEN row[id].ver \in 1..MaxVer ELSE row[id].ver = 0
    BY DEF RInv, RowWorded, Live
  <2>2. QED
    BY <1>0, <1>2, <2>1 DEF RowStep, NoRow, Live
<1>6. \A id \in Ids : Live(id) /\ Live(id)' => row[id].ver <= row'[id].ver
  BY <1>0, <1>2 DEF RowStep, NoRow, Live
<1>7. \A id \in Ids : Live(id)' => Live(id) \/ row[id].st = "fresh"
  BY <1>2 DEF RowStep, NoRow, Live
<1>8. OpWorded'
  <2> SUFFICES ASSUME NEW q \in Procs, op'[q] # Idle, op'[q].pc \in {"probe", "reread", "upsert"}
               PROVE  /\ op'[q].ver \in 1..MaxVer
                      /\ row'[op'[q].id].st = "live" => op'[q].ver <= row'[op'[q].id].ver
    BY DEF OpWorded, Live
  <2>1. op'[q].id \in Ids
    BY <1>0 DEF TypeOK, Op
  <2>2. CASE /\ op[q] # Idle /\ op[q].pc \in {"probe", "reread", "upsert"}
             /\ op'[q].id = op[q].id /\ op'[q].ver = op[q].ver
    <3>1. op[q].ver \in 1..MaxVer /\ (Live(op[q].id) => op[q].ver <= row[op[q].id].ver)
      BY <2>2 DEF RInv, OpWorded
    <3>2. row[op[q].id].st # "fresh"
      BY <2>1, <2>2 DEF RInv, FreshUntouched
    <3>3. row[op[q].id].ver \in Nat /\ row'[op[q].id].ver \in Nat
      BY <1>0, <2>1, <2>2 DEF TypeOK, Row
    <3>4. QED
      BY <1>6, <1>7, <2>1, <2>2, <3>1, <3>2, <3>3 DEF Live
  <2>3. CASE row'[op'[q].id].st = "live" /\ op'[q].ver = row'[op'[q].id].ver
    BY <1>0, <1>5, <2>1, <2>3 DEF RowWorded, Live
  <2>4. QED
    BY <1>4, <2>2, <2>3 DEF OpStep
<1>9. VecWorded'
  <2> SUFFICES ASSUME NEW id \in Ids, NEW n \in Namespaces
               PROVE  /\ vec'[id][n] \in 0..MaxVer
                      /\ Live(id)' => vec'[id][n] <= row'[id].ver
    BY DEF VecWorded
  <2>1. /\ vec[id][n] \in 0..MaxVer
        /\ Live(id) => vec[id][n] <= row[id].ver
        /\ row[id].st = "fresh" => vec[id][n] = 0
    BY DEF RInv, VecWorded, FreshUntouched
  <2>2. CASE vec'[id][n] = vec[id][n]
    <3>1. row[id].ver \in Nat /\ row'[id].ver \in Nat
      BY <1>0 DEF TypeOK, Row
    <3>2. QED
      BY <1>6, <1>7, <2>1, <2>2, <3>1
  <2>3. CASE row' = row /\ VecStep(id, n, vec'[id][n])
    BY <1>0, <2>3 DEF VecStep, RInv, OpWorded, Live, Gone
  <2>4. QED
    BY <1>3, <2>2, <2>3
<1>10. FreshUntouched'
  <2> SUFFICES ASSUME NEW id \in Ids, row'[id].st = "fresh"
               PROVE  /\ \A n \in Namespaces : vec'[id][n] = 0
                      /\ NoOrphan(id)'
                      /\ \A p \in Procs : op'[p] # Idle => op'[p].id # id
    BY DEF FreshUntouched
  <2>1. row[id].st = "fresh"
    BY <1>2 DEF RowStep, NoRow
  <2>2. /\ \A n \in Namespaces : vec[id][n] = 0
        /\ NoOrphan(id)
        /\ \A p \in Procs : op[p] # Idle => op[p].id # id
    BY <2>1 DEF RInv, FreshUntouched
  <2>3. QED
    BY <1>3, <1>4, <2>1, <2>2 DEF VecStep, OpStep, Gone
<1>11. QED
  BY <1>0, <1>5, <1>8, <1>9, <1>10 DEF RInv

\* The steps of EntryLife on one entry, with the mapping of VectorTier spelled out.
LEMMA LifeRowStep ==
    ASSUME RInv, NEW id \in Ids, NEW r \in Row, row' = [row EXCEPT ![id] = r], vec' = vec,
           RowStep(id, r)
    PROVE  Life!Next \/ UNCHANGED Life!vars
<1> DEFINE wording == [i \in Ids |-> row[i].ver]
           life == [i \in Ids |-> Lived(i)]
           ind == [i \in Ids |-> {vec[i][n] : n \in Namespaces} \ {0}]
<1>0. /\ row \in [Ids -> Row] /\ row[id] \in Row /\ row[id].ver \in Nat
      /\ row[id].st \in {"fresh", "live", "gone"}
      /\ MaxVer \in Nat \ {0}
  BY VectorTierAssumption DEF RInv, IInv, TypeOK, Row
<1>1. /\ row'[id] = r
      /\ \A i \in Ids : i # id => row'[i] = row[i]
      /\ ind' = ind
  BY <1>0
<1>2. \A i \in Ids : i # id => Lived(i)' = Lived(i)
  BY <1>1 DEF Lived
<1>3. /\ life' = [life EXCEPT ![id] = Lived(id)']
      /\ wording' = [wording EXCEPT ![id] = r.ver]
      /\ life[id] = Lived(id) /\ wording[id] = row[id].ver
  <2>1. wording' = [wording EXCEPT ![id] = r.ver] /\ wording[id] = row[id].ver
    <3>1. wording' = [i \in Ids |-> row'[i].ver] /\ wording[id] = row[id].ver
      OBVIOUS
    <3>2. \A i \in Ids : row'[i].ver = IF i = id THEN r.ver ELSE row[i].ver
      BY <1>1
    <3>3. wording' = [wording EXCEPT ![id] = r.ver]
      BY <3>1, <3>2
    <3>4. QED
      BY <3>1, <3>3
  <2>2. life' = [i \in Ids |-> Lived(i)'] /\ life[id] = Lived(id)
    OBVIOUS
  <2>3. life' = [life EXCEPT ![id] = Lived(id)']
    BY <1>2, <2>2, Zenon
  <2>4. QED
    BY <2>1, <2>2, <2>3
<1>4. CASE row[id].st = "fresh" /\ r.st = "live" /\ r.ver = 1 /\ ~r.emb
  <2>1. Lived(id) = "absent" /\ Lived(id)' = "queued"
    BY <1>1, <1>4 DEF Lived
  <2>2. Life!Store(id)
    BY <1>1, <1>3, <1>4, <2>1 DEF Life!Store
  <2>3. QED
    BY <2>2 DEF Life!Next
<1>5. CASE Live(id) /\ r.st = "live" /\ r.ver = row[id].ver + 1 /\ r.ver <= MaxVer
           /\ r.emb = row[id].emb
  <2>1. Lived(id) \in {"queued", "embedded"} /\ Lived(id)' = Lived(id)
    BY <1>1, <1>5 DEF Lived, Live
  <2>2. life' = life
    BY <1>2, <2>1
  <2>3. row[id].ver + 1 \in 1..MaxVer
    BY <1>0, <1>5
  <2>4. Life!Reword(id)
    BY <1>1, <1>3, <1>5, <2>1, <2>2, <2>3 DEF Life!Reword, Life!Stored
  <2>5. QED
    BY <2>4 DEF Life!Next
<1>6. CASE Live(id) /\ r.st = "live" /\ r.ver = row[id].ver
           /\ (r.emb => row[id].emb \/ \E n \in Namespaces : vec[id][n] # 0)
  <2>1. /\ Lived(id) = IF row[id].emb THEN "embedded" ELSE "queued"
        /\ Lived(id)' = IF r.emb THEN "embedded" ELSE "queued"
    BY <1>1, <1>6 DEF Lived, Live
  <2>2. wording' = wording
    BY <1>1, <1>6
  <2>3. CASE r.emb /\ ~row[id].emb
    <3>1. ind[id] # {}
      BY <1>6, <2>3
    <3>2. Life!Embed(id)
      BY <1>1, <1>3, <2>1, <2>2, <2>3, <3>1 DEF Life!Embed
    <3>3. QED
      BY <3>2 DEF Life!Next
  <2>4. CASE ~r.emb /\ row[id].emb
    <3>1. Life!Requeue(id)
      BY <1>1, <1>3, <2>1, <2>2, <2>4 DEF Life!Requeue
    <3>2. QED
      BY <3>1 DEF Life!Next
  <2>5. CASE r.emb <=> row[id].emb
    <3>1. life' = life
      BY <1>2, <2>1, <2>5
    <3>2. QED
      BY <1>1, <2>2, <3>1 DEF Life!vars
  <2>6. QED
    BY <2>3, <2>4, <2>5
<1>7. CASE row[id].st # "fresh" /\ r = NoRow("gone")
  <2>1. Lived(id)' = "forgotten" /\ r.ver = 0
    BY <1>1, <1>7 DEF Lived, NoRow
  <2>2. CASE row[id].st = "live"
    <3>1. Lived(id) \in {"queued", "embedded"}
      BY <2>2 DEF Lived
    <3>2. Life!Forget(id)
      BY <1>1, <1>3, <2>1, <3>1 DEF Life!Forget, Life!Stored
    <3>3. QED
      BY <3>2 DEF Life!Next
  <2>3. CASE row[id].st = "gone"
    <3>1. Lived(id) = "forgotten" /\ row[id].ver = 0
      BY <2>3 DEF Lived, RInv, RowWorded, Live
    <3>2. life' = life /\ wording' = wording
      BY <1>1, <1>2, <2>1, <3>1
    <3>3. QED
      BY <1>1, <3>2 DEF Life!vars
  <2>4. QED
    BY <1>0, <1>7, <2>2, <2>3
<1>8. QED
  BY <1>4, <1>5, <1>6, <1>7 DEF RowStep

LEMMA LifeVecStep ==
    ASSUME RInv, NEW id \in Ids, NEW n \in Namespaces, NEW v \in Nat, row' = row,
           vec' = [vec EXCEPT ![id][n] = v], VecStep(id, n, v)
    PROVE  Life!Next \/ UNCHANGED Life!vars
<1> DEFINE wording == [i \in Ids |-> row[i].ver]
           life == [i \in Ids |-> Lived(i)]
           ind == [i \in Ids |-> {vec[i][m] : m \in Namespaces} \ {0}]
           old == vec[id][n]
           keep == {vec[id][m] : m \in Namespaces \ {n}} \ {0}
<1>0. /\ vec \in [Ids -> [Namespaces -> Nat]] /\ row[id] \in Row
      /\ row[id].st \in {"fresh", "live", "gone"}
      /\ MaxVer \in Nat \ {0}
  BY VectorTierAssumption DEF RInv, IInv, TypeOK, Row
<1>1. /\ \A i \in Ids : i # id => vec'[i] = vec[i]
      /\ \A m \in Namespaces : vec'[id][m] = IF m = n THEN v ELSE vec[id][m]
  BY <1>0
<1>2. life' = life /\ wording' = wording /\ life[id] = Lived(id) /\ wording[id] = row[id].ver
  BY DEF Lived
<1>3. ind' = [ind EXCEPT ![id] = keep \cup ({v} \ {0})]
  <2>1. \A i \in Ids : i # id => ind'[i] = ind[i]
    BY <1>1
  <2>2. ind'[id] = keep \cup ({v} \ {0})
    BY <1>1
  <2>3. QED
    BY <2>1, <2>2
<1>4. ind[id] = keep \cup ({old} \ {0})
  BY DEF keep
<1> HIDE DEF keep
<1>5. CASE Gone(id) /\ v = 0
  <2>1. Lived(id) = "forgotten"
    BY <1>5 DEF Lived, Gone
  <2>2. CASE old = 0 \/ old \in keep
    <3>1. ind' = ind
      BY <1>3, <1>4, <1>5, <2>2
    <3>2. QED
      BY <1>2, <3>1 DEF Life!vars
  <2>3. CASE old # 0 /\ old \notin keep
    <3>1. old \in ind[id] /\ keep = ind[id] \ {old}
      BY <1>4, <2>3
    <3>2. ind' = [ind EXCEPT ![id] = @ \ {old}]
      BY <1>3, <1>5, <3>1
    <3>3. Life!Unindex(id)
      BY <1>2, <2>1, <3>1, <3>2 DEF Life!Unindex
    <3>4. QED
      BY <3>3 DEF Life!Next
  <2>4. QED
    BY <2>2, <2>3
<1>6. CASE \E p \in Procs : op[p] # Idle /\ op[p].pc = "upsert" /\ op[p].id = id /\ op[p].ver = v
  <2>1. v \in 1..MaxVer /\ (Live(id) => v <= row[id].ver)
    BY <1>6 DEF RInv, OpWorded
  <2>2. row[id].st # "fresh"
    BY <1>6 DEF RInv, FreshUntouched
  <2>3. /\ Lived(id) # "absent"
        /\ Lived(id) \in {"queued", "embedded"} => Live(id)
    BY <1>0, <2>2 DEF Lived, Live
  <2>4. v # 0
    BY <2>1
  <2>5. ind' = [ind EXCEPT ![id] = keep \cup {v}]
    BY <1>3, <2>4
  <2>6. \E o \in ind[id] \cup {v} : ind' = [ind EXCEPT ![id] = (@ \ {o}) \cup {v}]
    <3>1. CASE old = 0 \/ old \in keep
      <4>1. (ind[id] \ {v}) \cup {v} = keep \cup {v}
        BY <1>4, <3>1
      <4>2. QED
        BY <2>5, <4>1
    <3>2. CASE old # 0 /\ old \notin keep
      <4>1. old \in ind[id] /\ (ind[id] \ {old}) \cup {v} = keep \cup {v}
        BY <1>4, <3>2
      <4>2. QED
        BY <2>5, <4>1
    <3>3. QED
      BY <3>1, <3>2
  <2>7. Life!Index(id, v)
    BY <1>2, <2>1, <2>3, <2>6 DEF Life!Index, Life!Stored
  <2>8. QED
    BY <2>1, <2>7 DEF Life!Next
<1>7. QED
  BY <1>5, <1>6 DEF VecStep

\* The write path implements EntryLife (ImplementsEntryLife), for any number of entries,
\* namespaces, handlers, reconcilers and reapers, and any number of failures.
THEOREM Refinement == Spec => ImplementsEntryLife
<1>1. Init => Life!Init
  <2> SUFFICES ASSUME Init PROVE Life!Init
    OBVIOUS
  <2>1. \A id \in Ids : Lived(id) = "absent" /\ row[id].ver = 0
    BY DEF Init, NoRow, Lived
  <2>2. \A id \in Ids : {vec[id][n] : n \in Namespaces} \ {0} = {}
    BY DEF Init
  <2>3. QED
    BY <2>1, <2>2 DEF Life!Init
<1>2. RInv /\ [Next]_vars => [Life!Next]_(Life!vars)
  <2> SUFFICES ASSUME RInv, [Next]_vars PROVE Life!Next \/ UNCHANGED Life!vars
    OBVIOUS
  <2>1. DataStep
    BY DataSteps
  <2>2. CASE row' = row /\ vec' = vec
    BY <2>2 DEF Life!vars, Lived
  <2>3. QED
    BY <2>1, <2>2, LifeRowStep, LifeVecStep DEF DataStep
<1>3. RInv /\ [Next]_vars => RInv'
  BY WordNext
<1>4. QED
  BY <1>1, <1>2, <1>3, WordInit, PTL DEF Spec, Life!Spec, ImplementsEntryLife

-----------------------------------------------------------------------------
(* Entries that nothing has disturbed: one operation at a time, and what it knows of *)
(* the entry is still so.                                                            *)

On(p, id) == op[p] # Idle /\ op[p].id = id
Quiet(id) == "disturbed" \notin mark[id]
Shelved(id, n) == \A m \in Namespaces : vec[id][m] # 0 => m = n
Empty(id) == \A n \in Namespaces : vec[id][n] = 0

\* Operation o is on entry id: what it read is what the stores hold.
Knows(id, o) ==
    /\ \/ o.job = "remember"  /\ o.pc \in {"upsert", "stamp", "park"}
       \/ o.job = "dedup"     /\ o.pc \in {"probe", "upsert", "clear"}
       \/ o.job = "update"    /\ o.pc \in {"reread", "upsert", "stamp"}
       \/ o.job = "forget"    /\ o.pc \in {"wdelete", "cdelete", "park"}
       \/ o.job = "reconcile" /\ o.pc \in {"upsert", "stamp", "clear"}
       \/ o.job = "reap"      /\ o.pc \in {"load", "cdelete", "upsert", "stamp", "settle", "failed"}
    /\ o.pc \in {"probe", "reread", "upsert", "stamp"} => Live(id) /\ o.ver = row[id].ver
    /\ o.pc \in {"probe", "reread", "upsert", "stamp", "wdelete"} => Live(id) /\ o.ns = row[id].ns
    /\ o.pc = "park" /\ o.job = "remember" => Live(id) /\ o.ns = row[id].ns
    /\ o.pc = "load" /\ Live(id) => o.ns = row[id].ns
    /\ o.pc = "clear" => Live(id)
    /\ o.pc = "stamp" => vec[id][o.ns] = o.ver

\* What is left of a forgotten entry is queued for deletion ...
Queued(id) ==
    \A n \in Namespaces : vec[id][n] # 0 => orphan[id].kind = "delete" /\ orphan[id].ns = n

\* ... or it is on the one shelf that o is about to clear, or to queue.
Cleaning(id, o) ==
    \/ /\ o.job = "forget" /\ o.pc \in {"cdelete", "park"}
       /\ NoOrphan(id) /\ Shelved(id, o.ns)
    \/ /\ o.job = "reap" /\ o.pc \in {"cdelete", "failed"}
       /\ orphan[id].kind = "delete" /\ Shelved(id, orphan[id].ns)
       /\ o.pc = "cdelete" => o.ns = orphan[id].ns
    \/ o.job = "reap" /\ o.pc = "settle" /\ Empty(id)

\* The entry id, while o is the one operation on it, or Idle when there is none.
Sound(id, o) ==
    /\ Live(id) => Shelved(id, row[id].ns)
    /\ Live(id) /\ orphan[id].kind = "backfill" => orphan[id].ns = row[id].ns
    /\ Live(id) /\ row[id].emb /\ "reindex" \notin mark[id]
        => \/ vec[id][row[id].ns] = row[id].ver
           \/ o # Idle /\ o.job = "update" /\ o.pc \in {"reread", "upsert"}
    /\ "parked" \notin mark[id] => orphan[id].kind # "backfill"
    /\ "parked" \notin mark[id] /\ Live(id) /\ o # Idle => o.job # "reap"
    /\ "parked" \notin mark[id] /\ Gone(id) => IF o = Idle THEN Queued(id) ELSE Cleaning(id, o)
    /\ o # Idle => Knows(id, o)

Calm(id) ==
    Quiet(id) =>
        \/ (\A q \in Procs : ~On(q, id)) /\ Sound(id, Idle)
        \/ \E p \in Procs :
              On(p, id) /\ (\A q \in Procs \ {p} : ~On(q, id)) /\ Sound(id, op[p])

CalmInv == RInv /\ \A id \in Ids : Calm(id)

LEMMA OpNotIdle == \A o \in Op : o # Idle
BY DEF Op, Idle, Steps

\* A step that leaves an entry and the operations on it alone.
Spared(id) ==
    /\ row'[id] = row[id] /\ vec'[id] = vec[id] /\ orphan'[id] = orphan[id]
    /\ mark'[id] = mark[id]
    /\ \A q \in Procs : On(q, id) \/ On(q, id)' => op'[q] = op[q]

LEMMA SparedStaysCalm ==
    ASSUME NEW id \in Ids, Calm(id), Spared(id)
    PROVE  Calm(id)'
<1>1. \A q \in Procs : On(q, id)' <=> On(q, id)
  BY DEF Spared, On
<1>3. Sound(id, Idle) => Sound(id, Idle)'
  BY DEF Spared, Sound, Live, Gone, Shelved, Queued
<1>4. ASSUME NEW p \in Procs, On(p, id), Sound(id, op[p]) PROVE Sound(id, op[p])'
  <2>1. op'[p] = op[p]
    BY <1>4 DEF Spared
  <2>2. QED
    BY <1>4, <2>1
    DEF Spared, Sound, Live, Gone, Shelved, Queued, Knows, Cleaning, NoOrphan, Empty
<1>5. Quiet(id)' => Quiet(id)
  BY DEF Spared, Quiet
<1>6. QED
  BY <1>1, <1>3, <1>4, <1>5 DEF Calm

\* A step of the operation on the entry.
LEMMA ContinuesCalm ==
    ASSUME NEW id \in Ids, NEW p \in Procs, Calm(id), On(p, id),
           \A q \in Procs \ {p} : op'[q] = op[q],
           op'[p] = Idle \/ On(p, id)',
           mark[id] \subseteq mark'[id],
           Quiet(id)' /\ Sound(id, op[p]) => Sound(id, op[p])'
    PROVE  Calm(id)'
<1> SUFFICES ASSUME Quiet(id)'
             PROVE  \/ (\A q \in Procs : ~On(q, id)') /\ Sound(id, Idle)'
                    \/ \E r \in Procs :
                         On(r, id)' /\ (\A q \in Procs \ {r} : ~On(q, id)') /\ Sound(id, op[r])'
  BY DEF Calm
<1>1. Quiet(id)
  BY DEF Quiet
<1>2. (\A q \in Procs \ {p} : ~On(q, id)) /\ Sound(id, op[p])
  BY <1>1 DEF Calm
<1>3. \A q \in Procs \ {p} : ~On(q, id)'
  BY <1>2 DEF On
<1>4. Sound(id, op[p])'
  BY <1>2
<1>5. CASE op'[p] = Idle
  <2>1. Sound(id, Idle)'
    BY <1>4, <1>5 DEF Sound
  <2>2. QED
    BY <1>3, <1>5, <2>1 DEF On
<1>6. QED
  BY <1>3, <1>4, <1>5

\* A process takes the entry up.
LEMMA StartsCalm ==
    ASSUME TypeOK, NEW id \in Ids, NEW p \in Procs, Calm(id), NEW o \in Op, o.id = id,
           NEW ms \in SUBSET Marks, Begin(p, o, ms),
           Quiet(id)' /\ Quiet(id) /\ ms \cap {"disturbed"} = {} /\ Sound(id, Idle)
               /\ mark'[id] = mark[id] \cup ms /\ op'[p] = o
             => Sound(id, op[p])'
    PROVE  Calm(id)'
<1> SUFFICES ASSUME Quiet(id)' PROVE Calm(id)'
  BY DEF Calm
<1>1. /\ op'[p] = o /\ op' = [op EXCEPT ![p] = o]
      /\ mark'[id] = mark[id] \cup ms \cup IF Busy(id) THEN {"disturbed"} ELSE {}
  BY DEF Begin, Marked, TypeOK
<1>2. ~Busy(id) /\ Quiet(id) /\ "disturbed" \notin ms
  BY <1>1 DEF Quiet
<1>3. \A q \in Procs : ~On(q, id)
  BY <1>2 DEF Busy, On
<1>4. Sound(id, Idle)
  BY <1>2, <1>3 DEF Calm
<1>5. Sound(id, op[p])'
  BY <1>1, <1>2, <1>4
<1>6. On(p, id)' /\ \A q \in Procs \ {p} : ~On(q, id)'
  BY <1>1, <1>3, OpNotIdle DEF On, TypeOK
<1>7. QED
  BY <1>5, <1>6 DEF Calm

\* The same for every entry: the operation's own goes on, the others are spared.
LEMMA StepCalm ==
    ASSUME \A id \in Ids : Calm(id), NEW e \in Ids, NEW p \in Procs, On(p, e),
           \A q \in Procs \ {p} : op'[q] = op[q],
           op'[p] = Idle \/ On(p, e)',
           \A id \in Ids \ {e} :
               /\ row'[id] = row[id] /\ vec'[id] = vec[id] /\ orphan'[id] = orphan[id]
               /\ mark'[id] = mark[id],
           mark[e] \subseteq mark'[e],
           Quiet(e)' /\ Sound(e, op[p]) => Sound(e, op[p])'
    PROVE  \A id \in Ids : Calm(id)'
<1> SUFFICES ASSUME NEW id \in Ids PROVE Calm(id)'
  OBVIOUS
<1>1. CASE id = e
  BY <1>1, ContinuesCalm
<1>2. CASE id # e
  <2>1. Spared(id)
    BY <1>2 DEF Spared, On
  <2>2. QED
    BY <2>1, SparedStaysCalm
<1>3. QED
  BY <1>1, <1>2

\* A start: the entry taken up, and the others.
LEMMA StartCalm ==
    ASSUME TypeOK, \A id \in Ids : Calm(id), NEW p \in Procs, NEW o \in Op,
           NEW ms \in SUBSET Marks, Begin(p, o, ms),
           \A id \in Ids \ {o.id} :
               row'[id] = row[id] /\ vec'[id] = vec[id] /\ orphan'[id] = orphan[id],
           Quiet(o.id)' /\ ms \cap {"disturbed"} = {} /\ Sound(o.id, Idle)
               /\ mark'[o.id] = mark[o.id] \cup ms /\ op'[p] = o
             => Sound(o.id, op[p])'
    PROVE  \A id \in Ids : Calm(id)'
<1> SUFFICES ASSUME NEW id \in Ids PROVE Calm(id)'
  OBVIOUS
<1>0. o.id \in Ids
  BY DEF Op
<1>1. CASE id = o.id
  BY <1>1, StartsCalm
<1>2. CASE id # o.id
  <2>1. op' = [op EXCEPT ![p] = o] /\ op[p] = Idle /\ mark'[id] = mark[id]
    BY <1>0, <1>2 DEF Begin, Marked, TypeOK
  <2>2. \A q \in Procs : On(q, id) \/ On(q, id)' => op'[q] = op[q]
    BY <1>2, <2>1 DEF On, TypeOK
  <2>3. Spared(id)
    BY <1>2, <2>1, <2>2 DEF Spared
  <2>4. QED
    BY <2>3, SparedStaysCalm
<1>3. QED
  BY <1>1, <1>2

LEMMA OpMoves ==
    ASSUME TypeOK, NEW p \in Procs, op[p] # Idle, NEW pc \in Steps, Goto(p, pc)
    PROVE  /\ op'[p] # Idle /\ op'[p].pc = pc
           /\ op'[p].job = op[p].job /\ op'[p].id = op[p].id
           /\ op'[p].ver = op[p].ver /\ op'[p].ns = op[p].ns
           /\ \A q \in Procs \ {p} : op'[q] = op[q]
BY GotoOp DEF Steps, Idle

LEMMA CalmSteps ==
    ASSUME RInv, \A id \in Ids : Calm(id), NEW p \in Procs, Continue(p)
    PROVE  \A id \in Ids : Calm(id)'
<1> USE DEF At, Fail
<1>0. TypeOK /\ RInv /\ IInv
  BY DEF RInv, IInv
<1> PICK e \in Ids : On(p, e)
  BY <1>0, OpAt
  DEF Continue, On, BackfillProbe, UpdateReread, UpsertOk, Stamp, ClearMissingVector,
      ParkMissingVector, WarmDelete, ColdDeleteOk, ParkOrphan, BackfillLoad, ReapSettle, ReapFailed
<1>e. op[p] # Idle /\ op[p].id = e
  BY DEF On
<1>1. CASE BackfillProbe(p)
  <2>1. /\ \A q \in Procs \ {p} : op'[q] = op[q]
        /\ \/ op'[p] = Idle
           \/ /\ op'[p] # Idle /\ op'[p].pc = "upsert"
              /\ op'[p].job = op[p].job /\ op'[p].id = e
              /\ op'[p].ver = op[p].ver /\ op'[p].ns = op[p].ns
    BY <1>0, <1>e, <1>1, OpMoves, FinishOp, OpAt DEF BackfillProbe, Steps, TypeOK
  <2>3. Quiet(e)' /\ Sound(e, op[p]) => Sound(e, op[p])'
    BY <1>0, <1>e, <1>1, <2>1 DEF BackfillProbe, Sound, Live, Gone, Shelved, Knows, Cleaning
  <2>4. QED
    BY <1>0, <1>e, <1>1, <2>1, <2>3, StepCalm DEF BackfillProbe, On
<1>2. CASE UpdateReread(p)
  <2>1. /\ \A q \in Procs \ {p} : op'[q] = op[q]
        /\ \/ op'[p] = Idle /\ ~Live(e)
           \/ /\ op'[p] # Idle /\ op'[p].pc = "upsert" /\ op'[p].job = op[p].job
              /\ op'[p].id = e /\ op'[p].ver = op[p].ver /\ op'[p].ns = row[e].ns
    BY <1>0, <1>e, <1>2, OpMoves, FinishOp, OpAt DEF UpdateReread, Steps, TypeOK, Op, Idle
  <2>3. Quiet(e)' /\ Sound(e, op[p]) => Sound(e, op[p])'
    BY <1>0, <1>e, <1>2, <2>1 DEF UpdateReread, Sound, Live, Gone, Shelved, Knows, Cleaning
  <2>4. QED
    BY <1>0, <1>e, <1>2, <2>1, <2>3, StepCalm DEF UpdateReread, On
<1>3. CASE UpsertOk(p)
  <2>1. /\ \A q \in Procs \ {p} : op'[q] = op[q]
        /\ op'[p] # Idle /\ op'[p].pc = IF op[p].job = "dedup" THEN "clear" ELSE "stamp"
        /\ op'[p].job = op[p].job /\ op'[p].id = e /\ op'[p].ver = op[p].ver /\ op'[p].ns = op[p].ns
    BY <1>0, <1>e, <1>3, OpMoves, FinishOp, OpAt DEF UpsertOk, Steps, TypeOK
  <2>2. /\ \A id \in Ids \ {e} : vec'[id] = vec[id]
        /\ \A n \in Namespaces : vec'[e][n] = IF n = op[p].ns THEN op[p].ver ELSE vec[e][n]
    BY <1>0, <1>e, <1>3, OpAt DEF UpsertOk, TypeOK
  <2>9. /\ op[p].ns \in Namespaces
        /\ Sound(e, op[p]) => Live(e) /\ op[p].ns = row[e].ns /\ op[p].ver = row[e].ver
    BY <1>0, <1>e, <1>3, OpAt DEF UpsertOk, Sound, Knows
  <2>3. Quiet(e)' /\ Sound(e, op[p]) => Sound(e, op[p])'
    BY <1>0, <1>e, <1>3, <2>1, <2>2, <2>9
    DEF UpsertOk, Sound, Live, Gone, Shelved, Knows, Cleaning
  <2>4. QED
    BY <1>0, <1>e, <1>3, <2>1, <2>2, <2>3, StepCalm DEF UpsertOk, On
<1>4. CASE Stamp(p)
  <2>1. /\ \A q \in Procs \ {p} : op'[q] = op[q]
        /\ \/ op'[p] = Idle
           \/ /\ op'[p] # Idle /\ op'[p].job = op[p].job /\ op'[p].id = e
              /\ \/ op[p].job = "reconcile" /\ op'[p].pc = "clear"
                 \/ op[p].job = "reap" /\ op'[p].pc = "settle"
    BY <1>0, <1>e, <1>4, OpMoves, FinishOp, OpAt DEF Stamp, Steps, TypeOK
  <2>2. /\ row'[e].st = row[e].st /\ row'[e].ver = row[e].ver /\ row'[e].ns = row[e].ns
        /\ \A id \in Ids \ {e} : row'[id] = row[id]
    BY <1>0, <1>e, <1>4, OpAt DEF Stamp, TypeOK, SetEmbedded, Row
  <2>3. Quiet(e)' /\ Sound(e, op[p]) => Sound(e, op[p])'
    BY <1>0, <1>e, <1>4, <2>1, <2>2 DEF Stamp, Sound, Live, Gone, Shelved, Knows, Cleaning
  <2>4. QED
    BY <1>0, <1>e, <1>4, <2>1, <2>2, <2>3, StepCalm DEF Stamp, On
<1>5. CASE ClearMissingVector(p)
  <2>1. /\ \A q \in Procs \ {p} : op'[q] = op[q]
        /\ op'[p] = Idle
    BY <1>0, <1>e, <1>5, OpMoves, FinishOp, OpAt DEF ClearMissingVector, Steps, TypeOK
  <2>2. /\ \A id \in Ids \ {e} : orphan'[id] = orphan[id]
        /\ orphan'[e] = IF orphan[e].kind = "backfill" THEN Nothing ELSE orphan[e]
    BY <1>0, <1>e, <1>5, OpAt DEF ClearMissingVector, TypeOK
  <2>3. Quiet(e)' /\ Sound(e, op[p]) => Sound(e, op[p])'
    BY <1>0, <1>e, <1>5, <2>1, <2>2
    DEF ClearMissingVector, Sound, Live, Gone, Shelved, Knows, Cleaning, Nothing
  <2>4. QED
    BY <1>0, <1>e, <1>5, <2>1, <2>2, <2>3, StepCalm DEF ClearMissingVector, On
<1>6. CASE ParkMissingVector(p)
  <2>1. /\ \A q \in Procs \ {p} : op'[q] = op[q]
        /\ op'[p] = Idle
    BY <1>0, <1>e, <1>6, OpMoves, FinishOp, OpAt DEF ParkMissingVector, Steps, TypeOK
  <2>2. /\ \A id \in Ids \ {e} : orphan'[id] = orphan[id] /\ mark'[id] = mark[id]
        /\ orphan'[e].kind = "backfill" /\ orphan'[e].ns = op[p].ns
        /\ mark'[e] = mark[e] \cup {"parked"}
    BY <1>0, <1>e, <1>6, OpAt DEF ParkMissingVector, TypeOK, RecordMissingVector, Marked, Orphan
  <2>3. Quiet(e)' /\ Sound(e, op[p]) => Sound(e, op[p])'
    BY <1>0, <1>e, <1>6, <2>1, <2>2
    DEF ParkMissingVector, Sound, Live, Gone, Shelved, Knows, Cleaning
  <2>4. QED
    BY <1>0, <1>e, <1>6, <2>1, <2>2, <2>3, StepCalm DEF ParkMissingVector, On
<1>7. CASE WarmDelete(p)
  <2>1. /\ \A q \in Procs \ {p} : op'[q] = op[q]
        /\ op'[p] # Idle /\ op'[p].pc = "cdelete"
        /\ op'[p].job = op[p].job /\ op'[p].id = e /\ op'[p].ver = op[p].ver /\ op'[p].ns = op[p].ns
    BY <1>0, <1>e, <1>7, OpMoves, FinishOp, OpAt DEF WarmDelete, Steps, TypeOK
  <2>2. row'[e] = NoRow("gone") /\ \A id \in Ids \ {e} : row'[id] = row[id]
    BY <1>0, <1>e, <1>7, OpAt DEF WarmDelete, TypeOK
  <2>9. /\ orphan[e].kind \in {"none", "backfill"} \/ Gone(e)
        /\ Sound(e, op[p]) => Live(e) /\ op[p].ns = row[e].ns /\ op[p].job = "forget"
    BY <1>0, <1>e, <1>7
    DEF WarmDelete, Sound, Knows, IInv, DeleteOwedWhenGone, TypeOK, Orphan, Kinds
  <2>3. Quiet(e)' /\ Sound(e, op[p]) => Sound(e, op[p])'
    BY <1>0, <1>e, <1>7, <2>1, <2>2, <2>9
    DEF WarmDelete, Sound, Live, Gone, Shelved, Knows, Cleaning, NoRow, NoOrphan
  <2>4. QED
    BY <1>0, <1>e, <1>7, <2>1, <2>2, <2>3, StepCalm DEF WarmDelete, On
<1>8. CASE ColdDeleteOk(p)
  <2>1. /\ \A q \in Procs \ {p} : op'[q] = op[q]
        /\ \/ op'[p] = Idle /\ op[p].job # "reap"
           \/ /\ op'[p] # Idle /\ op'[p].pc = "settle" /\ op[p].job = "reap"
              /\ op'[p].job = op[p].job /\ op'[p].id = e
              /\ op'[p].ver = op[p].ver /\ op'[p].ns = op[p].ns
    BY <1>0, <1>e, <1>8, OpMoves, FinishOp, OpAt DEF ColdDeleteOk, Steps, TypeOK
  <2>2. /\ \A id \in Ids \ {e} : vec'[id] = vec[id]
        /\ \A n \in Namespaces : vec'[e][n] = IF n = op[p].ns THEN 0 ELSE vec[e][n]
    BY <1>0, <1>e, <1>8, OpAt DEF ColdDeleteOk, TypeOK
  <2>9. Gone(e)
    BY <1>0, <1>e, <1>8 DEF ColdDeleteOk, IInv, DeletesWhenGone
  <2>3. Quiet(e)' /\ Sound(e, op[p]) => Sound(e, op[p])'
    BY <1>0, <1>e, <1>8, <2>1, <2>2, <2>9
    DEF ColdDeleteOk, Sound, Live, Gone, Shelved, Knows, Cleaning, Queued, Empty, NoOrphan
  <2>4. QED
    BY <1>0, <1>e, <1>8, <2>1, <2>2, <2>3, StepCalm DEF ColdDeleteOk, On
<1>9. CASE ParkOrphan(p)
  <2>1. /\ \A q \in Procs \ {p} : op'[q] = op[q]
        /\ op'[p] = Idle
    BY <1>0, <1>e, <1>9, OpMoves, FinishOp, OpAt DEF ParkOrphan, Steps, TypeOK
  <2>2. /\ \A id \in Ids \ {e} : orphan'[id] = orphan[id]
        /\ NoOrphan(e) => orphan'[e].kind = "delete" /\ orphan'[e].ns = op[p].ns
        /\ orphan'[e].kind = "backfill" => orphan[e].kind = "backfill"
    BY <1>0, <1>e, <1>9, OpAt DEF ParkOrphan, TypeOK, RecordColdOrphan, NoOrphan, Orphan
  <2>9. Gone(e)
    BY <1>0, <1>e, <1>9 DEF ParkOrphan, IInv, DeletesWhenGone
  <2>3. Quiet(e)' /\ Sound(e, op[p]) => Sound(e, op[p])'
    BY <1>0, <1>e, <1>9, <2>1, <2>2, <2>9
    DEF ParkOrphan, Sound, Live, Gone, Shelved, Knows, Cleaning, Queued, NoOrphan
  <2>4. QED
    BY <1>0, <1>e, <1>9, <2>1, <2>2, <2>3, StepCalm DEF ParkOrphan, On
<1>10. CASE BackfillLoad(p)
  <2>1. /\ \A q \in Procs \ {p} : op'[q] = op[q]
        /\ op'[p] # Idle /\ op'[p].job = op[p].job /\ op'[p].id = e /\ op'[p].ns = op[p].ns
        /\ \/ op'[p].pc = "upsert" /\ op'[p].ver = row[e].ver /\ Live(e)
           \/ op'[p].pc = "failed" /\ ~Live(e)
    BY <1>0, <1>e, <1>10, OpMoves, FinishOp, OpAt DEF BackfillLoad, Steps, TypeOK, Op, Idle
  <2>3. Quiet(e)' /\ Sound(e, op[p]) => Sound(e, op[p])'
    BY <1>0, <1>e, <1>10, <2>1 DEF BackfillLoad, Sound, Live, Gone, Shelved, Knows, Cleaning
  <2>4. QED
    BY <1>0, <1>e, <1>10, <2>1, <2>3, StepCalm DEF BackfillLoad, On
<1>11. CASE ReapSettle(p)
  <2>1. /\ \A q \in Procs \ {p} : op'[q] = op[q]
        /\ op'[p] = Idle
    BY <1>0, <1>e, <1>11, OpMoves, FinishOp, OpAt DEF ReapSettle, Steps, TypeOK
  <2>2. /\ \A id \in Ids \ {e} : orphan'[id] = orphan[id]
        /\ orphan'[e] = Nothing
    BY <1>0, <1>e, <1>11, OpAt DEF ReapSettle, TypeOK
  <2>3. Quiet(e)' /\ Sound(e, op[p]) => Sound(e, op[p])'
    BY <1>0, <1>e, <1>11, <2>1, <2>2
    DEF ReapSettle, Sound, Live, Gone, Shelved, Knows, Cleaning, Nothing, Queued, Empty
  <2>4. QED
    BY <1>0, <1>e, <1>11, <2>1, <2>2, <2>3, StepCalm DEF ReapSettle, On
<1>12. CASE ReapFailed(p)
  <2>1. /\ \A q \in Procs \ {p} : op'[q] = op[q]
        /\ op'[p] = Idle
    BY <1>0, <1>e, <1>12, OpMoves, FinishOp, OpAt DEF ReapFailed, Steps, TypeOK
  <2>2. /\ \A id \in Ids \ {e} : orphan'[id] = orphan[id]
        /\ orphan'[e].kind = orphan[e].kind /\ orphan'[e].ns = orphan[e].ns
    BY <1>0, <1>e, <1>12, OpAt DEF ReapFailed, TypeOK, Orphan, NoOrphan
  <2>3. Quiet(e)' /\ Sound(e, op[p]) => Sound(e, op[p])'
    BY <1>0, <1>e, <1>12, <2>1, <2>2
    DEF ReapFailed, Sound, Live, Gone, Shelved, Knows, Cleaning, Queued
  <2>4. QED
    BY <1>0, <1>e, <1>12, <2>1, <2>2, <2>3, StepCalm DEF ReapFailed, On
<1>13. QED
  BY <1>1, <1>2, <1>3, <1>4, <1>5, <1>6, <1>7, <1>8, <1>9, <1>10, <1>11, <1>12 DEF Continue

LEMMA CalmFailures ==
    ASSUME RInv, \A id \in Ids : Calm(id), NEW p \in Procs, Failure(p)
    PROVE  \A id \in Ids : Calm(id)'
<1> USE DEF At, Fail
<1>0. TypeOK /\ RInv /\ IInv
  BY DEF RInv, IInv
<1> PICK e \in Ids : On(p, e)
  BY <1>0, OpAt
  DEF Failure, On, EmbedEmpty, UpdateRequeue, EmbedFails, UpsertFails, ColdDeleteFails, Abort
<1>e. op[p] # Idle /\ op[p].id = e
  BY DEF On
<1>1. CASE EmbedEmpty(p)
  <2>1. /\ \A q \in Procs \ {p} : op'[q] = op[q]
        /\ op'[p] = Idle
    BY <1>0, <1>e, <1>1, OpMoves, FinishOp, OpAt DEF EmbedEmpty, Steps, TypeOK
  <2>2. /\ \A id \in Ids \ {e} : orphan'[id] = orphan[id] /\ mark'[id] = mark[id]
        /\ orphan'[e].kind = "backfill" /\ orphan'[e].ns = op[p].ns
        /\ mark'[e] = mark[e] \cup {"parked"}
    BY <1>0, <1>e, <1>1, OpAt DEF EmbedEmpty, TypeOK, RecordMissingVector, Marked, Orphan
  <2>3. Quiet(e)' /\ Sound(e, op[p]) => Sound(e, op[p])'
    BY <1>0, <1>e, <1>1, <2>1, <2>2 DEF EmbedEmpty, Sound, Live, Gone, Shelved, Knows, Cleaning
  <2>4. QED
    BY <1>0, <1>e, <1>1, <2>1, <2>2, <2>3, StepCalm DEF EmbedEmpty, On
<1>2. CASE UpdateRequeue(p)
  <2>1. /\ \A q \in Procs \ {p} : op'[q] = op[q]
        /\ op'[p] = Idle
    BY <1>0, <1>e, <1>2, OpMoves, FinishOp, OpAt DEF UpdateRequeue, Steps, TypeOK
  <2>2. /\ \A id \in Ids \ {e} : row'[id] = row[id]
        /\ row'[e].st = row[e].st /\ row'[e].ver = row[e].ver /\ row'[e].ns = row[e].ns
        /\ Live(e) => ~row'[e].emb
    BY <1>0, <1>e, <1>2, OpAt DEF UpdateRequeue, TypeOK, SetEmbedded, Row, Live
  <2>3. Quiet(e)' /\ Sound(e, op[p]) => Sound(e, op[p])'
    BY <1>0, <1>e, <1>2, <2>1, <2>2 DEF UpdateRequeue, Sound, Live, Gone, Shelved, Knows, Cleaning
  <2>4. QED
    BY <1>0, <1>e, <1>2, <2>1, <2>2, <2>3, StepCalm DEF UpdateRequeue, On
<1>3. CASE EmbedFails(p)
  <2>1. /\ \A q \in Procs \ {p} : op'[q] = op[q]
        /\ \/ op'[p] = Idle
           \/ /\ op'[p] # Idle /\ op'[p].pc = "failed" /\ op[p].job = "reap"
              /\ op'[p].job = op[p].job /\ op'[p].id = e
              /\ op'[p].ver = op[p].ver /\ op'[p].ns = op[p].ns
    BY <1>0, <1>e, <1>3, OpMoves, FinishOp, OpAt DEF EmbedFails, Steps, TypeOK
  <2>3. Quiet(e)' /\ Sound(e, op[p]) => Sound(e, op[p])'
    BY <1>0, <1>e, <1>3, <2>1 DEF EmbedFails, Sound, Live, Gone, Shelved, Knows, Cleaning
  <2>4. QED
    BY <1>0, <1>e, <1>3, <2>1, <2>3, StepCalm DEF EmbedFails, On
<1>4. CASE UpsertFails(p)
  <2>1. /\ \A q \in Procs \ {p} : op'[q] = op[q]
        /\ \/ op'[p] = Idle
           \/ /\ op'[p] # Idle /\ op'[p].job = op[p].job /\ op'[p].id = e /\ op'[p].ns = op[p].ns
              /\ \/ op[p].job = "remember" /\ op'[p].pc = "park"
                 \/ op[p].job = "reap" /\ op'[p].pc = "failed"
    BY <1>0, <1>e, <1>4, OpMoves, FinishOp, OpAt DEF UpsertFails, Steps, TypeOK
  <2>2. /\ \A id \in Ids \ {e} : vec'[id] = vec[id] /\ mark'[id] = mark[id]
        /\ mark'[e] = mark[e] \cup IF op[p].job = "update" THEN {"reindex"} ELSE {}
        /\ \/ \A n \in Namespaces : vec'[e][n] = IF n = op[p].ns THEN op[p].ver ELSE vec[e][n]
           \/ vec'[e] = vec[e]
    BY <1>0, <1>e, <1>4, OpAt DEF UpsertFails, TypeOK, Marked
  <2>3. Quiet(e)' /\ Sound(e, op[p]) => Sound(e, op[p])'
    BY <1>0, <1>e, <1>4, <2>1, <2>2 DEF UpsertFails, Sound, Live, Gone, Shelved, Knows, Cleaning
  <2>4. QED
    BY <1>0, <1>e, <1>4, <2>1, <2>2, <2>3, StepCalm DEF UpsertFails, On
<1>5. CASE ColdDeleteFails(p)
  <2>1. /\ \A q \in Procs \ {p} : op'[q] = op[q]
        /\ op'[p] # Idle /\ op'[p].pc = IF op[p].job = "reap" THEN "failed" ELSE "park"
        /\ op'[p].job = op[p].job /\ op'[p].id = e /\ op'[p].ver = op[p].ver /\ op'[p].ns = op[p].ns
    BY <1>0, <1>e, <1>5, OpMoves, FinishOp, OpAt DEF ColdDeleteFails, Steps, TypeOK
  <2>2. /\ \A id \in Ids \ {e} : vec'[id] = vec[id]
        /\ \/ \A n \in Namespaces : vec'[e][n] = IF n = op[p].ns THEN 0 ELSE vec[e][n]
           \/ vec'[e] = vec[e]
    BY <1>0, <1>e, <1>5, OpAt DEF ColdDeleteFails, TypeOK
  <2>9. Gone(e)
    BY <1>0, <1>e, <1>5 DEF ColdDeleteFails, IInv, DeletesWhenGone
  <2>3. Quiet(e)' /\ Sound(e, op[p]) => Sound(e, op[p])'
    BY <1>0, <1>e, <1>5, <2>1, <2>2, <2>9
    DEF ColdDeleteFails, Sound, Live, Gone, Shelved, Knows, Cleaning, Queued, Empty, NoOrphan
  <2>4. QED
    BY <1>0, <1>e, <1>5, <2>1, <2>2, <2>3, StepCalm DEF ColdDeleteFails, On
<1>6. CASE Abort(p)
  <2>1. /\ \A q \in Procs \ {p} : op'[q] = op[q]
        /\ op'[p] = Idle
    BY <1>0, <1>e, <1>6, OpMoves, FinishOp, OpAt DEF Abort, Steps, TypeOK
  <2>2. /\ \A id \in Ids \ {e} : mark'[id] = mark[id]
        /\ mark'[e] = mark[e] \cup {"disturbed"}
    BY <1>0, <1>e, <1>6, OpAt DEF Abort, TypeOK, Marked
  <2>3. Quiet(e)' /\ Sound(e, op[p]) => Sound(e, op[p])'
    BY <1>0, <1>e, <1>6, <2>1, <2>2 DEF Abort, Sound, Live, Gone, Shelved, Knows, Cleaning, Quiet
  <2>4. QED
    BY <1>0, <1>e, <1>6, <2>1, <2>2, <2>3, StepCalm DEF Abort, On
<1>7. QED
  BY <1>1, <1>2, <1>3, <1>4, <1>5, <1>6 DEF Failure

LEMMA CalmRequests ==
    ASSUME RInv, \A id \in Ids : Calm(id), NEW p \in Procs, NEW e \in Ids, NEW n \in Namespaces,
           \/ DedupHit(p, e) \/ ForgetRead(p, e) \/ ForgetBySource(p, e)
           \/ PersistRemember(p, e, n) \/ PersistRaced(p, e, n)
           \/ UpdateContent(p, e, n) \/ UpdateNamespace(p, e, n)
           \/ ReconcileList(p, e) \/ ReapList(p, e)
    PROVE  \A id \in Ids : Calm(id)'
<1>0. TypeOK /\ RInv /\ IInv /\ row[e] \in Row /\ orphan[e] \in Orphan
  BY DEF RInv, IInv, TypeOK
<1>1. CASE DedupHit(p, e)
  <2> DEFINE o == [job |-> "dedup", pc |-> "probe", id |-> e, ver |-> row[e].ver,
                 ns |-> row[e].ns, att |-> 0]
  <2>1. o \in Op /\ o.id = e /\ {} \in SUBSET Marks /\ Begin(p, o, {})
    BY <1>0, <1>1 DEF DedupHit, Op, Jobs, Steps, Row, Orphan, Marks
  <2>3. Sound(e, Idle) /\ mark'[e] = mark[e] \cup {} /\ op'[p] = o /\ {} \cap {"disturbed"} = {}
          => Sound(e, op[p])'
    BY <1>0, <1>1, <2>1, OpNotIdle DEF DedupHit, Sound, Live, Gone, Shelved, Knows, Cleaning
  <2> HIDE DEF o
  <2>4. QED
    BY <1>0, <1>1, <2>1, <2>3, StartCalm DEF DedupHit
<1>2. CASE ForgetRead(p, e)
  <2> DEFINE o == [job |-> "forget", pc |-> "wdelete", id |-> e, ver |-> 0,
                 ns |-> row[e].ns, att |-> 0]
  <2>1. o \in Op /\ o.id = e /\ {} \in SUBSET Marks /\ Begin(p, o, {})
    BY <1>0, <1>2 DEF ForgetRead, Op, Jobs, Steps, Row, Orphan, Marks
  <2>3. Sound(e, Idle) /\ mark'[e] = mark[e] \cup {} /\ op'[p] = o /\ {} \cap {"disturbed"} = {}
          => Sound(e, op[p])'
    BY <1>0, <1>2, <2>1, OpNotIdle DEF ForgetRead, Sound, Live, Gone, Shelved, Knows, Cleaning
  <2> HIDE DEF o
  <2>4. QED
    BY <1>0, <1>2, <2>1, <2>3, StartCalm DEF ForgetRead
<1>3. CASE ForgetBySource(p, e)
  <2> DEFINE o == [job |-> "forget", pc |-> "cdelete", id |-> e, ver |-> 0,
                 ns |-> row[e].ns, att |-> 0]
  <2>1. o \in Op /\ o.id = e /\ {} \in SUBSET Marks /\ Begin(p, o, {})
    BY <1>0, <1>3 DEF ForgetBySource, Op, Jobs, Steps, Row, Orphan, Marks
  <2>2. /\ \A id \in Ids \ {e} : row'[id] = row[id]
        /\ row'[e] = NoRow("gone")
    BY <1>0, <1>3 DEF ForgetBySource, TypeOK
  <2>9. Live(e) /\ orphan[e].kind # "delete"
    BY <1>0, <1>3 DEF ForgetBySource, IInv, DeleteOwedWhenGone, Live, Gone
  <2>3. Sound(e, Idle) /\ mark'[e] = mark[e] \cup {} /\ op'[p] = o /\ {} \cap {"disturbed"} = {}
          => Sound(e, op[p])'
    BY <1>0, <1>3, <2>1, <2>2, <2>9, OpNotIdle
    DEF ForgetBySource, Sound, Live, Gone, Shelved, Knows, Cleaning, NoRow, NoOrphan, Orphan,
        Kinds
  <2> HIDE DEF o
  <2>4. QED
    BY <1>0, <1>3, <2>1, <2>2, <2>3, StartCalm DEF ForgetBySource
<1>4. CASE PersistRemember(p, e, n)
  <2> DEFINE o == [job |-> "remember", pc |-> "upsert", id |-> e, ver |-> 1,
                 ns |-> n, att |-> 0]
  <2>1. o \in Op /\ o.id = e /\ {} \in SUBSET Marks /\ Begin(p, o, {})
    BY <1>0, <1>4 DEF PersistRemember, Op, Jobs, Steps, Row, Orphan, Marks
  <2>2. /\ \A id \in Ids \ {e} : row'[id] = row[id]
        /\ row'[e] = [st |-> "live", ver |-> 1, ns |-> n, emb |-> FALSE]
    BY <1>0, <1>4 DEF PersistRemember, TypeOK
  <2>9. NoOrphan(e) /\ Empty(e)
    BY <1>0, <1>4 DEF PersistRemember, RInv, FreshUntouched, Empty
  <2>3. Sound(e, Idle) /\ mark'[e] = mark[e] \cup {} /\ op'[p] = o /\ {} \cap {"disturbed"} = {}
          => Sound(e, op[p])'
    BY <1>0, <1>4, <2>1, <2>2, <2>9, OpNotIdle
    DEF PersistRemember, Sound, Live, Gone, Shelved, Knows, Cleaning, NoOrphan, Empty
  <2> HIDE DEF o
  <2>4. QED
    BY <1>0, <1>4, <2>1, <2>2, <2>3, StartCalm DEF PersistRemember
<1>5. CASE PersistRaced(p, e, n)
  <2> DEFINE o == [job |-> "remember", pc |-> "upsert", id |-> e, ver |-> row[e].ver,
                 ns |-> n, att |-> 0]
  <2>1. o \in Op /\ o.id = e /\ {"disturbed"} \in SUBSET Marks /\ Begin(p, o, {"disturbed"})
    BY <1>0, <1>5 DEF PersistRaced, Op, Jobs, Steps, Row, Orphan, Marks
  <2>3. Sound(e, Idle) /\ mark'[e] = mark[e] \cup {"disturbed"}
              /\ op'[p] = o /\ {"disturbed"} \cap {"disturbed"} = {}
          => Sound(e, op[p])'
    BY <1>0, <1>5, <2>1, OpNotIdle DEF PersistRaced, Sound, Live, Gone, Shelved, Knows, Cleaning
  <2> HIDE DEF o
  <2>4. QED
    BY <1>0, <1>5, <2>1, <2>3, StartCalm DEF PersistRaced
<1>6. CASE UpdateContent(p, e, n)
  <2> DEFINE o == [job |-> "update", pc |-> "reread", id |-> e, ver |-> row[e].ver + 1,
                 ns |-> n, att |-> 0]
  <2> DEFINE ms == IF n # row[e].ns THEN {"disturbed"} ELSE {}
  <2>1. o \in Op /\ o.id = e /\ ms \in SUBSET Marks /\ Begin(p, o, ms)
    BY <1>0, <1>6 DEF UpdateContent, Op, Jobs, Steps, Row, Orphan, Marks
  <2>2. /\ \A id \in Ids \ {e} : row'[id] = row[id]
        /\ row'[e].st = row[e].st /\ row'[e].ver = row[e].ver + 1 /\ row'[e].ns = n
    BY <1>0, <1>6 DEF UpdateContent, TypeOK, Row
  <2>3. Sound(e, Idle) /\ mark'[e] = mark[e] \cup ms /\ op'[p] = o
              /\ ms \cap {"disturbed"} = {}
          => Sound(e, op[p])'
    <3> SUFFICES ASSUME Sound(e, Idle), mark'[e] = mark[e] \cup ms, op'[p] = o,
                        ms \cap {"disturbed"} = {}
                 PROVE  Sound(e, op[p])'
      OBVIOUS
    <3>1. n = row[e].ns /\ mark'[e] = mark[e]
      OBVIOUS
    <3>2. /\ op'[p] # Idle /\ op'[p].job = "update" /\ op'[p].pc = "reread"
          /\ op'[p].ver = row[e].ver + 1 /\ op'[p].ns = n
      BY <2>1, OpNotIdle
    <3>3. Live(e) /\ UNCHANGED <<vec, orphan>>
      BY <1>6 DEF UpdateContent
    <3> HIDE DEF o
    <3>4. QED
      BY <2>2, <3>1, <3>2, <3>3 DEF Sound, Live, Gone, Shelved, Knows
  <2> HIDE DEF o
  <2>4. QED
    BY <1>0, <1>6, <2>1, <2>2, <2>3, StartCalm DEF UpdateContent
<1>7. CASE UpdateNamespace(p, e, n)
  <2>1. mark' = [mark EXCEPT ![e] = mark[e] \cup {"disturbed"}] /\ row' = [row EXCEPT ![e].ns = n]
        /\ UNCHANGED <<vec, orphan, op>>
    BY <1>7 DEF UpdateNamespace, Marked
  <2>2. Calm(e)'
    BY <1>0, <2>1 DEF Calm, Quiet, TypeOK
  <2>3. \A id \in Ids \ {e} : Spared(id)
    BY <1>0, <2>1 DEF Spared, TypeOK
  <2>4. QED
    BY <2>2, <2>3, SparedStaysCalm
<1>8. CASE ReconcileList(p, e)
  <2> DEFINE o == [job |-> "reconcile", pc |-> "upsert", id |-> e, ver |-> row[e].ver,
                 ns |-> row[e].ns, att |-> 0]
  <2>1. o \in Op /\ o.id = e /\ {} \in SUBSET Marks /\ Begin(p, o, {})
    BY <1>0, <1>8 DEF ReconcileList, Op, Jobs, Steps, Row, Orphan, Marks
  <2>3. Sound(e, Idle) /\ mark'[e] = mark[e] \cup {} /\ op'[p] = o /\ {} \cap {"disturbed"} = {}
          => Sound(e, op[p])'
    BY <1>0, <1>8, <2>1, OpNotIdle DEF ReconcileList, Sound, Live, Gone, Shelved, Knows, Cleaning
  <2> HIDE DEF o
  <2>4. QED
    BY <1>0, <1>8, <2>1, <2>3, StartCalm DEF ReconcileList
<1>9. CASE ReapList(p, e)
  <2> DEFINE o == [job |-> "reap", id |-> e, ver |-> 0,
                 pc |-> IF orphan[e].kind = "backfill" THEN "load" ELSE "cdelete",
                 ns |-> orphan[e].ns, att |-> orphan[e].att]
  <2>1. o \in Op /\ o.id = e /\ {} \in SUBSET Marks /\ Begin(p, o, {})
    BY <1>0, <1>9 DEF ReapList, Op, Jobs, Steps, Row, Orphan, Marks
  <2>9. orphan[e].kind = "backfill" \/ (orphan[e].kind = "delete" /\ Gone(e))
    BY <1>0, <1>9 DEF ReapList, NoOrphan, IInv, DeleteOwedWhenGone, Orphan, Kinds
  <2>3. Sound(e, Idle) /\ mark'[e] = mark[e] \cup {} /\ op'[p] = o /\ {} \cap {"disturbed"} = {}
          => Sound(e, op[p])'
    BY <1>0, <1>9, <2>1, <2>9, OpNotIdle
    DEF ReapList, Sound, Live, Gone, Shelved, Knows, Cleaning, Queued
  <2> HIDE DEF o
  <2>4. QED
    BY <1>0, <1>9, <2>1, <2>3, StartCalm DEF ReapList
<1>10. QED
  BY <1>1, <1>2, <1>3, <1>4, <1>5, <1>6, <1>7, <1>8, <1>9

LEMMA CalmInit == Init => CalmInv
<1> SUFFICES ASSUME Init PROVE \A id \in Ids : Calm(id)
  BY WordInit DEF CalmInv
<1>1. \A id \in Ids : Sound(id, Idle)
  BY DEF Init, Sound, Live, Gone, NoRow, Nothing
<1>2. QED
  BY <1>1 DEF Init, Calm, On

LEMMA CalmNext == ASSUME CalmInv, [Next]_vars PROVE CalmInv'
<1>1. RInv' /\ RInv
  BY WordNext DEF CalmInv
<1>2. \A id \in Ids : Calm(id)
  BY DEF CalmInv
<1>3. CASE UNCHANGED vars
  BY <1>1, <1>2, <1>3, SparedStaysCalm DEF vars, Spared, CalmInv
<1>4. CASE \E p \in Callers : Request(p)
  <2>1. PICK n \in Namespaces : TRUE
    BY VectorTierAssumption
  <2>2. QED
    BY <1>1, <1>2, <1>4, <2>1, CalmRequests DEF Request, Procs, CalmInv
<1>5. CASE Tick
  <2>1. PICK n \in Namespaces : TRUE
    BY VectorTierAssumption
  <2>2. QED
    BY <1>1, <1>2, <1>5, <2>1, CalmRequests DEF Tick, Procs, CalmInv
<1>6. CASE \E p \in Procs : Continue(p) \/ Failure(p)
  BY <1>1, <1>2, <1>6, CalmSteps, CalmFailures DEF CalmInv
<1>7. QED
  BY <1>3, <1>4, <1>5, <1>6 DEF Next

\* What every undisturbed entry's stores agree on, at every moment of every run.
THEOREM CalmCorrect == Spec => []CalmInv
BY CalmInit, CalmNext, PTL DEF Spec

LEMMA CalmIsSound ==
    ASSUME NEW id \in Ids, Calm(id), Quiet(id), ~Busy(id)
    PROVE  Sound(id, Idle)
BY DEF Calm, Busy, On

\* A stamped entry is found by its current wording on its current shelf (StampIsCurrent).
THEOREM StampsAreCurrent == Spec => []StampIsCurrent
<1>1. CalmInv => StampIsCurrent
  BY CalmIsSound DEF CalmInv, StampIsCurrent, Sound, Quiet
<1>2. QED
  BY <1>1, CalmCorrect, PTL

\* What is left of a forgotten entry is queued for deletion (ForgetCompleteOrQueued).
THEOREM ForgettingIsComplete == Spec => []ForgetCompleteOrQueued
<1>1. CalmInv => ForgetCompleteOrQueued
  BY CalmIsSound DEF CalmInv, ForgetCompleteOrQueued, Sound, Quiet, Queued
<1>2. QED
  BY <1>1, CalmCorrect, PTL
=============================================================================
