---------------------------- MODULE CaptureProofs ----------------------------
(***************************************************************************)
(* For any number of rows, texts, sources and handlers, and any relations  *)
(* of nearness and contradiction between the texts: of two facts that      *)
(* exclude each other one is hidden, the one that hid it stays, and        *)
(* forgetting a source reaches everything that was captured from it, save  *)
(* for the histories the model records.  And of the embedder they all      *)
(* share: nobody is handed another's failure.                              *)
(*                                                                         *)
(* For any hosts, files and runs: the installer leaves alone what owners   *)
(* keep in a configuration, and serves every host it does not report.      *)
(***************************************************************************)
EXTENDS Capture, Embedder, Install, TLAPS

-----------------------------------------------------------------------------
(* The invariants under the promises. *)

New(i) == row[i].st = "new"

\* A request that works on a row has the row.
StepsSound ==
    \A h \in Handlers : Busy(h) =>
        /\ op[h].pc \in {"update", "vector", "refs"} => op[h].cand \in Ids
        /\ op[h].pc \in {"bump", "merge", "upsert", "mark", "undo"} => op[h].id \in Ids
        /\ op[h].pc = "mark" => op[h].cand \in Ids

\* A row that one request only was answered with is that request's: nobody else holds
\* it, it was not taken back, and what it hides it hides for good or doubtfully.
OnlyTheirs ==
    \A h \in Handlers : Busy(h) /\ op[h].id \in Ids =>
        /\ ~New(op[h].id)
        /\ op[h].id \notin shared =>
              /\ op[h].id \notin undone
              /\ \A g \in Handlers \ {h} : Busy(g) => op[g].id # op[h].id
              /\ \A i \in Ids : Live(i) /\ row[i].by = op[h].id => i \in doubted \/ op[h].pc = "answer"

\* Ids are used once: what was answered with, taken back or named as a successor was
\* stored before, and what was taken back stays away.
UsedOnce ==
    /\ \A i \in undone \cup shared : ~New(i)
    /\ \A i \in undone : row[i].st = "gone"
    /\ \A i \in Ids : Live(i) /\ row[i].by \in Ids => ~New(row[i].by)

CInv ==
    /\ TypeOK /\ StepsSound /\ OnlyTheirs /\ UsedOnce
    /\ OneFactVisible /\ SuccessorStays /\ Forgettable

-----------------------------------------------------------------------------
(* What a step does to the request it belongs to. *)

Pcs == {"probe", "update", "vector", "refs", "dedup", "bump", "merge", "insert",
        "upsert", "mark", "undo", "answer"}

Others(h) == \A g \in Handlers \ {h} : op'[g] = op[g]
Moved(h, pc, c, i) ==
    /\ op' \in [Handlers -> Op \cup {Idle}]
    /\ op'[h] # Idle /\ op'[h].pc = pc /\ op'[h].cand = c /\ op'[h].id = i
    /\ op'[h].text = op[h].text /\ op'[h].refs = op[h].refs
    /\ Others(h)
Over(h) == op' \in [Handlers -> Op \cup {Idle}] /\ op'[h] = Idle /\ Others(h)

LEMMA BusyOp ==
    ASSUME TypeOK, NEW h \in Handlers, Busy(h)
    PROVE  /\ op[h] \in Op /\ op[h].text \in Texts /\ op[h].refs \subseteq Refs
           /\ op[h].cand \in Ids \cup {NoId} /\ op[h].id \in Ids \cup {NoId}
BY DEF TypeOK, Busy, Op

LEMMA MovesTo ==
    ASSUME TypeOK, NEW h \in Handlers, NEW o \in Op, op' = [op EXCEPT ![h] = o]
    PROVE  /\ op' \in [Handlers -> Op \cup {Idle}] /\ op'[h] = o /\ o # Idle /\ Others(h)
<1>1. o.pc # "idle"
  BY DEF Op
<1>2. o # Idle
  BY <1>1 DEF Idle
<1>3. QED
  BY <1>2 DEF TypeOK, Others

LEMMA GotoMoves ==
    ASSUME TypeOK, NEW h \in Handlers, Busy(h), NEW pc \in Pcs, Goto(h, pc)
    PROVE  Moved(h, pc, op[h].cand, op[h].id)
<1> DEFINE o == [op[h] EXCEPT !.pc = pc]
<1>1. op[h] \in Op
  BY BusyOp
<1>2. /\ o \in Op /\ o.pc = pc /\ o.cand = op[h].cand /\ o.id = op[h].id
      /\ o.text = op[h].text /\ o.refs = op[h].refs /\ op' = [op EXCEPT ![h] = o]
  BY <1>1 DEF Op, Pcs, Goto
<1> HIDE DEF o
<1>3. QED
  BY <1>2, MovesTo DEF Moved

LEMMA CandMoves ==
    ASSUME TypeOK, NEW h \in Handlers, Busy(h), NEW pc \in Pcs, NEW c \in Ids \cup {NoId},
           op' = [op EXCEPT ![h].pc = pc, ![h].cand = c]
    PROVE  Moved(h, pc, c, op[h].id)
<1> DEFINE o == [op[h] EXCEPT !.pc = pc, !.cand = c]
<1>1. op[h] \in Op
  BY BusyOp
<1>2. /\ o \in Op /\ o.pc = pc /\ o.cand = c /\ o.id = op[h].id
      /\ o.text = op[h].text /\ o.refs = op[h].refs
  BY <1>1 DEF Op, Pcs
<1>3. op' = [op EXCEPT ![h] = o]
  BY DEF TypeOK
<1> HIDE DEF o
<1>4. QED
  BY <1>2, <1>3, MovesTo DEF Moved

LEMMA IdMoves ==
    ASSUME TypeOK, NEW h \in Handlers, Busy(h), NEW pc \in Pcs, NEW i \in Ids,
           op' = [op EXCEPT ![h].pc = pc, ![h].id = i]
    PROVE  Moved(h, pc, op[h].cand, i)
<1> DEFINE o == [op[h] EXCEPT !.pc = pc, !.id = i]
<1>1. op[h] \in Op
  BY BusyOp
<1>2. /\ o \in Op /\ o.pc = pc /\ o.cand = op[h].cand /\ o.id = i
      /\ o.text = op[h].text /\ o.refs = op[h].refs
  BY <1>1 DEF Op, Pcs
<1>3. op' = [op EXCEPT ![h] = o]
  BY DEF TypeOK
<1> HIDE DEF o
<1>4. QED
  BY <1>2, <1>3, MovesTo DEF Moved

LEMMA DoneOver ==
    ASSUME TypeOK, NEW h \in Handlers, Done(h)
    PROVE  Over(h)
BY DEF TypeOK, Done, Over, Others

LEMMA BeginMoves ==
    ASSUME TypeOK, NEW h \in Handlers, NEW pc \in {"probe", "dedup"}, NEW t \in Texts,
           NEW R \in SUBSET Refs, Begin(h, pc, t, R)
    PROVE  /\ op' \in [Handlers -> Op \cup {Idle}] /\ Others(h)
           /\ op'[h] # Idle /\ op'[h].pc = pc /\ op'[h].cand = NoId /\ op'[h].id = NoId
<1> DEFINE o == [pc |-> pc, text |-> t, refs |-> R, cand |-> NoId, id |-> NoId]
<1>1. /\ o \in Op /\ o.pc = pc /\ o.cand = NoId /\ o.id = NoId /\ op' = [op EXCEPT ![h] = o]
  BY DEF Op, Begin
<1> HIDE DEF o
<1>2. QED
  BY <1>1, MovesTo

\* Every step of a request, by what it does to the request.
LEMMA StepMoves ==
    ASSUME TypeOK, NEW h \in Handlers, Step(h)
    PROVE  /\ op' \in [Handlers -> Op \cup {Idle}] /\ Others(h) /\ Busy(h)
           /\ \/ Over(h)
              \/ \E pc \in Pcs : Moved(h, pc, op[h].cand, op[h].id)
              \/ \E pc \in Pcs, c \in Ids \cup {NoId} : Moved(h, pc, c, op[h].id)
              \/ \E pc \in Pcs, i \in Ids : Moved(h, pc, op[h].cand, i)
<1>1. Busy(h)
  BY DEF Step, Probe, ProbeBlind, Overwrite, OverwriteVector, OverwriteRefs, Dedup, Bump, Merge,
     Insert, Upsert, Mark, MarkFails, Undo, Answer, Abort, At
<1>2. \/ Done(h)
      \/ \E pc \in Pcs : Goto(h, pc)
      \/ \E pc \in Pcs, c \in Ids \cup {NoId} : op' = [op EXCEPT ![h].pc = pc, ![h].cand = c]
      \/ \E pc \in Pcs, i \in Ids : op' = [op EXCEPT ![h].pc = pc, ![h].id = i]
  <2>1. CASE Probe(h)
    <3>1. CASE Hits(op[h].text) = {} /\ Goto(h, "dedup")
      BY <3>1 DEF Pcs
    <3>2. ASSUME NEW c \in Closest(op[h].text),
                 \/ op' = [op EXCEPT ![h].pc = "dedup", ![h].cand = c]
                 \/ op' = [op EXCEPT ![h].pc = "update", ![h].cand = c]
                 \/ Goto(h, "dedup")
          PROVE  \/ \E pc \in Pcs : Goto(h, pc)
                 \/ \E pc \in Pcs, d \in Ids \cup {NoId} : op' = [op EXCEPT ![h].pc = pc, ![h].cand = d]
      <4>1. c \in Ids
        BY <3>2 DEF Closest, Hits
      <4>2. QED
        BY <3>2, <4>1 DEF Pcs
    <3>3. QED
      BY <2>1, <3>1, <3>2 DEF Probe
  <2>2. CASE Overwrite(h)
    BY <2>2 DEF Overwrite, Pcs
  <2>3. CASE Dedup(h)
    BY <2>3 DEF Dedup, Pcs
  <2>4. CASE Insert(h)
    BY <2>4 DEF Insert, Pcs
  <2>5. CASE Merge(h) \/ Upsert(h)
    BY <2>5 DEF Merge, Upsert, Rest, Pcs
  <2>6. CASE ProbeBlind(h) \/ OverwriteVector(h) \/ OverwriteRefs(h) \/ Bump(h)
    BY <2>6 DEF ProbeBlind, OverwriteVector, OverwriteRefs, Bump, Pcs
  <2>7. CASE Mark(h) \/ MarkFails(h) \/ Undo(h) \/ Answer(h) \/ Abort(h)
    BY <2>7 DEF Mark, MarkFails, Undo, Answer, Abort, Pcs
  <2>8. QED
    BY <2>1, <2>2, <2>3, <2>4, <2>5, <2>6, <2>7 DEF Step
<1>3. CASE Done(h)
  BY <1>1, <1>3, DoneOver DEF Over
<1>4. ASSUME NEW pc \in Pcs, Goto(h, pc) PROVE Moved(h, pc, op[h].cand, op[h].id)
  BY <1>1, <1>4, GotoMoves
<1>5. ASSUME NEW pc \in Pcs, NEW c \in Ids \cup {NoId}, op' = [op EXCEPT ![h].pc = pc, ![h].cand = c]
      PROVE  Moved(h, pc, c, op[h].id)
  BY <1>1, <1>5, CandMoves
<1>6. ASSUME NEW pc \in Pcs, NEW i \in Ids, op' = [op EXCEPT ![h].pc = pc, ![h].id = i]
      PROVE  Moved(h, pc, op[h].cand, i)
  BY <1>1, <1>6, IdMoves
<1>7. \A pc, c, i : Moved(h, pc, c, i) => op' \in [Handlers -> Op \cup {Idle}] /\ Others(h)
  BY DEF Moved
<1>8. QED
  BY <1>1, <1>2, <1>3, <1>4, <1>5, <1>6, <1>7 DEF Over

LEMMA ProbeMoves ==
    ASSUME TypeOK, NEW h \in Handlers, Probe(h)
    PROVE  \E c \in Ids \cup {NoId} : \/ Moved(h, "dedup", c, op[h].id)
                                      \/ c \in Ids /\ Moved(h, "update", c, op[h].id)
<1>1. Busy(h) /\ "dedup" \in Pcs /\ "update" \in Pcs /\ op[h].cand \in Ids \cup {NoId}
  BY BusyOp DEF Probe, At, Pcs
<1>2. CASE Goto(h, "dedup")
  BY <1>1, <1>2, GotoMoves
<1>3. ASSUME NEW c \in Closest(op[h].text), op' = [op EXCEPT ![h].pc = "dedup", ![h].cand = c]
      PROVE  c \in Ids /\ Moved(h, "dedup", c, op[h].id)
  <2>1. c \in Ids
    BY DEF Closest, Hits
  <2>2. QED
    BY <1>1, <1>3, <2>1, CandMoves
<1>4. ASSUME NEW c \in Closest(op[h].text), op' = [op EXCEPT ![h].pc = "update", ![h].cand = c]
      PROVE  c \in Ids /\ Moved(h, "update", c, op[h].id)
  <2>1. c \in Ids
    BY DEF Closest, Hits
  <2>2. QED
    BY <1>1, <1>4, <2>1, CandMoves
<1>5. QED
  BY <1>1, <1>2, <1>3, <1>4 DEF Probe

LEMMA OtherMoves ==
    ASSUME TypeOK, NEW h \in Handlers
    PROVE  /\ ProbeBlind(h) => Moved(h, "dedup", op[h].cand, op[h].id)
           /\ OverwriteVector(h) => Moved(h, "refs", op[h].cand, op[h].id)
           /\ Bump(h) => Over(h) \/ Moved(h, "merge", op[h].cand, op[h].id)
           /\ Merge(h) \/ Upsert(h) => Moved(h, Rest(h), op[h].cand, op[h].id)
           /\ OverwriteRefs(h) \/ Undo(h) \/ Answer(h) \/ Abort(h) => Over(h)
<1>1. {"dedup", "refs", "merge", Rest(h)} \subseteq Pcs
  BY DEF Pcs, Rest
<1>2. ASSUME NEW pc \in Pcs, Busy(h), Goto(h, pc) PROVE Moved(h, pc, op[h].cand, op[h].id)
  BY <1>2, GotoMoves
<1>3. QED
  BY <1>1, <1>2, DoneOver
  DEF ProbeBlind, OverwriteVector, Bump, Merge, Upsert, OverwriteRefs, Undo,
     Answer, Abort, At

LEMMA OverwriteMoves ==
    ASSUME TypeOK, NEW h \in Handlers, Overwrite(h)
    PROVE  \/ /\ Live(op[h].cand) /\ Unused(op[h].text, op[h].cand)
              /\ row' = [row EXCEPT ![op[h].cand].text = op[h].text, ![op[h].cand].by = NoId]
              /\ source' = [source EXCEPT ![op[h].cand] = @ \cup op[h].refs]
              /\ loose' = loose \cup Loosened(op[h].text, op[h].cand, op[h].cand)
              /\ Moved(h, "vector", op[h].cand, op[h].id)
           \/ /\ UNCHANGED <<row, source, loose>>
              /\ Over(h) \/ Moved(h, "dedup", NoId, op[h].id)
<1>1. Busy(h) /\ {"vector", "dedup"} \subseteq Pcs
  BY DEF Overwrite, At, Pcs
<1>2. Goto(h, "vector") => Moved(h, "vector", op[h].cand, op[h].id)
  BY <1>1, GotoMoves
<1>3. op' = [op EXCEPT ![h].pc = "dedup", ![h].cand = NoId] => Moved(h, "dedup", NoId, op[h].id)
  BY <1>1, CandMoves
<1>4. QED
  BY <1>2, <1>3, DoneOver DEF Overwrite

LEMMA DedupMoves ==
    ASSUME TypeOK, NEW h \in Handlers, Dedup(h)
    PROVE  \/ shared' = shared /\ Moved(h, "insert", op[h].cand, op[h].id)
           \/ \E i \in Ids : /\ Holds(i, op[h].text) /\ shared' = shared \cup {i}
                             /\ Moved(h, "bump", op[h].cand, i)
<1>1. Busy(h) /\ {"insert", "bump"} \subseteq Pcs
  BY DEF Dedup, At, Pcs
<1>2. Goto(h, "insert") => Moved(h, "insert", op[h].cand, op[h].id)
  BY <1>1, GotoMoves
<1>3. ASSUME NEW i \in Ids, op' = [op EXCEPT ![h].pc = "bump", ![h].id = i]
      PROVE  Moved(h, "bump", op[h].cand, i)
  BY <1>1, <1>3, IdMoves
<1>4. QED
  BY <1>2, <1>3 DEF Dedup

\* The two ways of Insert: a row of its own, or the winner's.
Inserted(h, i) ==
    /\ row[i].st = "new"
    /\ row' = [row EXCEPT ![i] = [st |-> "live", text |-> op[h].text, by |-> NoId]]
    /\ refs' = [refs EXCEPT ![i] = op[h].refs]
    /\ source' = [source EXCEPT ![i] = op[h].refs]
    /\ loose' = loose \cup Loosened(op[h].text, i, op[h].cand)
    /\ shared' = shared
Joined(h, i) ==
    /\ Holds(i, op[h].text)
    /\ refs' = [refs EXCEPT ![i] = @ \cup op[h].refs]
    /\ source' = [source EXCEPT ![i] = @ \cup op[h].refs]
    /\ shared' = shared \cup {i}
    /\ UNCHANGED <<row, loose>>

LEMMA InsertMoves ==
    ASSUME TypeOK, NEW h \in Handlers, Insert(h)
    PROVE  \E i \in Ids : (Inserted(h, i) \/ Joined(h, i)) /\ Moved(h, "upsert", op[h].cand, i)
<1>1. Busy(h) /\ "upsert" \in Pcs
  BY DEF Insert, At, Pcs
<1>2. ASSUME NEW i \in Ids, op' = [op EXCEPT ![h].pc = "upsert", ![h].id = i]
      PROVE  Moved(h, "upsert", op[h].cand, i)
  BY <1>1, <1>2, IdMoves
<1>3. QED
  BY <1>2 DEF Insert, Inserted, Joined

LEMMA MarkMoves ==
    ASSUME TypeOK, NEW h \in Handlers, Mark(h) \/ MarkFails(h)
    PROVE  \/ /\ Live(op[h].cand) /\ row' = [row EXCEPT ![op[h].cand].by = op[h].id]
              /\ \/ doubted' = doubted /\ Moved(h, "answer", op[h].cand, op[h].id)
                 \/ doubted' = doubted \cup {op[h].cand} /\ Moved(h, "undo", op[h].cand, op[h].id)
           \/ /\ UNCHANGED <<row, doubted>> /\ Moved(h, "undo", op[h].cand, op[h].id)
              /\ Mark(h) => ~Live(op[h].cand)
<1>1. Busy(h) /\ {"answer", "undo"} \subseteq Pcs
  BY DEF Mark, MarkFails, At, Pcs
<1>2. ASSUME NEW pc \in Pcs, Goto(h, pc) PROVE Moved(h, pc, op[h].cand, op[h].id)
  BY <1>1, <1>2, GotoMoves
<1>3. QED
  BY <1>1, <1>2 DEF Mark, MarkFails

LEMMA MarkRows ==
    ASSUME TypeOK, NEW h \in Handlers, Mark(h) \/ MarkFails(h), op[h].cand \in Ids
    PROVE  /\ \A i \in Ids : \/ row'[i] = row[i]
                             \/ /\ i = op[h].cand /\ Live(i)
                                /\ row'[i].st = "live" /\ row'[i].by = op[h].id
           /\ op'[h].pc = "answer" => row'[op[h].cand].by = op[h].id
<1>1. PICK c \in Ids : c = op[h].cand
  OBVIOUS
<1>2. PICK k : k = op[h].id
  OBVIOUS
<1>3. row[c] \in Row /\ row \in [Ids -> Row]
  BY DEF TypeOK
<1>4. CASE Live(c) /\ row' = [row EXCEPT ![c].by = k]
  <2>1. /\ \A i \in Ids \ {c} : row'[i] = row[i]
        /\ row'[c] = [row[c] EXCEPT !.by = k]
    BY <1>3, <1>4
  <2>2. row'[c].st = row[c].st /\ row'[c].by = k
    BY <1>3, <2>1 DEF Row
  <2>3. QED
    BY <1>1, <1>2, <1>4, <2>1, <2>2 DEF Live
<1>5. CASE row' = row /\ op'[h].pc = "undo"
  BY <1>5
<1>6. QED
  BY <1>1, <1>2, <1>4, <1>5, MarkMoves DEF Moved

-----------------------------------------------------------------------------
(* Types, and that a request has the row it works on. *)

LEMMA StepsKept ==
    ASSUME StepsSound, NEW h \in Handlers, Others(h),
           op'[h] # Idle =>
              /\ op'[h].pc \in {"update", "vector", "refs"} => op'[h].cand \in Ids
              /\ op'[h].pc \in {"bump", "merge", "upsert", "mark", "undo"} => op'[h].id \in Ids
              /\ op'[h].pc = "mark" => op'[h].cand \in Ids
    PROVE  StepsSound'
BY DEF StepsSound, Busy, Others

LEMMA StepsSoundNext ==
    ASSUME TypeOK, StepsSound, [Next]_vars
    PROVE  op' \in [Handlers -> Op \cup {Idle}] /\ StepsSound'
<1>1. ASSUME NEW h \in Handlers, NEW t \in Texts, NEW R \in SUBSET Refs,
             CaptureText(h, t, R) \/ Remember(h, t, R)
      PROVE  op' \in [Handlers -> Op \cup {Idle}] /\ StepsSound'
  <2>1. PICK pc \in {"probe", "dedup"} : Begin(h, pc, t, R)
    BY <1>1 DEF CaptureText, Remember
  <2>2. QED
    BY <2>1, BeginMoves, StepsKept
<1>2. ASSUME NEW h \in Handlers, Step(h) PROVE op' \in [Handlers -> Op \cup {Idle}] /\ StepsSound'
  <2>1. op' \in [Handlers -> Op \cup {Idle}] /\ Others(h) /\ Busy(h)
    BY <1>2, StepMoves
  <2> SUFFICES StepsSound'
    BY <2>1
  <2>2. CASE Over(h)
    BY <2>1, <2>2, StepsKept DEF Over
  <2>3. ASSUME NEW pc, NEW c, NEW i, Moved(h, pc, c, i),
               /\ pc \in {"update", "vector", "refs"} => c \in Ids
               /\ pc \in {"bump", "merge", "upsert", "mark", "undo"} => i \in Ids
               /\ pc = "mark" => c \in Ids
        PROVE  StepsSound'
    BY <2>1, <2>3, StepsKept DEF Moved
  <2>4. CASE Probe(h)
    BY <2>3, <2>4, ProbeMoves
  <2>5. CASE ProbeBlind(h)
    BY <2>3, <2>5, OtherMoves
  <2>6. CASE Overwrite(h)
    <3>1. op[h].cand \in Ids
      BY <2>6 DEF Overwrite, At, StepsSound
    <3>2. \/ Over(h) \/ Moved(h, "vector", op[h].cand, op[h].id)
          \/ Moved(h, "dedup", NoId, op[h].id)
      BY <2>6, OverwriteMoves
    <3>3. QED
      BY <2>2, <2>3, <3>1, <3>2
  <2>7. CASE OverwriteVector(h)
    <3>1. op[h].cand \in Ids
      BY <2>7 DEF OverwriteVector, At, StepsSound
    <3>2. QED
      BY <2>3, <2>7, <3>1, OtherMoves
  <2>8. CASE Dedup(h)
    BY <2>3, <2>8, DedupMoves
  <2>9. CASE Bump(h) \/ Merge(h) \/ Upsert(h)
    <3>1. op[h].id \in Ids
      BY <2>9 DEF Bump, Merge, Upsert, At, StepsSound
    <3>2. op[h].cand \in Ids \cup {NoId}
      BY <2>1, BusyOp
    <3>3. Rest(h) = "answer" \/ (Rest(h) = "mark" /\ op[h].cand \in Ids)
      BY <3>2 DEF Rest
    <3>4. QED
      BY <2>2, <2>3, <2>9, <3>1, <3>3, OtherMoves
  <2>10. CASE Insert(h)
    BY <2>3, <2>10, InsertMoves
  <2>11. CASE Mark(h) \/ MarkFails(h)
    <3>1. op[h].id \in Ids
      BY <2>11 DEF Mark, MarkFails, At, StepsSound
    <3>2. Moved(h, "answer", op[h].cand, op[h].id) \/ Moved(h, "undo", op[h].cand, op[h].id)
      BY <2>11, MarkMoves
    <3>3. QED
      BY <2>3, <3>1, <3>2
  <2>12. CASE OverwriteRefs(h) \/ Undo(h) \/ Answer(h) \/ Abort(h)
    BY <2>2, <2>12, OtherMoves
  <2>13. QED
    BY <1>2, <2>1, <2>4, <2>5, <2>6, <2>7, <2>8, <2>9, <2>10, <2>11, <2>12 DEF Step
<1>3. CASE UNCHANGED op
  BY <1>3 DEF StepsSound, Busy, TypeOK
<1>4. QED
  BY <1>1, <1>2, <1>3 DEF Next, vars, Rewrite, Forget, ForgetBySource, Forgotten, Reindex

LEMMA DeleteTyped ==
    ASSUME TypeOK, NEW S, Delete(S) /\ Unreferenced(S)
    PROVE  row' \in [Ids -> Row] /\ refs' \in [Ids -> SUBSET Refs]
<1>1. \A i \in Ids : [row[i] EXCEPT !.st = "gone"] \in Row
  BY DEF TypeOK, Row
<1>2. QED
  BY <1>1 DEF TypeOK, Delete, Unreferenced

LEMMA TypeNext ==
    ASSUME TypeOK, StepsSound, [Next]_vars
    PROVE  TypeOK'
<1> DEFINE Data == /\ row \in [Ids -> Row]
                   /\ vec \in [Ids -> Texts \cup {NoText}]
                   /\ refs \in [Ids -> SUBSET Refs]
                   /\ source \in [Ids -> SUBSET Refs]
                   /\ torn \in [Ids -> SUBSET Refs]
                   /\ loose \subseteq Ids /\ undone \subseteq Ids
                   /\ shared \subseteq Ids /\ doubted \subseteq Ids
                   /\ writes \in Nat /\ faults \in Nat
<1>1. op' \in [Handlers -> Op \cup {Idle}] /\ StepsSound'
  BY StepsSoundNext
<1>2. Data'
  <2>0. Data
    BY DEF TypeOK
  <2> HIDE DEF Data
  <2>1. ASSUME NEW h \in Handlers, Step(h) PROVE Data'
    <3>0. /\ Busy(h) /\ op[h].text \in Texts /\ op[h].refs \subseteq Refs
          /\ op[h].cand \in Ids \cup {NoId} /\ op[h].id \in Ids \cup {NoId}
      BY <2>1, StepMoves, BusyOp
    <3>1. \A t, i, c : Loosened(t, i, c) \subseteq {i}
      BY DEF Loosened
    <3>2. CASE Probe(h) \/ ProbeBlind(h) \/ OverwriteRefs(h) \/ Bump(h) \/ Answer(h)
      BY <2>0, <3>0, <3>2
      DEF Data, Probe, ProbeBlind, OverwriteRefs, Bump, Answer, Fail, RecordRefs
    <3>3. CASE Overwrite(h)
      <4>1. op[h].cand \in Ids /\ UNCHANGED <<vec, refs, torn, undone, shared, doubted, writes, faults>>
        BY <3>3 DEF Overwrite, At, StepsSound
      <4>2. CASE UNCHANGED <<row, source, loose>>
        BY <2>0, <4>1, <4>2 DEF Data
      <4>3. CASE ~UNCHANGED <<row, source, loose>>
        <5>1. PICK c \in Ids : c = op[h].cand
          BY <4>1
        <5>2. PICK t \in Texts : t = op[h].text
          BY <3>0
        <5>3. /\ row' = [row EXCEPT ![c] = [row[c] EXCEPT !.text = t, !.by = NoId]]
              /\ source' = [source EXCEPT ![c] = source[c] \cup op[h].refs]
              /\ loose' = loose \cup Loosened(t, c, c)
          BY <2>0, <3>3, <4>3, <5>1, <5>2, OverwriteMoves DEF Data
        <5>4. [row[c] EXCEPT !.text = t, !.by = NoId] \in Row
          <6>1. row[c] \in Row
            BY <2>0 DEF Data
          <6>2. QED
            BY <6>1 DEF Row
        <5>5. row' \in [Ids -> Row] /\ source' \in [Ids -> SUBSET Refs] /\ loose' \subseteq Ids
          BY <2>0, <3>0, <3>1, <5>3, <5>4 DEF Data
        <5>6. QED
          BY <2>0, <4>1, <5>5 DEF Data
      <4>4. QED
        BY <4>2, <4>3
    <3>4. CASE OverwriteVector(h) \/ Upsert(h)
      BY <2>0, <3>0, <3>4 DEF Data, OverwriteVector, Upsert, Fail
    <3>5. CASE Dedup(h)
      BY <2>0, <3>5 DEF Data, Dedup
    <3>6. CASE Merge(h)
      BY <2>0, <3>0, <3>6 DEF Data, Merge, RecordRefs
    <3>7. CASE Insert(h)
      <4>1. PICK i \in Ids : Inserted(h, i) \/ Joined(h, i)
        BY <3>7, InsertMoves
      <4>2. UNCHANGED <<vec, torn, undone, doubted, writes, faults>>
        BY <3>7 DEF Insert
      <4>3. [st |-> "live", text |-> op[h].text, by |-> NoId] \in Row
        BY <3>0 DEF Row
      <4>4. CASE Inserted(h, i)
        BY <2>0, <3>0, <3>1, <4>2, <4>3, <4>4 DEF Data, Inserted
      <4>5. CASE Joined(h, i)
        BY <2>0, <3>0, <4>2, <4>5 DEF Data, Joined
      <4>6. QED
        BY <4>1, <4>4, <4>5
    <3>8. CASE Mark(h) \/ MarkFails(h)
      <4>1. op[h].cand \in Ids /\ op[h].id \in Ids
        BY <3>8 DEF Mark, MarkFails, At, StepsSound
      <4>2. [row[op[h].cand] EXCEPT !.by = op[h].id] \in Row
        BY <2>0, <4>1 DEF Data, Row
      <4>3. row' \in [Ids -> Row] /\ doubted' \subseteq Ids
        BY <2>0, <3>8, <4>1, <4>2, MarkMoves DEF Data
      <4>4. /\ UNCHANGED <<vec, refs, source, torn, loose, undone, shared, writes>> /\ faults' \in Nat
        BY <2>0, <3>8 DEF Data, Mark, MarkFails, Fail
      <4>5. QED
        BY <2>0, <4>3, <4>4 DEF Data
    <3>9. CASE Undo(h)
      <4>1. op[h].id \in Ids
        BY <3>9 DEF Undo, At, StepsSound
      <4>2. row' \in [Ids -> Row] /\ refs' \in [Ids -> SUBSET Refs]
        BY <3>9, DeleteTyped DEF Undo
      <4>3. QED
        BY <2>0, <3>9, <4>1, <4>2 DEF Data, Undo
    <3>10. CASE Abort(h)
      <4>1. op[h].pc \in {"upsert", "mark", "undo"} => op[h].id \in Ids
        BY <3>0 DEF StepsSound
      <4>2. QED
        BY <2>0, <3>0, <3>10, <4>1 DEF Data, Abort, Fail
    <3>11. QED
      BY <2>1, <3>2, <3>3, <3>4, <3>5, <3>6, <3>7, <3>8, <3>9, <3>10 DEF Step
  <2>2. ASSUME NEW h \in Handlers, NEW t \in Texts, NEW R \in SUBSET Refs,
               CaptureText(h, t, R) \/ Remember(h, t, R)
        PROVE  Data'
    BY <2>0, <2>2 DEF Data, CaptureText, Remember, Begin, Write
  <2>3. ASSUME NEW i \in Ids, NEW t \in Texts, Rewrite(i, t) PROVE Data'
    <3>1. [row[i] EXCEPT !.text = t] \in Row
      BY <2>0 DEF Data, Row
    <3>2. Loosened(t, i, i) \subseteq Ids
      BY DEF Loosened
    <3>3. QED
      BY <2>0, <2>3, <3>1, <3>2 DEF Data, Rewrite, Write
  <2>4. ASSUME NEW S, Forgotten(S) PROVE Data'
    BY <2>0, <2>4, DeleteTyped DEF Data, Forgotten, Write
  <2>5. ASSUME NEW i \in Ids, Reindex(i) PROVE Data'
    <3>1. row[i].text \in Texts \cup {NoText}
      BY <2>0 DEF Data, Row
    <3>2. QED
      BY <2>0, <2>5, <3>1 DEF Data, Reindex
  <2>6. CASE UNCHANGED vars
    BY <2>0, <2>6 DEF Data, vars
  <2>7. QED
    BY <2>1, <2>2, <2>3, <2>4, <2>5, <2>6 DEF Next, Forget, ForgetBySource
<1>3. \A h \in Handlers : At(h, "mark")' => op'[h].cand # NoId /\ op'[h].id # NoId
  BY <1>1, CaptureAssumption DEF StepsSound, At
<1>4. QED
  BY <1>1, <1>2, <1>3 DEF TypeOK

-----------------------------------------------------------------------------
(* What a step does to the rows. *)

Marks(h, i) == (Mark(h) \/ MarkFails(h)) /\ i = op[h].cand /\ row'[i].by = op[h].id

\* Rows only age, and only a supersession names a successor.
LEMMA RowsAge ==
    ASSUME TypeOK, StepsSound, [Next]_vars, NEW i \in Ids
    PROVE  /\ ~New(i) => ~New(i)'
           /\ row[i].st = "gone" => row'[i].st = "gone"
           /\ Live(i)' /\ row'[i].by # NoId =>
                 Live(i) /\ (row'[i].by = row[i].by \/ \E h \in Handlers : Marks(h, i))
<1>0. row \in [Ids -> Row] /\ row[i] \in Row
  BY DEF TypeOK
<1>1. CASE row' = row
  BY <1>1 DEF New, Live
<1>2. ASSUME NEW S, Delete(S)
      PROVE  row'[i] = row[i] \/ (row'[i].st = "gone" /\ row'[i].by = row[i].by)
  BY <1>0, <1>2 DEF Delete, Row
<1>3. ASSUME NEW h \in Handlers, Overwrite(h), row' # row
      PROVE  row'[i] = row[i] \/ (Live(i) /\ row'[i].st = "live" /\ row'[i].by = NoId)
  <2>1. PICK c : c = op[h].cand
    OBVIOUS
  <2>2. PICK t : t = op[h].text
    OBVIOUS
  <2>3. Live(c) /\ row' = [row EXCEPT ![c].text = t, ![c].by = NoId]
    BY <1>3, <2>1, <2>2, OverwriteMoves
  <2>4. CASE c = i
    <3>1. row'[i] = [row[i] EXCEPT !.text = t, !.by = NoId]
      BY <1>0, <2>3, <2>4
    <3>2. QED
      BY <1>0, <2>3, <2>4, <3>1 DEF Row, Live
  <2>5. CASE c # i
    BY <1>0, <2>3, <2>5
  <2>6. QED
    BY <2>4, <2>5
<1>4. ASSUME NEW h \in Handlers, Mark(h) \/ MarkFails(h)
      PROVE  \/ row'[i] = row[i]
             \/ Live(i) /\ row'[i].st = "live" /\ i = op[h].cand /\ row'[i].by = op[h].id
  <2>1. op[h].cand \in Ids
    BY <1>4 DEF Mark, MarkFails, At, StepsSound
  <2>2. QED
    BY <1>4, <2>1, MarkRows
<1>5. ASSUME NEW h \in Handlers, Step(h), row' # row
      PROVE  \/ row'[i] = row[i]
             \/ row'[i].st = "gone"
             \/ row'[i].st = "live" /\ row'[i].by = NoId /\ row[i].st # "gone"
             \/ Live(i) /\ row'[i].st = "live" /\ i = op[h].cand /\ row'[i].by = op[h].id
                        /\ (Mark(h) \/ MarkFails(h))
  <2>1. Overwrite(h) \/ Insert(h) \/ Mark(h) \/ MarkFails(h) \/ Undo(h)
    BY <1>5
    DEF Step, Probe, ProbeBlind, OverwriteVector, OverwriteRefs, Dedup, Bump, Merge, Upsert,
       Answer, Abort
  <2>2. CASE Overwrite(h)
    BY <1>3, <1>5, <2>2 DEF Live
  <2>3. CASE Insert(h)
    <3>1. CASE \E j \in Ids : Joined(h, j)
      BY <1>5, <3>1 DEF Joined
    <3>2. CASE \E j \in Ids : Inserted(h, j)
      BY <1>0, <3>2 DEF Inserted
    <3>3. QED
      BY <2>3, <3>1, <3>2, InsertMoves
  <2>4. CASE Mark(h) \/ MarkFails(h)
    BY <1>4, <1>5, <2>4
  <2>5. CASE Undo(h)
    BY <1>2, <2>5 DEF Undo
  <2>6. QED
    BY <2>1, <2>2, <2>3, <2>4, <2>5
<1>6. ASSUME NEW j \in Ids, NEW t \in Texts, Rewrite(j, t)
      PROVE  row'[i].st = row[i].st /\ row'[i].by = row[i].by
  <2>1. row' = [row EXCEPT ![j].text = t]
    BY <1>6 DEF Rewrite
  <2>2. row'[i] = row[i] \/ row'[i] = [row[i] EXCEPT !.text = t]
    BY <1>0, <2>1
  <2>3. QED
    BY <1>0, <2>2 DEF Row
<1>7. ASSUME NEW S, Forgotten(S)
      PROVE  row'[i] = row[i] \/ (row'[i].st = "gone" /\ row'[i].by = row[i].by)
  BY <1>2, <1>7 DEF Forgotten
<1>8. CASE row' # row
  <2>1. CASE \E h \in Handlers : Step(h)
    BY <1>0, <1>5, <1>8, <2>1 DEF New, Live, Row, Marks
  <2>2. CASE \E j \in Ids, t \in Texts : Rewrite(j, t)
    BY <1>6, <2>2 DEF New, Live
  <2>3. CASE \E S : Forgotten(S)
    BY <1>7, <2>3 DEF New, Live
  <2>4. QED
    BY <1>8, <2>1, <2>2, <2>3
    DEF Next, vars, CaptureText, Remember, Begin, Forget, ForgetBySource,
       Reindex
<1>9. QED
  BY <1>1, <1>8

LEMMA Histories ==
    ASSUME TypeOK, StepsSound, [Next]_vars
    PROVE  /\ shared \subseteq shared' /\ undone \subseteq undone' /\ doubted \subseteq doubted'
           /\ \A i \in shared' \ shared : i \in Ids /\ Live(i)
           /\ \A i \in undone' \ undone :
                 /\ i \in Ids /\ Live(i) /\ row'[i].st = "gone"
                 /\ \E h \in Handlers : Undo(h) /\ op[h].id = i
<1>1. ASSUME NEW h \in Handlers, Undo(h)
      PROVE  /\ shared' = shared /\ doubted' = doubted /\ undone \subseteq undone'
             /\ \A i \in undone' \ undone : i = op[h].id /\ i \in Ids /\ Live(i) /\ row'[i].st = "gone"
  <2>1. op[h].id \in Ids
    BY <1>1 DEF Undo, At, StepsSound
  <2>2. PICK k \in Ids : k = op[h].id
    BY <2>1
  <2>3. CASE Live(k)
    <3>1. {i \in {op[h].id} : Live(i)} = {k}
      BY <2>2, <2>3
    <3>2. undone' = undone \cup {k} /\ row'[k] = [row[k] EXCEPT !.st = "gone"]
      BY <1>1, <3>1 DEF Undo, Delete
    <3>3. row[k] \in Row
      BY DEF TypeOK
    <3>4. QED
      BY <1>1, <2>2, <2>3, <3>2, <3>3 DEF Undo, Row
  <2>4. CASE ~Live(k)
    <3>1. {i \in {op[h].id} : Live(i)} = {}
      BY <2>2, <2>4
    <3>2. undone' = undone
      BY <1>1, <3>1 DEF Undo
    <3>3. QED
      BY <1>1, <3>2 DEF Undo
  <2>5. QED
    BY <2>3, <2>4
<1>2. ASSUME NEW h \in Handlers, Dedup(h)
      PROVE  /\ UNCHANGED <<undone, doubted>> /\ shared \subseteq shared'
             /\ \A i \in shared' \ shared : i \in Ids /\ Live(i)
  BY <1>2 DEF Dedup, Holds
<1>3. ASSUME NEW h \in Handlers, Insert(h)
      PROVE  /\ UNCHANGED <<undone, doubted>> /\ shared \subseteq shared'
             /\ \A i \in shared' \ shared : i \in Ids /\ Live(i)
  BY <1>3 DEF Insert, Holds
<1>4. ASSUME NEW h \in Handlers, MarkFails(h)
      PROVE  UNCHANGED <<undone, shared>> /\ doubted \subseteq doubted'
  BY <1>4 DEF MarkFails
<1>5. ASSUME NEW h \in Handlers, Step(h), ~Undo(h), ~Dedup(h), ~Insert(h), ~MarkFails(h)
      PROVE  UNCHANGED <<undone, shared, doubted>>
  BY <1>5 DEF Step, Probe, ProbeBlind, Overwrite, OverwriteVector, OverwriteRefs, Bump, Merge,
     Upsert, Mark, Answer, Abort
<1>6. CASE \E h \in Handlers : Step(h)
  BY <1>1, <1>2, <1>3, <1>4, <1>5, <1>6
<1>7. CASE UNCHANGED <<undone, shared, doubted>>
  BY <1>7
<1>8. QED
  BY <1>6, <1>7 DEF Next, vars, CaptureText, Remember, Begin, Rewrite, Forget, ForgetBySource,
     Forgotten, Reindex

-----------------------------------------------------------------------------
(* A row one request was answered with. *)

LEMMA UsedOnceNext ==
    ASSUME TypeOK, TypeOK', StepsSound, OnlyTheirs, UsedOnce, [Next]_vars
    PROVE  UsedOnce'
<1>1. ASSUME NEW i \in undone' \cup shared' PROVE ~New(i)'
  <2>1. i \in Ids
    BY DEF TypeOK
  <2>2. ~New(i)
    BY <1>1, <2>1, Histories DEF UsedOnce, New, Live
  <2>3. QED
    BY <2>1, <2>2, RowsAge
<1>2. ASSUME NEW i \in undone' PROVE row'[i].st = "gone"
  <2>1. i \in Ids
    BY DEF TypeOK
  <2>2. QED
    BY <1>2, <2>1, Histories, RowsAge DEF UsedOnce
<1>3. ASSUME NEW i \in Ids, Live(i)', row'[i].by \in Ids PROVE row'[row'[i].by].st # "new"
  <2>1. row'[i].by # NoId
    BY <1>3, CaptureAssumption
  <2>2. ~New(row'[i].by)
    <3>1. CASE Live(i) /\ row'[i].by = row[i].by
      BY <1>3, <3>1 DEF UsedOnce
    <3>2. CASE \E h \in Handlers : Marks(h, i)
      <4>1. PICK h \in Handlers : Marks(h, i)
        BY <3>2
      <4>2. Busy(h) /\ op[h].id = row'[i].by
        BY <4>1 DEF Marks, Mark, MarkFails, At
      <4>3. QED
        BY <1>3, <4>2 DEF OnlyTheirs
    <3>3. QED
      BY <1>3, <2>1, <3>1, <3>2, RowsAge
  <2>3. PICK k \in Ids : k = row'[i].by
    BY <1>3
  <2>4. ~New(k)'
    BY <2>2, <2>3, RowsAge
  <2>5. QED
    BY <2>3, <2>4 DEF New
<1>4. QED
  BY <1>1, <1>2, <1>3 DEF UsedOnce, New

LEMMA TheirsKept ==
    ASSUME OnlyTheirs, NEW h, Others(h), shared \subseteq shared', doubted \subseteq doubted',
           \A i \in Ids : ~New(i) => ~New(i)',
           \A i \in Ids : Live(i)' /\ row'[i].by \in Ids => Live(i) /\ row'[i].by = row[i].by,
           \A k \in undone' : k \in undone \/ (h \in Handlers /\ Busy(h) /\ op[h].id = k /\ ~Busy(h)'),
           h \in Handlers /\ Busy(h)' =>
              \/ Busy(h) /\ op'[h].id = op[h].id /\ (op[h].pc = "answer" => op'[h].pc = "answer")
              \/ op'[h].id \notin Ids
              \/ op'[h].id \in shared' /\ row'[op'[h].id].st # "new"
    PROVE  OnlyTheirs'
<1> SUFFICES ASSUME NEW g \in Handlers, Busy(g)', op'[g].id \in Ids
             PROVE  /\ row'[op'[g].id].st # "new"
                    /\ op'[g].id \notin shared' =>
                          /\ op'[g].id \notin undone'
                          /\ \A f \in Handlers \ {g} : Busy(f)' => op'[f].id # op'[g].id
                          /\ \A i \in Ids : Live(i)' /\ row'[i].by = op'[g].id =>
                                i \in doubted' \/ op'[g].pc = "answer"
  BY DEF OnlyTheirs, New
<1>1. CASE op'[g].id \in shared' /\ g = h
  <2>1. CASE Busy(h) /\ op'[h].id = op[h].id
    <3>1. ~New(op[h].id)
      BY <1>1, <2>1 DEF OnlyTheirs
    <3>2. QED
      BY <1>1, <2>1, <3>1 DEF New
  <2>2. CASE row'[op'[h].id].st # "new"
    BY <1>1, <2>2
  <2>3. QED
    BY <1>1, <2>1, <2>2
<1>2. CASE op'[g].id \notin shared' \/ g # h
  <2>1. Busy(g) /\ op'[g].id = op[g].id /\ (op[g].pc = "answer" => op'[g].pc = "answer")
    BY <1>2 DEF Others, Busy
  <2>2. row'[op'[g].id].st # "new"
    <3>1. ~New(op[g].id)
      BY <2>1 DEF OnlyTheirs
    <3>2. QED
      BY <2>1, <3>1 DEF New
  <2>3. ASSUME op'[g].id \notin shared' PROVE op'[g].id \notin undone'
    <3>1. op[g].id \notin shared /\ op[g].id \notin undone
      BY <2>1, <2>3 DEF OnlyTheirs
    <3>2. h \in Handlers \ {g} /\ Busy(h) => op[h].id # op[g].id
      BY <2>1, <3>1 DEF OnlyTheirs
    <3>3. QED
      BY <2>1, <3>1, <3>2
  <2>4. ASSUME op'[g].id \notin shared', NEW f \in Handlers \ {g}, Busy(f)'
        PROVE  op'[f].id # op'[g].id
    <3>1. CASE Busy(f) /\ op'[f].id = op[f].id
      BY <2>1, <2>4, <3>1 DEF OnlyTheirs
    <3>2. CASE ~(Busy(f) /\ op'[f].id = op[f].id)
      <4>1. f = h
        BY <2>4, <3>2 DEF Others, Busy
      <4>2. QED
        BY <2>4, <3>2, <4>1
    <3>3. QED
      BY <3>1, <3>2
  <2>5. ASSUME op'[g].id \notin shared', NEW i \in Ids, Live(i)', row'[i].by = op'[g].id
        PROVE  i \in doubted' \/ op'[g].pc = "answer"
    <3>1. Live(i) /\ row[i].by = op[g].id
      BY <2>1, <2>5
    <3>2. i \in doubted \/ op[g].pc = "answer"
      BY <2>1, <2>5, <3>1 DEF OnlyTheirs
    <3>3. QED
      BY <2>1, <3>2
  <2>6. QED
    BY <2>2, <2>3, <2>4, <2>5
<1>3. QED
  BY <1>1, <1>2

LEMMA OnlyTheirsNext ==
    ASSUME TypeOK, TypeOK', StepsSound, OnlyTheirs, UsedOnce, [Next]_vars
    PROVE  OnlyTheirs'
<1>0. /\ shared \subseteq shared' /\ doubted \subseteq doubted'
      /\ \A i \in Ids : ~New(i) => ~New(i)'
  BY Histories, RowsAge
<1>1. NoId \notin Ids
  BY CaptureAssumption
<1>2. ASSUME NEW h \in Handlers, NEW t \in Texts, NEW R \in SUBSET Refs,
             CaptureText(h, t, R) \/ Remember(h, t, R)
      PROVE  OnlyTheirs'
  <2>1. PICK pc \in {"probe", "dedup"} : Begin(h, pc, t, R)
    BY <1>2 DEF CaptureText, Remember
  <2>2. Others(h) /\ op'[h].id = NoId
    BY <2>1, BeginMoves
  <2>3. row' = row /\ undone' = undone
    BY <2>1 DEF Begin
  <2>4. \A i \in Ids : Live(i)' /\ row'[i].by \in Ids => Live(i) /\ row'[i].by = row[i].by
    BY <2>3 DEF Live
  <2>5. QED
    BY <1>0, <1>1, <2>2, <2>3, <2>4, TheirsKept
<1>3. ASSUME NEW h \in Handlers, Dedup(h) PROVE OnlyTheirs'
  <2>1. row' = row /\ undone' = undone
    BY <1>3 DEF Dedup
  <2>2. \A i \in Ids : Live(i)' /\ row'[i].by \in Ids => Live(i) /\ row'[i].by = row[i].by
    BY <2>1 DEF Live
  <2>3. Busy(h) /\ Others(h) /\ op[h].pc = "dedup"
    BY <1>3, StepMoves DEF Dedup, At, Step
  <2>4. \/ op'[h].id = op[h].id
        \/ op'[h].id \in shared' /\ row[op'[h].id].st # "new"
    BY <1>3, DedupMoves DEF Moved, Holds, Live
  <2>5. QED
    BY <1>0, <2>1, <2>2, <2>3, <2>4, TheirsKept
<1>4. ASSUME NEW h \in Handlers, NEW i \in Ids, Joined(h, i), Moved(h, "upsert", op[h].cand, i),
             undone' = undone
      PROVE  OnlyTheirs'
  <2>1. row' = row /\ i \in shared' /\ row[i].st # "new"
    BY <1>4 DEF Joined, Holds, Live
  <2>2. \A j \in Ids : Live(j)' /\ row'[j].by \in Ids => Live(j) /\ row'[j].by = row[j].by
    BY <2>1 DEF Live
  <2>3. QED
    BY <1>0, <1>4, <2>1, <2>2, TheirsKept DEF Moved
<1>5. ASSUME NEW h \in Handlers, NEW i \in Ids, Inserted(h, i), Moved(h, "upsert", op[h].cand, i),
             undone' = undone, doubted' = doubted
      PROVE  OnlyTheirs'
  <2>1. /\ New(i) /\ shared' = shared /\ row'[i].st = "live" /\ row'[i].by = NoId
        /\ \A j \in Ids \ {i} : row'[j] = row[j]
    BY <1>5 DEF Inserted, New, TypeOK
  <2>2. \A g \in Handlers \ {h} : op'[g] = op[g]
    BY <1>5 DEF Moved, Others
  <2>3. \A g \in Handlers : Busy(g) => op[g].id # i
    BY <2>1 DEF OnlyTheirs
  <2>4. i \notin undone
    BY <2>1 DEF UsedOnce
  <2>5. \A j \in Ids : Live(j)' => row'[j].by # i
    BY <1>1, <2>1 DEF Live, UsedOnce
  <2>6. ASSUME NEW g \in Handlers, Busy(g)', op'[g].id \in Ids
        PROVE  /\ row'[op'[g].id].st # "new"
               /\ op'[g].id \notin shared' =>
                    /\ op'[g].id \notin undone'
                    /\ \A f \in Handlers \ {g} : Busy(f)' => op'[f].id # op'[g].id
                    /\ \A j \in Ids : Live(j)' /\ row'[j].by = op'[g].id =>
                          j \in doubted' \/ op'[g].pc = "answer"
    <3>1. CASE g = h
      <4>1. op'[g].id = i
        BY <1>5, <3>1 DEF Moved
      <4>2. QED
        BY <1>5, <2>1, <2>2, <2>3, <2>4, <2>5, <3>1, <4>1 DEF Busy
    <3>2. CASE g # h
      <4>1. op'[g] = op[g] /\ Busy(g) /\ op[g].id # i
        BY <2>2, <2>3, <2>6, <3>2 DEF Busy
      <4>2. row'[op'[g].id].st # "new"
        BY <2>1, <2>6, <4>1 DEF OnlyTheirs, New
      <4>3. ASSUME op'[g].id \notin shared', NEW f \in Handlers \ {g}, Busy(f)'
            PROVE  op'[f].id # op'[g].id
        <5>1. CASE f = h
          BY <1>5, <4>1, <5>1 DEF Moved
        <5>2. CASE f # h
          BY <2>1, <2>2, <2>6, <4>1, <4>3, <5>2 DEF OnlyTheirs, Busy
        <5>3. QED
          BY <5>1, <5>2
      <4>4. ASSUME op'[g].id \notin shared', NEW j \in Ids, Live(j)', row'[j].by = op'[g].id
            PROVE  j \in doubted' \/ op'[g].pc = "answer"
        <5>1. j # i
          BY <1>1, <2>1, <2>6, <4>4
        <5>2. Live(j) /\ row[j].by = op[g].id
          BY <2>1, <4>1, <4>4, <5>1 DEF Live
        <5>3. QED
          BY <1>5, <2>1, <2>6, <4>1, <4>4, <5>2 DEF OnlyTheirs
      <4>5. op'[g].id \notin shared' => op'[g].id \notin undone'
        BY <1>5, <2>1, <2>6, <4>1 DEF OnlyTheirs
      <4>6. QED
        BY <4>2, <4>3, <4>4, <4>5
    <3>3. QED
      BY <3>1, <3>2
  <2>7. QED
    BY <2>6 DEF OnlyTheirs, New
<1>6. ASSUME NEW h \in Handlers, Insert(h) PROVE OnlyTheirs'
  <2>1. UNCHANGED <<undone, doubted>>
    BY <1>6 DEF Insert
  <2>2. QED
    BY <1>4, <1>5, <1>6, <2>1, InsertMoves
<1>7. ASSUME NEW h \in Handlers, Mark(h) \/ MarkFails(h) PROVE OnlyTheirs'
  <2>1. Busy(h) /\ op[h].pc = "mark" /\ op[h].id \in Ids /\ op[h].cand \in Ids
    BY <1>7 DEF Mark, MarkFails, At, StepsSound
  <2>2. UNCHANGED <<undone, shared>>
    BY <1>7 DEF Mark, MarkFails
  <2>3. /\ Others(h) /\ op'[h].id = op[h].id /\ op'[h].pc \in {"answer", "undo"} /\ op'[h] # Idle
        /\ row' = row \/ op'[h].pc = "answer" \/ op[h].cand \in doubted'
    BY <1>7, MarkMoves DEF Moved
  <2>4. PICK c \in Ids : c = op[h].cand
    BY <2>1
  <2>5. PICK k \in Ids : k = op[h].id
    BY <2>1
  <2>6. \A i \in Ids : row'[i] = row[i] \/ (i = c /\ Live(c) /\ row'[i].by = k)
    BY <1>7, <2>1, <2>4, <2>5, MarkRows
  <2>7. ASSUME NEW g \in Handlers, Busy(g)', op'[g].id \in Ids
        PROVE  /\ row'[op'[g].id].st # "new"
               /\ op'[g].id \notin shared' =>
                    /\ op'[g].id \notin undone'
                    /\ \A f \in Handlers \ {g} : Busy(f)' => op'[f].id # op'[g].id
                    /\ \A j \in Ids : Live(j)' /\ row'[j].by = op'[g].id =>
                          j \in doubted' \/ op'[g].pc = "answer"
    <3>1. Busy(g) /\ op'[g].id = op[g].id
      BY <2>1, <2>3, <2>7 DEF Others, Busy
    <3>2. \A f \in Handlers : Busy(f)' => Busy(f) /\ op'[f].id = op[f].id
      BY <2>1, <2>3 DEF Others, Busy
    <3>3. PICK n \in Ids : n = op[g].id
      BY <2>7, <3>1
    <3>4. ~New(n)'
      BY <1>0, <3>1, <3>3 DEF OnlyTheirs
    <3>5. ASSUME n \notin shared
          PROVE  /\ n \notin undone
                 /\ \A f \in Handlers \ {g} : Busy(f)' => op'[f].id # n
      BY <3>1, <3>2, <3>3, <3>5 DEF OnlyTheirs
    <3>6. ASSUME n \notin shared, NEW j \in Ids, Live(j)', row'[j].by = n
          PROVE  j \in doubted' \/ op'[g].pc = "answer"
      <4>1. CASE row'[j] = row[j]
        <5>1. Live(j) /\ row[j].by = op[g].id
          BY <3>3, <3>6, <4>1 DEF Live
        <5>2. j \in doubted \/ op[g].pc = "answer"
          BY <3>1, <3>3, <3>6, <5>1 DEF OnlyTheirs
        <5>3. g # h => op'[g] = op[g]
          BY <2>3 DEF Others
        <5>4. QED
          BY <1>0, <2>1, <5>2, <5>3
      <4>2. CASE row'[j] # row[j]
        <5>1. j = c /\ k = n
          BY <2>6, <3>6, <4>2
        <5>2. g = h
          BY <2>1, <2>5, <3>1, <3>3, <3>6, <5>1 DEF OnlyTheirs
        <5>3. QED
          BY <2>3, <2>4, <4>2, <5>1, <5>2
      <4>3. QED
        BY <4>1, <4>2
    <3>7. QED
      BY <2>2, <3>1, <3>3, <3>4, <3>5, <3>6 DEF New
  <2>8. QED
    BY <2>7 DEF OnlyTheirs, New
<1>8. ASSUME NEW h \in Handlers, Step(h), ~Dedup(h), ~Insert(h), ~Mark(h), ~MarkFails(h)
      PROVE  OnlyTheirs'
  <2>1. \A k \in undone' : k \in undone \/ (op[h].id = k /\ Undo(h))
    <3>1. CASE Undo(h)
      BY <3>1 DEF Undo
    <3>2. CASE ~Undo(h)
      BY <1>8, <3>2
      DEF Step, Probe, ProbeBlind, Overwrite, OverwriteVector, OverwriteRefs, Bump, Merge,
         Upsert, Answer, Abort
    <3>3. QED
      BY <3>1, <3>2
  <2>2. Undo(h) => Over(h)
    BY OtherMoves
  <2>3. Busy(h) /\ Others(h)
    BY <1>8, StepMoves
  <2>4. \/ Over(h)
        \/ op[h].pc # "answer" /\ op'[h].id = op[h].id
    <3>1. CASE Probe(h)
      BY <3>1, ProbeMoves DEF Moved, Probe, At
    <3>2. CASE Overwrite(h)
      BY <3>2, OverwriteMoves DEF Moved, Overwrite, At
    <3>3. CASE ~Probe(h) /\ ~Overwrite(h)
      BY <1>8, <3>3, OtherMoves
      DEF Moved, Step, ProbeBlind, OverwriteVector, Bump, Merge, Upsert, At
    <3>4. QED
      BY <3>1, <3>2, <3>3
  <2>5. \A i \in Ids : Live(i)' /\ row'[i].by \in Ids => Live(i) /\ row'[i].by = row[i].by
    <3>1. CASE row' = row
      BY <3>1 DEF Live
    <3>2. CASE row' # row
      <4>1. Overwrite(h) \/ Undo(h)
        BY <1>8, <3>2 DEF Step, Probe, ProbeBlind, OverwriteVector, OverwriteRefs, Bump, Merge,
           Upsert, Answer, Abort
      <4>2. ASSUME NEW i \in Ids, Live(i)', row'[i].by \in Ids
            PROVE  Live(i) /\ row'[i].by = row[i].by
        <5>1. row \in [Ids -> Row] /\ row[i] \in Row
          BY DEF TypeOK
        <5>2. CASE Overwrite(h)
          <6>1. PICK c : c = op[h].cand
            OBVIOUS
          <6>2. PICK t : t = op[h].text
            OBVIOUS
          <6>3. row' = [row EXCEPT ![c].text = t, ![c].by = NoId]
            BY <3>2, <5>2, <6>1, <6>2, OverwriteMoves
          <6>4. CASE c = i
            <7>1. row'[i] = [row[i] EXCEPT !.text = t, !.by = NoId]
              BY <5>1, <6>3, <6>4
            <7>2. QED
              BY <1>1, <4>2, <5>1, <7>1 DEF Row
          <6>5. CASE c # i
            <7>1. row'[i] = row[i]
              BY <5>1, <6>3, <6>5
            <7>2. QED
              BY <4>2, <7>1 DEF Live
          <6>6. QED
            BY <6>4, <6>5
        <5>3. CASE Undo(h)
          <6>1. row'[i] = row[i] \/ row'[i] = [row[i] EXCEPT !.st = "gone"]
            BY <5>3 DEF Undo, Delete
          <6>2. QED
            BY <4>2, <5>1, <6>1 DEF Row, Live
        <5>4. QED
          BY <4>1, <5>2, <5>3
      <4>3. QED
        BY <4>2
    <3>3. QED
      BY <3>1, <3>2
  <2>6. \A k \in undone' : k \in undone \/ (h \in Handlers /\ Busy(h) /\ op[h].id = k /\ ~Busy(h)')
    BY <2>1, <2>2, <2>3 DEF Over, Busy
  <2>7. Busy(h)' => Busy(h) /\ op'[h].id = op[h].id /\ (op[h].pc = "answer" => op'[h].pc = "answer")
    BY <2>3, <2>4 DEF Over, Busy
  <2>8. QED
    BY <1>0, <2>3, <2>5, <2>6, <2>7, TheirsKept
<1>9. CASE /\ op' = op /\ undone' = undone
           /\ \A i \in Ids : row'[i].by = row[i].by /\ (Live(i)' => Live(i))
  <2>1. Others(NoId)
    BY <1>9 DEF Others
  <2>2. \A i \in Ids : Live(i)' /\ row'[i].by \in Ids => Live(i) /\ row'[i].by = row[i].by
    BY <1>9
  <2>3. Busy(NoId)' => Busy(NoId)
    BY <1>9 DEF Busy
  <2>4. QED
    BY <1>0, <1>9, <2>1, <2>2, <2>3, TheirsKept
<1>10. ASSUME \/ UNCHANGED vars
              \/ \E i \in Ids, t \in Texts : Rewrite(i, t)
              \/ \E S : Forgotten(S)
              \/ \E i \in Ids : Reindex(i)
       PROVE  /\ op' = op /\ undone' = undone
              /\ \A i \in Ids : row'[i].by = row[i].by /\ (Live(i)' => Live(i))
  <2>1. row \in [Ids -> Row] /\ \A i \in Ids : row[i] \in Row
    BY DEF TypeOK
  <2>2. CASE UNCHANGED <<op, undone, row>>
    BY <2>2 DEF Live
  <2>3. ASSUME NEW j \in Ids, NEW t \in Texts, Rewrite(j, t), NEW i \in Ids
        PROVE  row'[i].by = row[i].by /\ (Live(i)' => Live(i))
    <3>1. row'[i] = row[i] \/ row'[i] = [row[i] EXCEPT !.text = t]
      BY <2>1, <2>3 DEF Rewrite
    <3>2. QED
      BY <2>1, <3>1 DEF Row, Live
  <2>4. ASSUME NEW S, Forgotten(S), NEW i \in Ids
        PROVE  row'[i].by = row[i].by /\ (Live(i)' => Live(i))
    <3>1. row'[i] = row[i] \/ row'[i] = [row[i] EXCEPT !.st = "gone"]
      BY <2>4 DEF Forgotten, Delete
    <3>2. QED
      BY <2>1, <3>1 DEF Row, Live
  <2>5. QED
    BY <1>10, <2>2, <2>3, <2>4 DEF Rewrite, Forgotten, Reindex, vars
<1>11. QED
  BY <1>2, <1>3, <1>6, <1>7, <1>8, <1>9, <1>10 DEF Next, Forget, ForgetBySource

-----------------------------------------------------------------------------
(* One of two facts is hidden, and its successor stays. *)

LEMMA SuccessorStaysNext ==
    ASSUME TypeOK, TypeOK', StepsSound, OnlyTheirs, UsedOnce, SuccessorStays, [Next]_vars
    PROVE  SuccessorStays'
<1> SUFFICES ASSUME NEW i \in Ids, Live(i)', row'[i].by \in undone'
             PROVE  row'[i].by \in shared' \/ i \in doubted'
  BY DEF SuccessorStays
<1>1. row'[i].by \in Ids /\ row'[i].by # NoId
  BY CaptureAssumption DEF TypeOK
<1>2. PICK k \in Ids : k = row'[i].by
  BY <1>1
<1>3. shared \subseteq shared' /\ doubted \subseteq doubted'
  BY Histories
<1>4. Live(i) /\ (k = row[i].by \/ \E h \in Handlers : Marks(h, i))
  BY <1>1, <1>2, RowsAge
<1>5. CASE k = row[i].by /\ k \in undone
  BY <1>2, <1>3, <1>4, <1>5 DEF SuccessorStays
<1>6. CASE k = row[i].by /\ k \notin undone
  <2>1. PICK h \in Handlers : Undo(h) /\ op[h].id = k
    BY <1>2, <1>6, Histories
  <2>2. Busy(h) /\ op[h].pc = "undo"
    BY <2>1 DEF Undo, At
  <2>3. QED
    BY <1>2, <1>3, <1>4, <1>6, <2>1, <2>2 DEF OnlyTheirs
<1>7. CASE \E h \in Handlers : Marks(h, i)
  <2>1. PICK h \in Handlers : Marks(h, i)
    BY <1>7
  <2>2. Busy(h) /\ op[h].id = k /\ undone' = undone
    BY <1>2, <2>1 DEF Marks, Mark, MarkFails, At
  <2>3. QED
    BY <1>2, <1>3, <2>2 DEF OnlyTheirs
<1>8. QED
  BY <1>4, <1>5, <1>6, <1>7

Clash(i, j) == Visible(i) /\ Visible(j) /\ <<row[i].text, row[j].text>> \in Contradicts

LEMMA FactsKept ==
    ASSUME OneFactVisible, NEW h, Others(h), loose \subseteq loose',
           \A i, j \in Ids : Clash(i, j)' =>
              \/ i \in loose' \/ j \in loose' \/ (h \in Handlers /\ Storing(h, i, j)')
              \/ Clash(i, j) /\ (h \in Handlers /\ Storing(h, i, j) => Storing(h, i, j)')
    PROVE  OneFactVisible'
<1> SUFFICES ASSUME NEW i \in Ids, NEW j \in Ids, Clash(i, j)', i \notin loose', j \notin loose'
             PROVE  \E g \in Handlers : Storing(g, i, j)'
  BY DEF OneFactVisible, Clash
<1>1. CASE h \in Handlers /\ Storing(h, i, j)'
  BY <1>1
<1>2. CASE Clash(i, j) /\ (h \in Handlers /\ Storing(h, i, j) => Storing(h, i, j)')
  <2>1. PICK g \in Handlers : Storing(g, i, j)
    BY <1>2 DEF OneFactVisible, Clash
  <2>2. CASE g = h
    BY <1>2, <2>1, <2>2
  <2>3. CASE g # h
    BY <2>1, <2>3 DEF Others, Storing, Busy
  <2>4. QED
    BY <2>2, <2>3
<1>3. QED
  BY <1>1, <1>2

\* Nothing becomes visible and no text changes.
LEMMA FactsQuiet ==
    ASSUME OneFactVisible, NEW h, Others(h), loose \subseteq loose',
           \A i \in Ids : Visible(i)' => Visible(i) /\ row'[i].text = row[i].text,
           \A i, j \in Ids : h \in Handlers /\ Storing(h, i, j) /\ Clash(i, j)' =>
              Storing(h, i, j)' \/ i \in loose' \/ j \in loose'
    PROVE  OneFactVisible'
<1>1. \A i, j \in Ids : Clash(i, j)' => Clash(i, j)
  BY DEF Clash
<1>2. QED
  BY <1>1, FactsKept

\* A row that takes text t with its candidate in view.
LEMMA Knowingly ==
    ASSUME TypeOK, NEW t \in Texts, NEW i \in Ids, NEW c \in Ids \cup {NoId}, NEW j \in Ids,
           loose' = loose \cup Loosened(t, i, c), j # i, Visible(j),
           <<row[j].text, t>> \in Contradicts \/ <<t, row[j].text>> \in Contradicts
    PROVE  i \in loose' \/ j = c
<1>1. row[j].text \in Texts
  BY CaptureAssumption
<1>2. <<row[j].text, t>> \in Contradicts
  BY <1>1, CaptureAssumption
<1>3. CASE j # c
  BY <1>2, <1>3 DEF Loosened, Opposed
<1>4. QED
  BY <1>3

\* Row i takes text t: every clash is with a row that was visible before, or is excused.
LEMMA Retold ==
    ASSUME TypeOK, OneFactVisible, NEW h, Others(h), NEW t \in Texts, NEW i \in Ids,
           NEW c \in Ids \cup {NoId}, loose' = loose \cup Loosened(t, i, c), row'[i].text = t,
           \A j \in Ids \ {i} : row'[j] = row[j],
           c \in Ids \ {i} => h \in Handlers /\ Storing(h, i, c)' /\ Storing(h, c, i)',
           \A k, j \in Ids : h \in Handlers /\ Storing(h, k, j) => Storing(h, k, j)'
    PROVE  OneFactVisible'
<1>1. <<t, t>> \notin Contradicts
  BY CaptureAssumption
<1>2. ASSUME NEW k \in Ids, NEW j \in Ids, Clash(k, j)'
      PROVE  \/ k \in loose' \/ j \in loose' \/ (h \in Handlers /\ Storing(h, k, j)')
             \/ Clash(k, j) /\ (h \in Handlers /\ Storing(h, k, j) => Storing(h, k, j)')
  <2>1. CASE k # i /\ j # i
    BY <1>2, <2>1 DEF Clash, Visible, Live
  <2>2. CASE k = i /\ j = i
    BY <1>1, <1>2, <2>2 DEF Clash
  <2>3. CASE k = i /\ j # i
    <3>1. Visible(j) /\ <<t, row[j].text>> \in Contradicts
      BY <1>2, <2>3 DEF Clash, Visible, Live
    <3>2. i \in loose' \/ j = c
      BY <2>3, <3>1, Knowingly
    <3>3. QED
      BY <2>3, <3>2
  <2>4. CASE k # i /\ j = i
    <3>1. Visible(k) /\ <<row[k].text, t>> \in Contradicts
      BY <1>2, <2>4 DEF Clash, Visible, Live
    <3>2. i \in loose' \/ k = c
      BY <2>4, <3>1, Knowingly
    <3>3. QED
      BY <2>4, <3>2
  <2>5. QED
    BY <2>1, <2>2, <2>3, <2>4
<1>3. QED
  BY <1>2, FactsKept

LEMMA OneFactVisibleNext ==
    ASSUME TypeOK, StepsSound, OneFactVisible, [Next]_vars
    PROVE  OneFactVisible'
<1>0. row \in [Ids -> Row] /\ \A i \in Ids : row[i] \in Row
  BY DEF TypeOK
<1>1. NoId \notin Ids
  BY CaptureAssumption
<1>2. ASSUME NEW S, Delete(S)
      PROVE  \A i \in Ids : Visible(i)' => Visible(i) /\ row'[i].text = row[i].text
  <2>1. ASSUME NEW i \in Ids, Visible(i)' PROVE Visible(i) /\ row'[i].text = row[i].text
    <3>1. row'[i] = row[i] \/ row'[i] = [row[i] EXCEPT !.st = "gone"]
      BY <1>2 DEF Delete
    <3>2. QED
      BY <1>0, <2>1, <3>1 DEF Row, Visible, Live
  <2>2. QED
    BY <2>1
<1>3. ASSUME NEW h \in Handlers, NEW t \in Texts, NEW R \in SUBSET Refs,
             CaptureText(h, t, R) \/ Remember(h, t, R)
      PROVE  OneFactVisible'
  <2>1. PICK pc \in {"probe", "dedup"} : Begin(h, pc, t, R)
    BY <1>3 DEF CaptureText, Remember
  <2>2. Others(h) /\ op[h] = Idle /\ UNCHANGED <<row, loose>>
    BY <2>1, BeginMoves DEF Begin
  <2>3. QED
    BY <2>2, FactsQuiet DEF Visible, Live, Storing, Busy
<1>4. ASSUME NEW h \in Handlers, Overwrite(h) PROVE OneFactVisible'
  <2>1. Others(h) /\ op[h].pc = "update" /\ op[h].cand \in Ids /\ op[h].text \in Texts
    BY <1>4, StepMoves, BusyOp DEF Overwrite, At, StepsSound, Step
  <2>2. \A i, j \in Ids : ~Storing(h, i, j)
    BY <2>1 DEF Storing
  <2>3. CASE UNCHANGED <<row, loose>>
    BY <2>1, <2>2, <2>3, FactsQuiet DEF Visible, Live
  <2>4. CASE ~UNCHANGED <<row, loose>>
    <3>1. PICK c \in Ids : c = op[h].cand
      BY <2>1
    <3>2. PICK t \in Texts : t = op[h].text
      BY <2>1
    <3>3. /\ row' = [row EXCEPT ![c].text = t, ![c].by = NoId]
          /\ loose' = loose \cup Loosened(t, c, c)
      BY <1>4, <2>4, <3>1, <3>2, OverwriteMoves
    <3>4. \A j \in Ids \ {c} : row'[j] = row[j]
      BY <1>0, <3>3
    <3>5. row'[c] = [row[c] EXCEPT !.text = t, !.by = NoId]
      BY <1>0, <3>3
    <3>6. row'[c].text = t
      BY <1>0, <3>5 DEF Row
    <3>7. QED
      BY <2>1, <2>2, <3>3, <3>4, <3>6, Retold
  <2>5. QED
    BY <2>3, <2>4
<1>5. ASSUME NEW h \in Handlers, Insert(h) PROVE OneFactVisible'
  <2>1. /\ Others(h) /\ op[h].pc = "insert" /\ op[h].text \in Texts
        /\ op[h].cand \in Ids \cup {NoId}
    BY <1>5, StepMoves, BusyOp DEF Insert, At, Step
  <2>2. \A i, j \in Ids : ~Storing(h, i, j)
    BY <2>1 DEF Storing
  <2>3. PICK i \in Ids : (Inserted(h, i) \/ Joined(h, i)) /\ Moved(h, "upsert", op[h].cand, i)
    BY <1>5, InsertMoves
  <2>4. CASE Joined(h, i)
    BY <2>1, <2>2, <2>4, FactsQuiet DEF Joined, Visible, Live
  <2>5. CASE Inserted(h, i)
    <3>1. \A c : c = op[h].cand => Storing(h, i, c)' /\ Storing(h, c, i)'
      BY <2>3 DEF Moved, Storing, Busy
    <3>2. row'[i].text = op[h].text /\ \A j \in Ids \ {i} : row'[j] = row[j]
      BY <1>0, <2>5 DEF Inserted
    <3>3. loose' = loose \cup Loosened(op[h].text, i, op[h].cand)
      BY <2>5 DEF Inserted
    <3>4. QED
      BY <2>1, <2>2, <3>1, <3>2, <3>3, Retold
  <2>6. QED
    BY <2>3, <2>4, <2>5
<1>6. ASSUME NEW h \in Handlers, Mark(h) \/ MarkFails(h) PROVE OneFactVisible'
  <2>1. op[h].id \in Ids /\ op[h].cand \in Ids /\ loose' = loose
    BY <1>6 DEF Mark, MarkFails, At, StepsSound
  <2>2. /\ Others(h) /\ op'[h].cand = op[h].cand /\ op'[h].id = op[h].id /\ op'[h] # Idle
        /\ op'[h].pc = "undo" \/ op'[h].pc = "answer"
    <3>1. Moved(h, "undo", op[h].cand, op[h].id) \/ Moved(h, "answer", op[h].cand, op[h].id)
      BY <1>6, MarkMoves
    <3>2. QED
      BY <3>1 DEF Moved
  <2>3. \A i \in Ids : Visible(i)' => row'[i] = row[i] /\ ~(i = op[h].cand /\ op'[h].pc = "answer")
    BY <1>1, <1>6, <2>1, MarkRows DEF Visible
  <2>4. \A i \in Ids : Visible(i)' => Visible(i) /\ row'[i].text = row[i].text
    BY <2>3 DEF Visible, Live
  <2>5. ASSUME NEW i \in Ids, NEW j \in Ids, Storing(h, i, j), Clash(i, j)'
        PROVE  Storing(h, i, j)'
    <3>1. op'[h].pc = "undo"
      BY <2>1, <2>2, <2>3, <2>5 DEF Storing, Clash
    <3>2. QED
      BY <2>2, <2>5, <3>1 DEF Storing, Busy
  <2>6. QED
    BY <2>1, <2>2, <2>4, <2>5, FactsQuiet
<1>7. ASSUME NEW h \in Handlers, Upsert(h) \/ Abort(h) PROVE OneFactVisible'
  <2>1. Others(h) /\ row' = row /\ Busy(h)
    BY <1>7, StepMoves DEF Upsert, Abort, Step
  <2>2. loose \subseteq loose'
    BY <1>7 DEF Upsert, Abort
  <2>3. ASSUME NEW i \in Ids, NEW j \in Ids, Storing(h, i, j)
        PROVE  Storing(h, i, j)' \/ i \in loose' \/ j \in loose'
    <3>1. op[h].cand # NoId /\ op[h].id \in {i, j} /\ op[h].pc \in {"upsert", "mark", "undo"}
      BY <1>1, <2>3 DEF Storing
    <3>2. CASE Upsert(h)
      <4>1. Moved(h, "mark", op[h].cand, op[h].id)
        BY <3>1, <3>2, OtherMoves DEF Rest
      <4>2. QED
        BY <2>3, <4>1 DEF Storing, Moved, Busy
    <3>3. CASE Abort(h)
      BY <3>1, <3>3 DEF Abort
    <3>4. QED
      BY <1>7, <3>2, <3>3
  <2>4. QED
    BY <2>1, <2>2, <2>3, FactsQuiet DEF Visible, Live
<1>8. ASSUME NEW h \in Handlers, Undo(h) PROVE OneFactVisible'
  <2>1. Others(h) /\ loose' = loose /\ op[h].id \in Ids
    BY <1>8, StepMoves DEF Undo, Step, At, StepsSound
  <2>2. \A i \in Ids : Visible(i)' => Visible(i) /\ row'[i].text = row[i].text
    BY <1>2, <1>8 DEF Undo
  <2>3. ASSUME NEW k \in Ids, k = op[h].id PROVE ~Visible(k)'
    <3>1. CASE Live(k)
      <4>1. k \in {i \in {op[h].id} : Live(i)}
        BY <2>3, <3>1
      <4>2. row'[k] = [row[k] EXCEPT !.st = "gone"]
        BY <1>8, <4>1 DEF Undo, Delete
      <4>3. QED
        BY <1>0, <4>2 DEF Visible, Live, Row
    <3>2. CASE ~Live(k)
      BY <2>2, <3>2 DEF Visible
    <3>3. QED
      BY <3>1, <3>2
  <2>4. \A i, j \in Ids : Storing(h, i, j) => ~Clash(i, j)'
    BY <2>1, <2>3 DEF Storing, Clash
  <2>5. QED
    BY <2>1, <2>2, <2>4, FactsQuiet
<1>9. ASSUME NEW h \in Handlers, Step(h), ~Overwrite(h), ~Insert(h), ~Mark(h), ~MarkFails(h),
             ~Upsert(h), ~Abort(h), ~Undo(h)
      PROVE  OneFactVisible'
  <2>1. Others(h)
    BY <1>9, StepMoves
  <2>2. row' = row /\ loose' = loose /\ op[h].pc \notin {"upsert", "mark", "undo"}
    BY <1>9
    DEF Step, Probe, ProbeBlind, OverwriteVector, OverwriteRefs, Dedup, Bump, Merge, Answer, At
  <2>3. QED
    BY <2>1, <2>2, FactsQuiet DEF Visible, Live, Storing
<1>10. ASSUME NEW i \in Ids, NEW t \in Texts, Rewrite(i, t) PROVE OneFactVisible'
  <2>1. op' = op /\ row' = [row EXCEPT ![i].text = t]
    BY <1>10 DEF Rewrite
  <2>2. \A j \in Ids \ {i} : row'[j] = row[j]
    BY <1>0, <2>1
  <2>3. row'[i] = [row[i] EXCEPT !.text = t]
    BY <1>0, <2>1
  <2>4. row'[i].text = t /\ row'[i].st = row[i].st /\ row'[i].by = row[i].by
    BY <1>0, <2>3 DEF Row
  <2>5. Others(NoId) /\ \A k, j \in Ids : Storing(NoId, k, j) => Storing(NoId, k, j)'
    BY <2>1 DEF Others, Storing, Busy
  <2>6. CASE Visible(i)
    <3>1. loose' = loose \cup Loosened(t, i, i)
      BY <1>10, <2>6 DEF Rewrite
    <3>2. QED
      BY <2>2, <2>4, <2>5, <3>1, Retold
  <2>7. CASE ~Visible(i)
    <3>1. loose' = loose /\ ~Visible(i)'
      BY <1>10, <2>4, <2>7 DEF Rewrite, Visible, Live
    <3>2. \A j \in Ids : Visible(j)' => Visible(j) /\ row'[j].text = row[j].text
      BY <2>2, <3>1 DEF Visible, Live
    <3>3. QED
      BY <2>5, <3>1, <3>2, FactsQuiet
  <2>8. QED
    BY <2>6, <2>7
<1>11. CASE \/ UNCHANGED vars
            \/ \E i \in Ids : Reindex(i)
            \/ \E S : Forgotten(S)
  <2>1. op' = op /\ loose' = loose
    BY <1>11 DEF vars, Reindex, Forgotten
  <2>2. \A i \in Ids : Visible(i)' => Visible(i) /\ row'[i].text = row[i].text
    <3>1. CASE row' = row
      BY <3>1 DEF Visible, Live
    <3>2. CASE \E S : Delete(S)
      BY <1>2, <3>2
    <3>3. QED
      BY <1>11, <3>1, <3>2 DEF vars, Reindex, Forgotten
  <2>3. Others(NoId) /\ \A k, j \in Ids : Storing(NoId, k, j) => Storing(NoId, k, j)'
    BY <2>1 DEF Others, Storing, Busy
  <2>4. QED
    BY <2>1, <2>2, <2>3, FactsQuiet
<1>12. QED
  BY <1>3, <1>4, <1>5, <1>6, <1>7, <1>8, <1>9, <1>10, <1>11 DEF Next, Forget, ForgetBySource

-----------------------------------------------------------------------------
(* What came from a source can be forgotten. *)

\* Source r is on the list of row i, or on its way there, or its write ended half way.
Owes(h, i, r) ==
    h \in Handlers /\ Busy(h) /\ op[h].pc \in {"vector", "refs"} /\ op[h].cand = i /\ r \in op[h].refs
Traced(i, r) == r \in refs[i] \/ r \in torn[i] \/ \E h \in Handlers : Owes(h, i, r)
AllTraced == \A i \in Ids : Live(i) => \A r \in source[i] : Traced(i, r)

LEMMA TracedIsForgettable == (AllTraced <=> Forgettable) /\ (AllTraced' <=> Forgettable')
<1>1. AllTraced <=> Forgettable
  BY DEF AllTraced, Forgettable, Traced, Owes
<1>2. AllTraced' <=> Forgettable'
  BY DEF AllTraced, Forgettable, Traced, Owes
<1>3. QED
  BY <1>1, <1>2

\* A step of h after which the sources of every row are older ones, or traced.
LEMMA TracedKept ==
    ASSUME AllTraced, NEW h, Others(h), \A i \in Ids : torn[i] \subseteq torn'[i],
           \A i \in Ids : Live(i)' => \A r \in source'[i] :
              \/ Traced(i, r)'
              \/ /\ Live(i) /\ r \in source[i] /\ refs[i] \subseteq refs'[i]
                 /\ Owes(h, i, r) => Traced(i, r)'
    PROVE  AllTraced'
<1> SUFFICES ASSUME NEW i \in Ids, Live(i)', NEW r \in source'[i], ~Traced(i, r)'
             PROVE  FALSE
  BY DEF AllTraced
<1>1. Live(i) /\ r \in source[i] /\ refs[i] \subseteq refs'[i] /\ ~Owes(h, i, r)
  OBVIOUS
<1>2. Traced(i, r)
  BY <1>1 DEF AllTraced
<1>3. PICK g \in Handlers : Owes(g, i, r)
  BY <1>1, <1>2 DEF Traced
<1>4. op'[g] = op[g]
  BY <1>1, <1>3 DEF Others
<1>5. Owes(g, i, r)'
  BY <1>3, <1>4 DEF Owes, Busy
<1>6. QED
  BY <1>5 DEF Traced

\* A step that touches neither sources nor references.
LEMMA TracedQuiet ==
    ASSUME AllTraced, NEW h, Others(h), UNCHANGED <<source, refs, torn>>,
           \A i \in Ids : Live(i)' => Live(i),
           \A i \in Ids : \A r \in source[i] : Owes(h, i, r) => Owes(h, i, r)'
    PROVE  AllTraced'
<1>1. \A i \in Ids : \A r \in source[i] : Owes(h, i, r) => Traced(i, r)'
  BY DEF Traced, Owes
<1>2. QED
  BY <1>1, TracedKept

LEMMA TracedForgotten ==
    ASSUME TypeOK, AllTraced, NEW h, Others(h), UNCHANGED <<source, torn>>, NEW S, Delete(S),
           Unreferenced(S), \A i \in Ids : \A r : Owes(h, i, r) => Owes(h, i, r)'
    PROVE  AllTraced'
<1>1. ASSUME NEW i \in Ids, Live(i)' PROVE Live(i) /\ refs'[i] = refs[i]
  <2>1. row[i] \in Row
    BY DEF TypeOK
  <2>2. i \notin S
    BY <1>1, <2>1 DEF Delete, Live, Row
  <2>3. QED
    BY <1>1, <2>2 DEF Delete, Unreferenced, Live
<1>2. \A i \in Ids : \A r : Owes(h, i, r) => Traced(i, r)'
  BY DEF Traced, Owes
<1>3. QED
  BY <1>1, <1>2, TracedKept

LEMMA AllTracedNext ==
    ASSUME TypeOK, StepsSound, AllTraced, [Next]_vars
    PROVE  AllTraced'
<1>0. row \in [Ids -> Row] /\ \A i \in Ids : row[i] \in Row
  BY DEF TypeOK
<1>1. ASSUME NEW h \in Handlers, NEW t \in Texts, NEW R \in SUBSET Refs,
             CaptureText(h, t, R) \/ Remember(h, t, R)
      PROVE  AllTraced'
  <2>1. PICK pc \in {"probe", "dedup"} : Begin(h, pc, t, R)
    BY <1>1 DEF CaptureText, Remember
  <2>2. Others(h) /\ op[h] = Idle /\ UNCHANGED <<row, source, refs, torn>>
    BY <2>1, BeginMoves DEF Begin
  <2>3. QED
    BY <2>2, TracedQuiet DEF Live, Owes, Busy
<1>2. ASSUME NEW h \in Handlers, Overwrite(h) PROVE AllTraced'
  <2>1. /\ Others(h) /\ op[h].pc = "update" /\ op[h].cand \in Ids /\ UNCHANGED <<refs, torn>>
    BY <1>2, StepMoves DEF Overwrite, At, StepsSound, Step
  <2>2. CASE UNCHANGED <<row, source, loose>>
    BY <2>1, <2>2, TracedQuiet DEF Live, Owes
  <2>3. CASE ~UNCHANGED <<row, source, loose>>
    <3>1. PICK c \in Ids : c = op[h].cand
      BY <2>1
    <3>2. PICK t : t = op[h].text
      OBVIOUS
    <3>3. /\ Live(c) /\ row' = [row EXCEPT ![c].text = t, ![c].by = NoId]
          /\ source' = [source EXCEPT ![c] = source[c] \cup op[h].refs]
          /\ Moved(h, "vector", c, op[h].id)
      BY <1>2, <2>3, <3>1, <3>2, OverwriteMoves
    <3>4. \A i \in Ids : Live(i)' => Live(i)
      BY <1>0, <3>3 DEF Live
    <3>5. \A r \in op[h].refs : Traced(c, r)'
      BY <3>3 DEF Traced, Owes, Moved, Busy
    <3>6. \A i \in Ids : source'[i] = source[i] \/ (i = c /\ source'[i] = source[c] \cup op[h].refs)
      BY <3>3 DEF TypeOK
    <3>7. \A i, r : ~Owes(h, i, r)
      BY <2>1 DEF Owes
    <3>8. QED
      BY <2>1, <3>4, <3>5, <3>6, <3>7, TracedKept
  <2>4. QED
    BY <2>2, <2>3
<1>3. ASSUME NEW h \in Handlers, OverwriteVector(h) PROVE AllTraced'
  <2>1. Moved(h, "refs", op[h].cand, op[h].id) /\ UNCHANGED <<row, source, refs, torn>>
    BY <1>3, OtherMoves DEF OverwriteVector
  <2>2. QED
    BY <2>1, TracedQuiet DEF Moved, Live, Owes, Busy
<1>4. ASSUME NEW h \in Handlers, OverwriteRefs(h) PROVE AllTraced'
  <2>1. Others(h) /\ UNCHANGED <<row, source, torn>>
    BY <1>4, StepMoves DEF OverwriteRefs, Step
  <2>2. \A i \in Ids : /\ refs[i] \subseteq refs'[i]
                       /\ i = op[h].cand /\ Live(i) => op[h].refs \subseteq refs'[i]
    BY <1>4 DEF OverwriteRefs, RecordRefs, TypeOK
  <2>3. \A i \in Ids : \A r : Live(i) /\ Owes(h, i, r) => Traced(i, r)'
    BY <2>2 DEF Owes, Traced
  <2>4. QED
    BY <2>1, <2>2, <2>3, TracedKept DEF Live
<1>5. ASSUME NEW h \in Handlers, Merge(h) PROVE AllTraced'
  <2>1. Others(h) /\ UNCHANGED <<row, torn>> /\ op[h].pc = "merge"
    BY <1>5, StepMoves DEF Merge, Step, At
  <2>2. PICK k : k = op[h].id
    OBVIOUS
  <2>3. /\ refs' = [refs EXCEPT ![k] = IF Live(k) THEN @ \cup op[h].refs ELSE @]
        /\ source' = [source EXCEPT ![k] = IF Holds(k, op[h].text) THEN @ \cup op[h].refs ELSE @]
    BY <1>5, <2>2 DEF Merge, RecordRefs
  <2>4. \A i \in Ids : /\ refs[i] \subseteq refs'[i]
                       /\ \A r \in source'[i] : r \in source[i] \/ r \in refs'[i]
    BY <2>3 DEF TypeOK, Holds
  <2>5. \A i, r : ~Owes(h, i, r)
    BY <2>1 DEF Owes
  <2>6. QED
    BY <2>1, <2>4, <2>5, TracedKept DEF Live, Traced
<1>6. ASSUME NEW h \in Handlers, Insert(h) PROVE AllTraced'
  <2>1. Others(h) /\ torn' = torn /\ op[h].pc = "insert"
    BY <1>6, StepMoves DEF Insert, Step, At
  <2>2. PICK k \in Ids : Inserted(h, k) \/ Joined(h, k)
    BY <1>6, InsertMoves
  <2>3. \A i \in Ids \ {k} : row'[i] = row[i] /\ source'[i] = source[i] /\ refs'[i] = refs[i]
    BY <2>2 DEF Inserted, Joined, TypeOK
  <2>4. /\ \A r \in source'[k] : r \in refs'[k] \/ (Live(k) /\ r \in source[k])
        /\ Live(k) => refs[k] \subseteq refs'[k]
    BY <2>2 DEF Inserted, Joined, TypeOK, Live, Holds
  <2>5. \A i, r : ~Owes(h, i, r)
    BY <2>1 DEF Owes
  <2>6. ASSUME NEW i \in Ids, Live(i)', NEW r \in source'[i]
        PROVE  Traced(i, r)' \/ (Live(i) /\ r \in source[i] /\ refs[i] \subseteq refs'[i])
    BY <2>3, <2>4, <2>6 DEF Live, Traced
  <2>7. QED
    BY <2>1, <2>5, <2>6, TracedKept
<1>7. ASSUME NEW h \in Handlers, Undo(h) PROVE AllTraced'
  <2>1. Others(h) /\ op[h].pc = "undo" /\ UNCHANGED <<source, torn>>
    BY <1>7, StepMoves DEF Undo, Step, At
  <2>2. PICK S : Delete(S) /\ Unreferenced(S)
    BY <1>7 DEF Undo
  <2>3. QED
    BY <2>1, <2>2, TracedForgotten DEF Owes
<1>8. ASSUME NEW h \in Handlers, Abort(h) PROVE AllTraced'
  <2>1. Others(h) /\ UNCHANGED <<row, source, refs>>
    BY <1>8, StepMoves DEF Abort, Step
  <2>2. \A i \in Ids : /\ torn[i] \subseteq torn'[i]
                       /\ \A r : Owes(h, i, r) => r \in torn'[i]
    BY <1>8 DEF Abort, Owes
  <2>3. QED
    BY <2>1, <2>2, TracedKept DEF Live, Traced
<1>9. ASSUME NEW h \in Handlers, Mark(h) \/ MarkFails(h) PROVE AllTraced'
  <2>1. /\ Others(h) /\ UNCHANGED <<source, refs, torn>> /\ op[h].pc = "mark" /\ op[h].cand \in Ids
    BY <1>9, StepMoves DEF Mark, MarkFails, Step, At, StepsSound
  <2>2. \A i \in Ids : Live(i)' => Live(i)
    BY <1>9, <2>1, MarkRows DEF Live
  <2>3. QED
    BY <2>1, <2>2, TracedQuiet DEF Owes
<1>10. ASSUME NEW h \in Handlers,
              Probe(h) \/ ProbeBlind(h) \/ Dedup(h) \/ Bump(h) \/ Upsert(h) \/ Answer(h)
       PROVE  AllTraced'
  <2>1. Others(h)
    BY <1>10, StepMoves DEF Step
  <2>2. UNCHANGED <<row, source, refs, torn>> /\ op[h].pc \notin {"vector", "refs"}
    BY <1>10 DEF Probe, ProbeBlind, Dedup, Bump, Upsert, Answer, At
  <2>3. QED
    BY <2>1, <2>2, TracedQuiet DEF Owes, Live
<1>11. ASSUME NEW S, Forgotten(S) PROVE AllTraced'
  <2>1. op' = op /\ UNCHANGED <<source, torn>> /\ Delete(S) /\ Unreferenced(S)
    BY <1>11 DEF Forgotten
  <2>2. Others(NoId) /\ \A i \in Ids : \A r : Owes(NoId, i, r) => Owes(NoId, i, r)'
    BY <2>1 DEF Others, Owes, Busy
  <2>3. QED
    BY <2>1, <2>2, TracedForgotten
<1>12. CASE \/ UNCHANGED vars
            \/ \E i \in Ids, t \in Texts : Rewrite(i, t)
            \/ \E i \in Ids : Reindex(i)
  <2>1. op' = op /\ UNCHANGED <<source, refs, torn>>
    BY <1>12 DEF vars, Rewrite, Reindex
  <2>2. \A i \in Ids : Live(i)' => Live(i)
    <3>1. CASE row' = row
      BY <3>1 DEF Live
    <3>2. ASSUME NEW j \in Ids, NEW t \in Texts, Rewrite(j, t) PROVE \A i \in Ids : Live(i)' => Live(i)
      BY <1>0, <3>2 DEF Rewrite, Live
    <3>3. QED
      BY <1>12, <3>1, <3>2 DEF vars, Reindex
  <2>3. Others(NoId) /\ \A i \in Ids : \A r : Owes(NoId, i, r) => Owes(NoId, i, r)'
    BY <2>1 DEF Others, Owes, Busy
  <2>4. QED
    BY <2>1, <2>2, <2>3, TracedQuiet
<1>13. QED
  BY <1>1, <1>2, <1>3, <1>4, <1>5, <1>6, <1>7, <1>8, <1>9, <1>10, <1>11, <1>12
     DEF Next, Step, Forget, ForgetBySource

-----------------------------------------------------------------------------
(* The theorems. *)

LEMMA CInvInit == Init => CInv
<1> SUFFICES ASSUME Init PROVE CInv
  OBVIOUS
<1>1. \A i \in Ids : ~Live(i) /\ source[i] = {} /\ row[i] \in Row /\ row[i].by = NoId
  BY DEF Init, Live, Row
<1>2. \A h \in Handlers : ~Busy(h)
  BY DEF Init, Busy
<1>3. TypeOK
  BY <1>1, <1>2 DEF Init, TypeOK, At
<1>4. QED
  BY <1>1, <1>2, <1>3 DEF CInv, StepsSound, OnlyTheirs, UsedOnce, OneFactVisible, SuccessorStays,
     Forgettable, Visible, Init

LEMMA CInvNext == CInv /\ [Next]_vars => CInv'
<1> SUFFICES ASSUME CInv, [Next]_vars PROVE CInv'
  OBVIOUS
<1>1. TypeOK /\ StepsSound /\ OnlyTheirs /\ UsedOnce /\ OneFactVisible /\ SuccessorStays /\ AllTraced
  BY TracedIsForgettable DEF CInv
<1>2. TypeOK' /\ StepsSound'
  BY <1>1, TypeNext, StepsSoundNext
<1>3. OnlyTheirs' /\ UsedOnce' /\ SuccessorStays'
  BY <1>1, <1>2, OnlyTheirsNext, UsedOnceNext, SuccessorStaysNext
<1>4. OneFactVisible' /\ AllTraced'
  BY <1>1, OneFactVisibleNext, AllTracedNext
<1>5. QED
  BY <1>2, <1>3, <1>4, TracedIsForgettable DEF CInv

\* Every reachable state of a capture: types, a request has the row it works on, and a row
\* that one request only was answered with is that request's to take back
\* (Capture and supersedeWithNewFact of src/go/internal/engine/engine.go).
THEOREM CaptureCorrect == Spec => []CInv
BY CInvInit, CInvNext, PTL DEF Spec

\* One of two facts that exclude each other is hidden, and the one that hid it stays
\* (Capture and supersedeWithNewFact), for any number of writers and any texts.
THEOREM OneOfTwoFacts == Spec => []OneFact
<1>1. CInv => OneFact
  BY DEF CInv, OneFact
<1>2. QED
  BY <1>1, CaptureCorrect, PTL

\* Forgetting a source removes all that was captured from it (AddSourceRefs,
\* ForgetBySource), save for the writes on record that ended between two statements.
THEOREM SourcesAreForgettable == Spec => []Forgettable
<1>1. CInv => Forgettable
  BY DEF CInv
<1>2. QED
  BY <1>1, CaptureCorrect, PTL

-----------------------------------------------------------------------------
(* The query cache of Embedder.  A leader cannot tell anything but what it stored, and what *)
(* the cache holds is led.                                                                *)

Ended == {"ok", "failed", "noteOk", "noteFailed", "done"}
Asks(c) == call[c].pc \in {"ask", "pause"}

\* What a leader stored is what it will be told, until and after it tells it.
LeadersTell ==
    \A c \in Calls :
        /\ Stands(c, "idle") => call[c].lead = NoCall
        /\ entry[c].done => Leads(c) /\ call[c].pc \in Ended /\ call[c].refused = entry[c].err
        /\ Stands(c, "close") =>
              Leads(c) /\ call[c].refused = entry[c].err /\ (~call[c].refused => call[c].from = c)

\* Whoever waits, waits for a leader of the text; whoever asks alone had one that failed.
LedBy(c) == LET d == call[c].lead
            IN  d \in Calls /\ d # c /\ Leads(d) /\ call[d].key = call[c].key
FollowersLed ==
    \A c \in Calls :
        /\ Stands(c, "wait") => call[c].kind = "query" /\ LedBy(c)
        /\ call[c].kind = "query" /\ Asks(c) /\ ~Leads(c) =>
              LedBy(c) /\ entry[call[c].lead].done /\ entry[call[c].lead].err

\* The cache holds leaders, under their text, and every leader that asks.
CacheLeads ==
    /\ \A k \in Cached : Leads(m[k]) /\ call[m[k]].key = k
    /\ \A c \in Calls : Leads(c) /\ Asks(c) => m[call[c].key] = c

\* An answer is one's own, or that of a leader that finished well.
AnswersFrom ==
    \A c \in Calls : Stands(c, "ok") =>
        /\ call[c].from # NoCall /\ ~call[call[c].from].refused
        /\ call[c].from # c => entry[call[c].from].done

EmbedderInv ==
    /\ EmbedderTypeOK /\ LeadersTell /\ FollowersLed /\ CacheLeads /\ AnswersFrom
    /\ OwnFailureOnly /\ FreshAnswers /\ HealthRecovers

\* It holds of an embedder that has had no call.
LEMMA EmbedderStart == EmbedderInit => EmbedderInv
BY EmbedderAssumption
DEF EmbedderInit, EmbedderInv, EmbedderTypeOK, Locals, LeadersTell, FollowersLed,
    LedBy, CacheLeads, AnswersFrom, OwnFailureOnly, FreshAnswers, HealthRecovers, Failing, Fresh, NoEntry,
    Stands, Leads, Asks, Cached

\* What a question sets of its locals stays within their type.
LEMMA QueriesAreLocals ==
  ASSUME NEW y \in Locals, NEW k \in Keys, NEW t \in 0 .. MaxTime
  PROVE  [y EXCEPT !.kind = "query", !.key = k, !.began = t] \in Locals
<1>1. [y EXCEPT !.kind = "query"] \in Locals BY DEF Locals
<1>2. [y EXCEPT !.kind = "query", !.key = k] \in Locals
  <2> DEFINE z == [y EXCEPT !.kind = "query"]
  <2>1. [z EXCEPT !.key = k] \in Locals BY <1>1 DEF Locals
  <2> QED BY <2>1
<1> QED
  <2> DEFINE z == [y EXCEPT !.kind = "query", !.key = k]
  <2>1. [z EXCEPT !.began = t] \in Locals BY <1>2 DEF Locals
  <2> QED BY <2>1

\* One call goes on, and the others stay as they are.
Onward(c, x) == x \in Locals /\ call' = [call EXCEPT ![c] = x]

LEMMA OneMoves ==
    ASSUME EmbedderTypeOK, NEW c \in Calls, NEW x, Onward(c, x)
    PROVE  /\ call' \in [Calls -> Locals] /\ call'[c] = x
           /\ \A d \in Calls : d # c => call'[d] = call[d]
BY DEF Onward, EmbedderTypeOK

\* The end of a request.
LEMMA SettleKeeps ==
    ASSUME EmbedderInv, NEW c \in Calls, Asks(c), NEW pc \in {"ok", "failed"}, Settle(c, pc),
           UNCHANGED <<health, now>>, badAnswers' \in Nat
    PROVE  EmbedderInv'
<1> USE EmbedderAssumption DEF Stands, Leads, Asks
<1>t. EmbedderTypeOK /\ call[c] \in Locals BY DEF EmbedderInv, EmbedderTypeOK
<1>e. entry \in [Calls -> [at : 0 .. MaxTime, done : BOOLEAN, err : BOOLEAN]] /\ now \in 0 .. MaxTime
  BY <1>t DEF EmbedderTypeOK
<1>k. m \in [Keys -> Calls \cup {NoCall}] /\ \A d \in Calls : call[d].key \in Keys
  BY <1>t DEF EmbedderTypeOK, Locals
<1>f. \A d \in Calls : call[d].from \in Calls \cup {NoCall} BY <1>t DEF EmbedderTypeOK, Locals
<1>1. CASE pc = "ok" /\ Leads(c)
  <2> DEFINE x == [call[c] EXCEPT !.pc = "close", !.from = c, !.refused = FALSE]
  <2>1. call' = [call EXCEPT ![c] = x] BY <1>1, <1>t DEF Settle, EmbedderTypeOK, Locals
  <2>2. /\ x \in Locals /\ x.pc = "close" /\ x.from = c /\ x.refused = FALSE /\ x.kind = call[c].kind
        /\ x.key = call[c].key /\ x.lead = call[c].lead /\ x.alive = call[c].alive
        /\ x.began = call[c].began
    BY <1>t DEF Locals
  <2> HIDE DEF x
  <2>3. /\ call' \in [Calls -> Locals] /\ call'[c] = x
        /\ \A d \in Calls : d # c => call'[d] = call[d]
    BY <2>1, <2>2, <1>t, OneMoves DEF Onward
  <2>4. /\ entry' = [entry EXCEPT ![c].at = now, ![c].err = FALSE]
        /\ m' = m
    BY <1>1 DEF Settle
  <2>5. /\ entry' \in [Calls -> [at : 0 .. MaxTime, done : BOOLEAN, err : BOOLEAN]]
        /\ entry'[c].done = entry[c].done /\ entry'[c].err = FALSE
        /\ \A d \in Calls : d # c => entry'[d] = entry[d]
    BY <2>4, <1>e
  <2>6. EmbedderTypeOK'
    <3>1. m' \in [Keys -> Calls \cup {NoCall}] BY <2>4, <1>k
    <3> QED BY <3>1, <2>3, <2>5, <1>t DEF EmbedderTypeOK, health
  <2>7. LeadersTell'
    <3>1. ~entry[c].done BY DEF EmbedderInv, LeadersTell, Ended
    <3>2. ~entry'[c].done BY <3>1, <2>5
    <3>3. \A d \in Calls : d # c => entry'[d] = entry[d] /\ call'[d] = call[d] BY <2>3, <2>5
    <3>4. call'[c].refused = entry'[c].err BY <2>2, <2>3, <2>5
    <3>5. (~call'[c].refused => call'[c].from = c) /\ call'[c].pc = "close" /\ Leads(c)'
      BY <1>1, <2>2, <2>3
    <3> QED BY <3>2, <3>3, <3>4, <3>5 DEF EmbedderInv, LeadersTell, Ended
  <2>8. FollowersLed'
    BY <1>1, <1>t, <2>2, <2>3, <2>4, <2>5 DEF EmbedderInv, LeadersTell, FollowersLed, LedBy, Ended
  <2>9. CacheLeads'
    BY <1>1, <1>t, <2>2, <2>3, <2>4, <2>5
    DEF EmbedderInv, EmbedderTypeOK, Locals, CacheLeads, Cached
  <2>10. AnswersFrom'
    BY <1>1, <1>t, <2>2, <2>3, <2>4, <2>5
    DEF EmbedderInv, EmbedderTypeOK, Locals, LeadersTell, AnswersFrom, Ended
  <2>11. OwnFailureOnly'
    BY <1>1, <2>2, <2>3 DEF EmbedderInv, OwnFailureOnly
  <2>12. FreshAnswers'
    BY <1>1, <1>f, <2>2, <2>3, <2>5 DEF EmbedderInv, LeadersTell, AnswersFrom, FreshAnswers, Ended
  <2>13. HealthRecovers'
    BY DEF EmbedderInv, HealthRecovers, Failing, health
  <2> QED BY <2>6, <2>7, <2>8, <2>9, <2>10, <2>11, <2>12, <2>13 DEF EmbedderInv
<1>2. CASE pc = "failed" /\ Leads(c)
  <2> DEFINE x == [call[c] EXCEPT !.pc = "close", !.from = NoCall, !.refused = TRUE]
  <2>1. call' = [call EXCEPT ![c] = x] BY <1>2, <1>t DEF Settle, EmbedderTypeOK, Locals
  <2>2. /\ x \in Locals /\ x.pc = "close" /\ x.from = NoCall /\ x.refused = TRUE /\ x.kind = call[c].kind
        /\ x.key = call[c].key /\ x.lead = call[c].lead /\ x.alive = call[c].alive
        /\ x.began = call[c].began
    BY <1>t DEF Locals
  <2> HIDE DEF x
  <2>3. /\ call' \in [Calls -> Locals] /\ call'[c] = x
        /\ \A d \in Calls : d # c => call'[d] = call[d]
    BY <2>1, <2>2, <1>t, OneMoves DEF Onward
  <2>4. /\ entry' = [entry EXCEPT ![c].at = now, ![c].err = TRUE]
        /\ m' = IF m[call[c].key] = c THEN [m EXCEPT ![call[c].key] = NoCall] ELSE m
    BY <1>2 DEF Settle
  <2>5. /\ entry' \in [Calls -> [at : 0 .. MaxTime, done : BOOLEAN, err : BOOLEAN]]
        /\ entry'[c].done = entry[c].done /\ entry'[c].err = TRUE
        /\ \A d \in Calls : d # c => entry'[d] = entry[d]
    BY <2>4, <1>e
  <2>6. EmbedderTypeOK'
    <3>1. m' \in [Keys -> Calls \cup {NoCall}] BY <2>4, <1>k
    <3> QED BY <3>1, <2>3, <2>5, <1>t DEF EmbedderTypeOK, health
  <2>7. LeadersTell'
    <3>1. ~entry[c].done BY DEF EmbedderInv, LeadersTell, Ended
    <3>2. ~entry'[c].done BY <3>1, <2>5
    <3>3. \A d \in Calls : d # c => entry'[d] = entry[d] /\ call'[d] = call[d] BY <2>3, <2>5
    <3>4. call'[c].refused = entry'[c].err BY <2>2, <2>3, <2>5
    <3>5. (~call'[c].refused => call'[c].from = c) /\ call'[c].pc = "close" /\ Leads(c)'
      BY <1>2, <2>2, <2>3
    <3> QED BY <3>2, <3>3, <3>4, <3>5 DEF EmbedderInv, LeadersTell, Ended
  <2>8. FollowersLed'
    BY <1>2, <1>t, <2>2, <2>3, <2>4, <2>5 DEF EmbedderInv, LeadersTell, FollowersLed, LedBy, Ended
  <2>9. CacheLeads'
    BY <1>2, <1>t, <2>2, <2>3, <2>4, <2>5
    DEF EmbedderInv, EmbedderTypeOK, Locals, CacheLeads, Cached
  <2>10. AnswersFrom'
    BY <1>2, <1>t, <2>2, <2>3, <2>4, <2>5
    DEF EmbedderInv, EmbedderTypeOK, Locals, LeadersTell, AnswersFrom, Ended
  <2>11. OwnFailureOnly'
    BY <1>2, <2>2, <2>3 DEF EmbedderInv, OwnFailureOnly
  <2>12. FreshAnswers'
    BY <1>2, <1>f, <2>2, <2>3, <2>5 DEF EmbedderInv, LeadersTell, AnswersFrom, FreshAnswers, Ended
  <2>13. HealthRecovers'
    BY DEF EmbedderInv, HealthRecovers, Failing, health
  <2> QED BY <2>6, <2>7, <2>8, <2>9, <2>10, <2>11, <2>12, <2>13 DEF EmbedderInv
<1>3. CASE pc = "ok" /\ ~Leads(c)
  <2> DEFINE x == [call[c] EXCEPT !.pc = "ok", !.from = c, !.refused = FALSE]
  <2>1. call' = [call EXCEPT ![c] = x] BY <1>3, <1>t DEF Settle, EmbedderTypeOK, Locals
  <2>2. /\ x \in Locals /\ x.pc = "ok" /\ x.from = c /\ x.refused = FALSE /\ x.kind = call[c].kind
        /\ x.key = call[c].key /\ x.lead = call[c].lead /\ x.alive = call[c].alive
        /\ x.began = call[c].began
    BY <1>t DEF Locals
  <2> HIDE DEF x
  <2>3. /\ call' \in [Calls -> Locals] /\ call'[c] = x
        /\ \A d \in Calls : d # c => call'[d] = call[d]
    BY <2>1, <2>2, <1>t, OneMoves DEF Onward
  <2>4. entry' = entry /\ m' = m
    BY <1>3 DEF Settle, cache
  <2>5. /\ entry' \in [Calls -> [at : 0 .. MaxTime, done : BOOLEAN, err : BOOLEAN]]
        /\ entry'[c].done = entry[c].done
        /\ \A d \in Calls : d # c => entry'[d] = entry[d]
    BY <2>4, <1>e
  <2>6. EmbedderTypeOK'
    <3>1. m' \in [Keys -> Calls \cup {NoCall}] BY <2>4, <1>k
    <3> QED BY <3>1, <2>3, <2>5, <1>t DEF EmbedderTypeOK, health
  <2>7. LeadersTell'
    BY <1>3, <2>2, <2>3, <2>4, <2>5 DEF EmbedderInv, LeadersTell, Ended
  <2>8. FollowersLed'
    BY <1>3, <1>t, <2>2, <2>3, <2>4, <2>5 DEF EmbedderInv, LeadersTell, FollowersLed, LedBy, Ended
  <2>9. CacheLeads'
    BY <1>3, <1>k, <2>2, <2>3, <2>4 DEF EmbedderInv, CacheLeads, Cached
  <2>10. AnswersFrom'
    BY <1>3, <1>t, <2>2, <2>3, <2>4, <2>5
    DEF EmbedderInv, EmbedderTypeOK, Locals, LeadersTell, AnswersFrom, Ended
  <2>11. OwnFailureOnly'
    BY <1>3, <2>2, <2>3 DEF EmbedderInv, OwnFailureOnly
  <2>12. FreshAnswers'
    BY <1>3, <1>f, <2>2, <2>3, <2>4 DEF EmbedderInv, LeadersTell, AnswersFrom, FreshAnswers, Ended
  <2>13. HealthRecovers'
    BY DEF EmbedderInv, HealthRecovers, Failing, health
  <2> QED BY <2>6, <2>7, <2>8, <2>9, <2>10, <2>11, <2>12, <2>13 DEF EmbedderInv
<1>4. CASE pc = "failed" /\ ~Leads(c)
  <2> DEFINE x == [call[c] EXCEPT !.pc = "failed", !.from = NoCall, !.refused = TRUE]
  <2>1. call' = [call EXCEPT ![c] = x] BY <1>4, <1>t DEF Settle, EmbedderTypeOK, Locals
  <2>2. /\ x \in Locals /\ x.pc = "failed" /\ x.from = NoCall /\ x.refused = TRUE /\ x.kind = call[c].kind
        /\ x.key = call[c].key /\ x.lead = call[c].lead /\ x.alive = call[c].alive
        /\ x.began = call[c].began
    BY <1>t DEF Locals
  <2> HIDE DEF x
  <2>3. /\ call' \in [Calls -> Locals] /\ call'[c] = x
        /\ \A d \in Calls : d # c => call'[d] = call[d]
    BY <2>1, <2>2, <1>t, OneMoves DEF Onward
  <2>4. entry' = entry /\ m' = m
    BY <1>4 DEF Settle, cache
  <2>5. /\ entry' \in [Calls -> [at : 0 .. MaxTime, done : BOOLEAN, err : BOOLEAN]]
        /\ entry'[c].done = entry[c].done
        /\ \A d \in Calls : d # c => entry'[d] = entry[d]
    BY <2>4, <1>e
  <2>6. EmbedderTypeOK'
    <3>1. m' \in [Keys -> Calls \cup {NoCall}] BY <2>4, <1>k
    <3> QED BY <3>1, <2>3, <2>5, <1>t DEF EmbedderTypeOK, health
  <2>7. LeadersTell'
    BY <1>4, <2>2, <2>3, <2>4, <2>5 DEF EmbedderInv, LeadersTell, Ended
  <2>8. FollowersLed'
    BY <1>4, <1>t, <2>2, <2>3, <2>4, <2>5 DEF EmbedderInv, LeadersTell, FollowersLed, LedBy, Ended
  <2>9. CacheLeads'
    BY <1>4, <1>k, <2>2, <2>3, <2>4 DEF EmbedderInv, CacheLeads, Cached
  <2>10. AnswersFrom'
    BY <1>4, <1>t, <2>2, <2>3, <2>4, <2>5
    DEF EmbedderInv, EmbedderTypeOK, Locals, LeadersTell, AnswersFrom, Ended
  <2>11. OwnFailureOnly'
    BY <1>4, <2>2, <2>3 DEF EmbedderInv, OwnFailureOnly
  <2>12. FreshAnswers'
    BY <1>4, <1>f, <2>2, <2>3, <2>4 DEF EmbedderInv, LeadersTell, AnswersFrom, FreshAnswers, Ended
  <2>13. HealthRecovers'
    BY DEF EmbedderInv, HealthRecovers, Failing, health
  <2> QED BY <2>6, <2>7, <2>8, <2>9, <2>10, <2>11, <2>12, <2>13 DEF EmbedderInv
<1> QED BY <1>1, <1>2, <1>3, <1>4

\* A call that stays what it is goes on by itself: it asks for everyone only if it did before,
\* asks alone only after its leader's failure, and ends with what it may end with.
MayGo(c, x) ==
    /\ x.kind = call[c].kind /\ x.key = call[c].key /\ x.lead = call[c].lead
    /\ x.refused = call[c].refused
    /\ x.pc \notin {"idle", "close"} /\ ~Stands(c, "idle") /\ (x.pc = "wait" => Stands(c, "wait"))
    /\ (entry[c].done => x.pc \in Ended)
    /\ (x.pc \in {"ask", "pause"} =>
          Asks(c) \/ (Stands(c, "wait") /\ entry[call[c].lead].done /\ entry[call[c].lead].err))
    /\ (x.pc = "failed" => x.refused \/ ~x.alive)
    /\ (x.pc = "ok" => \/ x.from = c /\ ~x.refused
                       \/ Stands(c, "wait") /\ x.from = x.lead /\ entry[x.lead].done /\ ~entry[x.lead].err
                       \/ Stands(c, "ok") /\ x.from = call[c].from /\ x.began = call[c].began)

\* What concerns the cache stays when a call goes on by itself.
LEMMA GoesOn ==
    ASSUME EmbedderInv, NEW c \in Calls, NEW x, Onward(c, x), MayGo(c, x), UNCHANGED <<cache, now>>
    PROVE  /\ call' \in [Calls -> Locals]
           /\ LeadersTell' /\ FollowersLed' /\ CacheLeads' /\ AnswersFrom' /\ OwnFailureOnly'
           /\ FreshAnswers'
<1> USE EmbedderAssumption DEF Stands, Leads, Asks, cache
<1>t. EmbedderTypeOK /\ call[c] \in Locals /\ x \in Locals BY DEF EmbedderInv, EmbedderTypeOK, Onward
<1>1. /\ call' \in [Calls -> Locals] /\ call'[c] = x
      /\ \A d \in Calls : d # c => call'[d] = call[d]
  BY <1>t, OneMoves
<1>2. entry' = entry /\ m' = m /\ now' = now OBVIOUS
<1>3. LeadersTell'
  BY <1>1, <1>2, <1>t DEF EmbedderInv, LeadersTell, Ended, MayGo
<1>4. FollowersLed'
  BY <1>1, <1>2, <1>t DEF EmbedderInv, LeadersTell, FollowersLed, LedBy, MayGo
<1>5. CacheLeads'
  BY <1>1, <1>2, <1>t
  DEF EmbedderInv, EmbedderTypeOK, Locals, FollowersLed, LedBy, CacheLeads, Cached, MayGo
<1>6. AnswersFrom'
  BY <1>1, <1>2, <1>t
  DEF EmbedderInv, EmbedderTypeOK, Locals, LeadersTell, FollowersLed, LedBy, AnswersFrom, MayGo
<1>7. OwnFailureOnly'
  BY <1>1 DEF EmbedderInv, OwnFailureOnly, MayGo
<1>8. FreshAnswers'
  BY <1>1, <1>2, <1>6, <1>t
  DEF EmbedderInv, EmbedderTypeOK, Locals, LeadersTell, FollowersLed, LedBy, AnswersFrom,
      FreshAnswers, MayGo
<1> QED BY <1>1, <1>3, <1>4, <1>5, <1>6, <1>7, <1>8

\* A step that touches neither the health signal nor the cache.
LEMMA CallGoesOn ==
    ASSUME EmbedderInv, NEW c \in Calls, NEW x, Onward(c, x), MayGo(c, x), UNCHANGED <<cache, now>>,
           health' = health, badAnswers' \in Nat
    PROVE  EmbedderInv'
BY GoesOn DEF EmbedderInv, EmbedderTypeOK, HealthRecovers, Failing, cache, health

\* What is left of a call is typed, and remembers whose answer it was.
LEMMA ToldTyped ==
    ASSUME NEW c \in Calls, call[c] \in Locals
    PROVE  /\ Told(c) \in Locals /\ Told(c).alive /\ Told(c).kind = call[c].kind
           /\ Told(c).key = call[c].key
           /\ Told(c).lead = call[c].lead /\ Told(c).refused = call[c].refused
<1> DEFINE first == CHOOSE k \in Keys : TRUE
<1>1. first \in Keys BY EmbedderAssumption
<1> HIDE DEF first
<1>a. 0 \in 0 .. MaxTime BY EmbedderAssumption
<1>b. 0 \in 0 .. Attempts - 1 BY EmbedderAssumption
<1>2. Fresh = [pc |-> "idle", kind |-> "query", key |-> first, lead |-> NoCall, tries |-> 0, alive |-> TRUE,
               from |-> NoCall, began |-> 0, read |-> 0, refused |-> FALSE]
  BY DEF Fresh, first
<1>3. Fresh \in Locals /\ Fresh.alive BY <1>1, <1>2, <1>a, <1>b DEF Locals
<1> QED BY <1>3 DEF Told, Locals

\* Every step keeps it.
LEMMA EmbedderSteps == EmbedderInv /\ [EmbedderNext]_embedderVars => EmbedderInv'
<1> SUFFICES ASSUME EmbedderInv, [EmbedderNext]_embedderVars PROVE EmbedderInv'
  OBVIOUS
<1> USE EmbedderAssumption
<1>t. EmbedderTypeOK BY DEF EmbedderInv
<1>l. \A c \in Calls : call[c] \in Locals BY <1>t DEF EmbedderTypeOK
<1>1. ASSUME NEW c \in Calls, "document" \in Kinds, Document(c) PROVE EmbedderInv'
  <2> DEFINE x == [call[c] EXCEPT !.kind = "document", !.pc = "ask"]
  <2>1. call' = [call EXCEPT ![c] = x] /\ Stands(c, "idle")
    BY <1>1, <1>t, <1>l DEF Document, Stands, EmbedderTypeOK, Locals
  <2>2. /\ x \in Locals /\ x.pc = "ask" /\ x.kind = "document" /\ x.key = call[c].key
        /\ x.lead = call[c].lead /\ x.from = call[c].from
        /\ x.refused = call[c].refused /\ x.alive = call[c].alive /\ x.began = call[c].began
    <3>1. c \in Calls /\ "document" \in Kinds BY <1>1
    <3>2. now \in 0 .. MaxTime BY <1>t DEF EmbedderTypeOK
    <3> QED BY <1>l, <3>1, <3>2 DEF Locals
  <2> HIDE DEF x
  <2>3. /\ call' \in [Calls -> Locals] /\ call'[c] = x
        /\ \A d \in Calls : d # c => call'[d] = call[d]
    BY <2>1, <2>2, <1>t, OneMoves DEF Onward
  <2>4. entry' = entry /\ m' = m /\ now' = now BY <1>1 DEF Document, cache
  <2>5. ~(call[c].kind = "query" /\ call[c].lead = c) BY <2>1 DEF EmbedderInv, LeadersTell, Stands
  <2>6. LeadersTell'
    BY <1>t, <1>l, <2>1, <2>2, <2>3, <2>4, <2>5 DEF EmbedderInv, LeadersTell, Ended, Leads, Stands
  <2>7. FollowersLed'
    BY <1>t, <1>l, <2>1, <2>2, <2>3, <2>4, <2>5
    DEF EmbedderInv, LeadersTell, FollowersLed, LedBy, Leads, Asks, Stands, CacheLeads, Cached
  <2>8. CacheLeads'
    BY <1>t, <1>l, <2>1, <2>2, <2>3, <2>4, <2>5
    DEF EmbedderInv, EmbedderTypeOK, Locals, LeadersTell, FollowersLed, CacheLeads, Cached,
        Leads, Asks, Stands, Ended
  <2>9. AnswersFrom'
    BY <1>t, <1>l, <2>1, <2>2, <2>3, <2>4, <2>5
    DEF EmbedderInv, EmbedderTypeOK, Locals, LeadersTell, AnswersFrom, CacheLeads, Cached,
        Leads, Stands, Ended
  <2>10. OwnFailureOnly'
    BY <1>t, <1>l, <2>1, <2>2, <2>3, <2>4, <2>5 DEF EmbedderInv, OwnFailureOnly, Stands
  <2>11. FreshAnswers'
    BY <1>t, <1>l, <2>1, <2>2, <2>3, <2>4, <2>5
    DEF EmbedderInv, EmbedderTypeOK, Locals, LeadersTell, AnswersFrom, FreshAnswers, CacheLeads,
        Cached, Leads, Stands, Ended
  <2>12. HealthRecovers'
    BY <1>t, <1>l, <2>1, <2>2, <2>3, <2>4, <2>5, <1>1
    DEF EmbedderInv, HealthRecovers, Failing, health, Document
  <2>13. EmbedderTypeOK'
    BY <1>1, <2>3, <2>4, <1>t DEF Document, EmbedderTypeOK, cache, health
  <2> QED BY <2>6, <2>7, <2>8, <2>9, <2>10, <2>11, <2>12, <2>13 DEF EmbedderInv
<1>2. ASSUME NEW c \in Calls, NEW k \in Keys, Hit(c, k) PROVE EmbedderInv'
  <2> DEFINE x == [[call[c] EXCEPT !.kind = "query", !.key = k, !.began = now]
                      EXCEPT !.pc = "ok", !.from = m[k]]
  <2>1. call' = [call EXCEPT ![c] = x] /\ Stands(c, "idle")
    BY <1>2, <1>t, <1>l DEF Hit, Query, Stands, EmbedderTypeOK, Locals
  <2>2. /\ x \in Locals /\ x.pc = "ok" /\ x.kind = "query" /\ x.key = k /\ x.lead = call[c].lead
        /\ x.from = m[k]
        /\ x.refused = call[c].refused /\ x.alive = call[c].alive /\ x.began = now
    <3>1. m[k] \in Calls BY <1>2, <1>t DEF Hit, Serves, InFlight, EmbedderTypeOK
    <3>2. now \in 0 .. MaxTime BY <1>t DEF EmbedderTypeOK
    <3>a. [call[c] EXCEPT !.kind = "query", !.key = k, !.began = now] \in Locals
      BY <1>l, <3>2, QueriesAreLocals
    <3>3. \A y \in Locals, i \in Calls : [y EXCEPT !.pc = "ok", !.from = i] \in Locals
      BY DEF Locals
    <3>4. x \in Locals BY <3>1, <3>a, <3>3
    <3> QED BY <1>l, <3>4 DEF Locals
  <2> HIDE DEF x
  <2>3. /\ call' \in [Calls -> Locals] /\ call'[c] = x
        /\ \A d \in Calls : d # c => call'[d] = call[d]
    BY <2>1, <2>2, <1>t, OneMoves DEF Onward
  <2>4. entry' = entry /\ m' = m /\ now' = now BY <1>2 DEF Hit, cache
  <2>5. m[k] \in Calls /\ entry[m[k]].done /\ ~entry[m[k]].err /\ now - entry[m[k]].at < TTL
    BY <1>2, <1>t DEF Hit, Serves, EmbedderTypeOK
  <2>6. LeadersTell'
    BY <1>t, <1>l, <2>1, <2>2, <2>3, <2>4, <2>5 DEF EmbedderInv, LeadersTell, Ended, Leads, Stands
  <2>7. FollowersLed'
    BY <1>t, <1>l, <2>1, <2>2, <2>3, <2>4, <2>5
    DEF EmbedderInv, LeadersTell, FollowersLed, LedBy, Leads, Asks, Stands, CacheLeads, Cached
  <2>8. CacheLeads'
    BY <1>t, <1>l, <2>1, <2>2, <2>3, <2>4, <2>5
    DEF EmbedderInv, EmbedderTypeOK, Locals, LeadersTell, FollowersLed, CacheLeads, Cached,
        Leads, Asks, Stands, Ended
  <2>9. AnswersFrom'
    BY <1>t, <1>l, <2>1, <2>2, <2>3, <2>4, <2>5
    DEF EmbedderInv, EmbedderTypeOK, Locals, LeadersTell, AnswersFrom, CacheLeads, Cached,
        Leads, Stands, Ended
  <2>10. OwnFailureOnly'
    BY <1>t, <1>l, <2>1, <2>2, <2>3, <2>4, <2>5 DEF EmbedderInv, OwnFailureOnly, Stands
  <2>11. FreshAnswers'
    BY <1>t, <1>l, <2>1, <2>2, <2>3, <2>4, <2>5
    DEF EmbedderInv, EmbedderTypeOK, Locals, LeadersTell, AnswersFrom, FreshAnswers, CacheLeads,
        Cached, Leads, Stands, Ended
  <2>12. HealthRecovers'
    BY <1>t, <1>l, <2>1, <2>2, <2>3, <2>4, <2>5, <1>2
    DEF EmbedderInv, HealthRecovers, Failing, health, Hit
  <2>13. EmbedderTypeOK'
    BY <1>2, <2>3, <2>4, <1>t DEF Hit, EmbedderTypeOK, cache, health
  <2> QED BY <2>6, <2>7, <2>8, <2>9, <2>10, <2>11, <2>12, <2>13 DEF EmbedderInv
<1>3. ASSUME NEW c \in Calls, NEW k \in Keys, Follow(c, k) PROVE EmbedderInv'
  <2> DEFINE x == [[call[c] EXCEPT !.kind = "query", !.key = k, !.began = now]
                      EXCEPT !.pc = "wait", !.lead = m[k]]
  <2>1. call' = [call EXCEPT ![c] = x] /\ Stands(c, "idle")
    BY <1>3, <1>t, <1>l DEF Follow, Query, Stands, EmbedderTypeOK, Locals
  <2>2. /\ x \in Locals /\ x.pc = "wait" /\ x.kind = "query" /\ x.key = k /\ x.lead = m[k]
        /\ x.from = call[c].from
        /\ x.refused = call[c].refused /\ x.alive = call[c].alive /\ x.began = now
    <3>1. m[k] \in Calls BY <1>3, <1>t DEF Follow, Serves, InFlight, EmbedderTypeOK
    <3>2. now \in 0 .. MaxTime BY <1>t DEF EmbedderTypeOK
    <3>a. [call[c] EXCEPT !.kind = "query", !.key = k, !.began = now] \in Locals
      BY <1>l, <3>2, QueriesAreLocals
    <3>3. \A y \in Locals, i \in Calls : [y EXCEPT !.pc = "wait", !.lead = i] \in Locals
      BY DEF Locals
    <3>4. x \in Locals BY <3>1, <3>a, <3>3
    <3> QED BY <1>l, <3>4 DEF Locals
  <2> HIDE DEF x
  <2>3. /\ call' \in [Calls -> Locals] /\ call'[c] = x
        /\ \A d \in Calls : d # c => call'[d] = call[d]
    BY <2>1, <2>2, <1>t, OneMoves DEF Onward
  <2>4. entry' = entry /\ m' = m /\ now' = now BY <1>3 DEF Follow, cache
  <2>5. m[k] \in Calls /\ m[k] # c /\ ~entry[m[k]].done
    <3>1. m[k] \in Calls /\ ~entry[m[k]].done BY <1>3, <1>t DEF Follow, InFlight, EmbedderTypeOK
    <3>2. Leads(m[k]) BY <3>1 DEF EmbedderInv, CacheLeads, Cached
    <3> QED BY <3>1, <3>2, <2>1 DEF EmbedderInv, LeadersTell, Leads
  <2>6. LeadersTell'
    BY <1>t, <1>l, <2>1, <2>2, <2>3, <2>4, <2>5 DEF EmbedderInv, LeadersTell, Ended, Leads, Stands
  <2>7. FollowersLed'
    BY <1>t, <1>l, <2>1, <2>2, <2>3, <2>4, <2>5
    DEF EmbedderInv, LeadersTell, FollowersLed, LedBy, Leads, Asks, Stands, CacheLeads, Cached
  <2>8. CacheLeads'
    BY <1>t, <1>l, <2>1, <2>2, <2>3, <2>4, <2>5
    DEF EmbedderInv, EmbedderTypeOK, Locals, LeadersTell, FollowersLed, CacheLeads, Cached,
        Leads, Asks, Stands, Ended
  <2>9. AnswersFrom'
    BY <1>t, <1>l, <2>1, <2>2, <2>3, <2>4, <2>5
    DEF EmbedderInv, EmbedderTypeOK, Locals, LeadersTell, AnswersFrom, CacheLeads, Cached,
        Leads, Stands, Ended
  <2>10. OwnFailureOnly'
    BY <1>t, <1>l, <2>1, <2>2, <2>3, <2>4, <2>5 DEF EmbedderInv, OwnFailureOnly, Stands
  <2>11. FreshAnswers'
    BY <1>t, <1>l, <2>1, <2>2, <2>3, <2>4, <2>5
    DEF EmbedderInv, EmbedderTypeOK, Locals, LeadersTell, AnswersFrom, FreshAnswers, CacheLeads,
        Cached, Leads, Stands, Ended
  <2>12. HealthRecovers'
    BY <1>t, <1>l, <2>1, <2>2, <2>3, <2>4, <2>5, <1>3
    DEF EmbedderInv, HealthRecovers, Failing, health, Follow
  <2>13. EmbedderTypeOK'
    BY <1>3, <2>3, <2>4, <1>t DEF Follow, EmbedderTypeOK, cache, health
  <2> QED BY <2>6, <2>7, <2>8, <2>9, <2>10, <2>11, <2>12, <2>13 DEF EmbedderInv
<1>4. ASSUME NEW c \in Calls, NEW k \in Keys, Lead(c, k) PROVE EmbedderInv'
  <2> DEFINE x == [call[c] EXCEPT !.kind = "query", !.key = k, !.began = now, !.pc = "ask", !.lead = c]
  <2>1. call' = [call EXCEPT ![c] = x] /\ Stands(c, "idle")
    BY <1>4, <1>t, <1>l DEF Lead, Query, Stands, EmbedderTypeOK, Locals
  <2>2. /\ x \in Locals /\ x.pc = "ask" /\ x.kind = "query" /\ x.key = k /\ x.lead = c
        /\ x.from = call[c].from
        /\ x.refused = call[c].refused /\ x.alive = call[c].alive /\ x.began = now
    <3>1. c \in Calls BY <1>4
    <3>2. now \in 0 .. MaxTime BY <1>t DEF EmbedderTypeOK
    <3> QED BY <1>l, <3>1, <3>2 DEF Locals
  <2> HIDE DEF x
  <2>3. /\ call' \in [Calls -> Locals] /\ call'[c] = x
        /\ \A d \in Calls : d # c => call'[d] = call[d]
    BY <2>1, <2>2, <1>t, OneMoves DEF Onward
  <2>4. /\ entry' = entry /\ now' = now /\ m' \in [Keys -> Calls \cup {NoCall}] /\ m'[k] = c
        /\ \A j \in Keys : j # k => m'[j] = m[j] \/ (m'[j] = NoCall /\ (m[j] # NoCall => entry[m[j]].done))
    <3>1. PICK left \in Evicted \cup {m} : m' = [left EXCEPT ![k] = c] BY <1>4 DEF Lead
    <3>2. /\ left \in [Keys -> Calls \cup {NoCall}]
          /\ \A j \in Keys : left[j] = m[j] \/ (left[j] = NoCall /\ (m[j] # NoCall => entry[m[j]].done))
      BY <3>1, <1>t DEF Evicted, Stale, Cached, InFlight, EmbedderTypeOK
    <3> QED BY <1>4, <3>1, <3>2 DEF Lead
  <2>5. ~InFlight(k) /\ ~(call[c].kind = "query" /\ call[c].lead = c)
    BY <1>4, <2>1 DEF Lead, EmbedderInv, LeadersTell, Stands
  <2>6. LeadersTell'
    BY <1>t, <1>l, <2>1, <2>2, <2>3, <2>4, <2>5 DEF EmbedderInv, LeadersTell, Ended, Leads, Stands
  <2>7. FollowersLed'
    BY <1>t, <1>l, <2>1, <2>2, <2>3, <2>4, <2>5
    DEF EmbedderInv, LeadersTell, FollowersLed, LedBy, Leads, Asks, Stands, CacheLeads, Cached
  <2>8. CacheLeads'
    <3>1. ASSUME NEW j \in Keys, m'[j] # NoCall
          PROVE  call'[m'[j]].kind = "query" /\ call'[m'[j]].lead = m'[j] /\ call'[m'[j]].key = j
      <4>1. CASE j = k BY <4>1, <2>2, <2>3, <2>4
      <4>2. CASE j # k
        <5>1. m'[j] = m[j] /\ m[j] \in Calls BY <4>2, <3>1, <2>4, <1>t DEF EmbedderTypeOK
        <5>2. Leads(m[j]) /\ call[m[j]].key = j BY <5>1, <3>1 DEF EmbedderInv, CacheLeads, Cached
        <5> QED BY <5>1, <5>2, <2>3, <2>5 DEF Leads
      <4> QED BY <4>1, <4>2
    <3>2. ASSUME NEW d \in Calls, Leads(d)', Asks(d)' PROVE m'[call'[d].key] = d
      <4>1. CASE d = c BY <4>1, <2>2, <2>3, <2>4
      <4>2. CASE d # c
        <5>1. call'[d] = call[d] BY <4>2, <2>3
        <5>2. m[call[d].key] = d /\ ~entry[d].done /\ call[d].key \in Keys
          BY <3>2, <5>1, <1>l DEF EmbedderInv, CacheLeads, LeadersTell, Ended, Leads, Asks, Locals
        <5> QED BY <5>1, <5>2, <2>4, <2>5 DEF InFlight
      <4> QED BY <4>1, <4>2
    <3> QED BY <3>1, <3>2 DEF CacheLeads, Cached, Leads
  <2>9. AnswersFrom'
    BY <1>t, <1>l, <2>1, <2>2, <2>3, <2>4, <2>5
    DEF EmbedderInv, EmbedderTypeOK, Locals, LeadersTell, AnswersFrom, CacheLeads, Cached,
        Leads, Stands, Ended
  <2>10. OwnFailureOnly'
    BY <1>t, <1>l, <2>1, <2>2, <2>3, <2>4, <2>5 DEF EmbedderInv, OwnFailureOnly, Stands
  <2>11. FreshAnswers'
    BY <1>t, <1>l, <2>1, <2>2, <2>3, <2>4, <2>5
    DEF EmbedderInv, EmbedderTypeOK, Locals, LeadersTell, AnswersFrom, FreshAnswers, CacheLeads,
        Cached, Leads, Stands, Ended
  <2>12. HealthRecovers'
    BY <1>t, <1>l, <2>1, <2>2, <2>3, <2>4, <2>5, <1>4
    DEF EmbedderInv, HealthRecovers, Failing, health, Lead
  <2>13. EmbedderTypeOK'
    BY <1>4, <2>3, <2>4, <1>t DEF Lead, EmbedderTypeOK, cache, health
  <2> QED BY <2>6, <2>7, <2>8, <2>9, <2>10, <2>11, <2>12, <2>13 DEF EmbedderInv
<1>5. ASSUME NEW c \in Calls, Answered(c) PROVE EmbedderInv'
  BY <1>5, <1>t, SettleKeeps DEF Answered, Asks, Stands, EmbedderTypeOK
<1>6. ASSUME NEW c \in Calls, NonRetryable(c) PROVE EmbedderInv'
  BY <1>6, <1>t, SettleKeeps DEF NonRetryable, Asks, Stands, EmbedderTypeOK
<1>7. ASSUME NEW c \in Calls, PauseEnds(c) PROVE EmbedderInv'
  BY <1>7, <1>t, SettleKeeps DEF PauseEnds, Asks, Stands, EmbedderTypeOK
<1>8. ASSUME NEW c \in Calls, Retryable(c), call[c].tries + 1 = Attempts PROVE EmbedderInv'
  BY <1>8, <1>t, SettleKeeps DEF Retryable, Asks, Stands, EmbedderTypeOK
<1>9. ASSUME NEW c \in Calls, Retryable(c), call[c].tries + 1 # Attempts PROVE EmbedderInv'
  <2>1. Onward(c, [call[c] EXCEPT !.pc = "pause", !.tries = call[c].tries + 1])
    <3>0. call[c].tries + 1 \in 0 .. Attempts - 1 BY <1>9, <1>l DEF Locals
    <3>1. [call[c] EXCEPT !.pc = "pause", !.tries = call[c].tries + 1] \in Locals BY <1>l, <3>0 DEF Locals
    <3> QED BY <1>9, <1>t, <1>l, <3>1 DEF Retryable, cache, Onward, EmbedderTypeOK, Locals
  <2>2. MayGo(c, [call[c] EXCEPT !.pc = "pause", !.tries = call[c].tries + 1])
    BY <1>9, <1>t, <1>l
    DEF Retryable, cache, MayGo, Stands, Asks, Ended, Locals, EmbedderTypeOK, EmbedderInv,
        LeadersTell
  <2> QED BY <1>9, <1>t, <2>1, <2>2, CallGoesOn DEF Retryable, EmbedderTypeOK, cache
<1>10. ASSUME NEW c \in Calls, Followed(c), entry[call[c].lead].err PROVE EmbedderInv'
  <2>1. Onward(c, [call[c] EXCEPT !.pc = "ask"])
    <3>1. [call[c] EXCEPT !.pc = "ask"] \in Locals BY <1>l DEF Locals
    <3> QED BY <1>10, <1>t, <1>l, <3>1 DEF Followed, Onward, EmbedderTypeOK, Locals
  <2>2. MayGo(c, [call[c] EXCEPT !.pc = "ask"])
    BY <1>10, <1>t, <1>l
    DEF Followed, MayGo, Stands, Asks, Ended, Locals, EmbedderTypeOK, EmbedderInv, LeadersTell
  <2> QED BY <1>10, <1>t, <2>1, <2>2, CallGoesOn DEF Followed, EmbedderTypeOK, cache
<1>11. ASSUME NEW c \in Calls, Followed(c), ~entry[call[c].lead].err PROVE EmbedderInv'
  <2>1. Onward(c, [call[c] EXCEPT !.pc = "ok", !.from = call[c].lead])
    <3>1. [call[c] EXCEPT !.pc = "ok", !.from = call[c].lead] \in Locals BY <1>l DEF Locals
    <3> QED BY <1>11, <1>t, <1>l, <3>1 DEF Followed, Onward, EmbedderTypeOK, Locals
  <2>2. MayGo(c, [call[c] EXCEPT !.pc = "ok", !.from = call[c].lead])
    BY <1>11, <1>t, <1>l
    DEF Followed, MayGo, Stands, Asks, Ended, Locals, EmbedderTypeOK, EmbedderInv, LeadersTell
  <2> QED BY <1>11, <1>t, <2>1, <2>2, CallGoesOn DEF Followed, EmbedderTypeOK, cache
<1>12. ASSUME NEW c \in Calls, WaitEnds(c) PROVE EmbedderInv'
  <2>1. Onward(c, [call[c] EXCEPT !.pc = "failed"])
    <3>1. [call[c] EXCEPT !.pc = "failed"] \in Locals BY <1>l DEF Locals
    <3> QED BY <1>12, <1>t, <1>l, <3>1 DEF WaitEnds, Goes, Onward, EmbedderTypeOK, Locals
  <2>2. MayGo(c, [call[c] EXCEPT !.pc = "failed"])
    BY <1>12, <1>t, <1>l
    DEF WaitEnds, Goes, MayGo, Stands, Asks, Ended, Locals, EmbedderTypeOK, EmbedderInv,
        LeadersTell
  <2> QED BY <1>12, <1>t, <2>1, <2>2, CallGoesOn DEF WaitEnds, EmbedderTypeOK, cache
<1>13. ASSUME NEW c \in Calls, Again(c) PROVE EmbedderInv'
  <2>1. Onward(c, [call[c] EXCEPT !.pc = "ask"])
    <3>1. [call[c] EXCEPT !.pc = "ask"] \in Locals BY <1>l DEF Locals
    <3> QED BY <1>13, <1>t, <1>l, <3>1 DEF Again, Goes, Onward, EmbedderTypeOK, Locals
  <2>2. MayGo(c, [call[c] EXCEPT !.pc = "ask"])
    BY <1>13, <1>t, <1>l
    DEF Again, Goes, MayGo, Stands, Asks, Ended, Locals, EmbedderTypeOK, EmbedderInv,
        LeadersTell
  <2> QED BY <1>13, <1>t, <2>1, <2>2, CallGoesOn DEF Again, EmbedderTypeOK, cache
<1>14. ASSUME NEW c \in Calls, Cancel(c) PROVE EmbedderInv'
  <2>1. Onward(c, [call[c] EXCEPT !.alive = FALSE])
    <3>1. [call[c] EXCEPT !.alive = FALSE] \in Locals BY <1>l DEF Locals
    <3> QED BY <1>14, <1>t, <1>l, <3>1 DEF Cancel, Onward, EmbedderTypeOK, Locals
  <2>2. MayGo(c, [call[c] EXCEPT !.alive = FALSE])
    BY <1>14, <1>t, <1>l
    DEF Cancel, MayGo, Stands, Asks, Ended, Locals, EmbedderTypeOK, EmbedderInv, LeadersTell,
        OwnFailureOnly, AnswersFrom
  <2> QED BY <1>14, <1>t, <2>1, <2>2, CallGoesOn DEF Cancel, EmbedderTypeOK, cache
<1>15. ASSUME NEW c \in Calls, ReadClock(c), Stands(c, "failed") PROVE EmbedderInv'
  <2> DEFINE x == [Told(c) EXCEPT !.pc = "noteFailed", !.read = now]
  <2>1. call' = [call EXCEPT ![c] = x] BY <1>15 DEF ReadClock, Stands
  <2>2. /\ x \in Locals /\ x.pc = "noteFailed" /\ x.alive /\ x.kind = call[c].kind /\ x.key = call[c].key
        /\ x.lead = call[c].lead /\ x.refused = call[c].refused
    <3>1. now \in 0 .. MaxTime BY <1>t DEF EmbedderTypeOK
    <3>2. \A y \in Locals : [y EXCEPT !.pc = "noteFailed", !.read = now] \in Locals
      BY <3>1 DEF Locals
    <3>3. x \in Locals BY <1>l, <3>2, ToldTyped
    <3> QED BY <1>l, <3>3, ToldTyped DEF Locals
  <2> HIDE DEF x
  <2>3. Onward(c, x) BY <2>1, <2>2 DEF Onward
  <2>4. MayGo(c, x) BY <1>15, <2>2 DEF MayGo, Stands, Ended
  <2> QED BY <1>15, <1>t, <2>3, <2>4, CallGoesOn DEF ReadClock, EmbedderTypeOK, cache
<1>16. ASSUME NEW c \in Calls, ReadClock(c), Stands(c, "ok"), call[c].kind = "document" PROVE EmbedderInv'
  <2> DEFINE x == [Told(c) EXCEPT !.pc = "noteOk", !.read = now]
  <2>1. call' = [call EXCEPT ![c] = x] BY <1>16 DEF ReadClock, Stands
  <2>2. /\ x \in Locals /\ x.pc = "noteOk" /\ x.alive /\ x.kind = call[c].kind /\ x.key = call[c].key
        /\ x.lead = call[c].lead /\ x.refused = call[c].refused
    <3>1. now \in 0 .. MaxTime BY <1>t DEF EmbedderTypeOK
    <3>2. \A y \in Locals : [y EXCEPT !.pc = "noteOk", !.read = now] \in Locals
      BY <3>1 DEF Locals
    <3>3. x \in Locals BY <1>l, <3>2, ToldTyped
    <3> QED BY <1>l, <3>3, ToldTyped DEF Locals
  <2> HIDE DEF x
  <2>3. Onward(c, x) BY <2>1, <2>2 DEF Onward
  <2>4. MayGo(c, x) BY <1>16, <2>2 DEF MayGo, Stands, Ended
  <2> QED BY <1>16, <1>t, <2>3, <2>4, CallGoesOn DEF ReadClock, EmbedderTypeOK, cache
<1>17. ASSUME NEW c \in Calls, ReadClock(c), Stands(c, "ok"), call[c].kind # "document" PROVE EmbedderInv'
  <2> DEFINE x == [Told(c) EXCEPT !.pc = "done"]
  <2>1. call' = [call EXCEPT ![c] = x] BY <1>17 DEF ReadClock, Stands
  <2>2. /\ x \in Locals /\ x.pc = "done" /\ x.alive /\ x.kind = call[c].kind /\ x.key = call[c].key
        /\ x.lead = call[c].lead /\ x.refused = call[c].refused
    <3>1. now \in 0 .. MaxTime BY <1>t DEF EmbedderTypeOK
    <3> QED BY <1>l, <3>1, ToldTyped DEF Locals
  <2> HIDE DEF x
  <2>3. Onward(c, x) BY <2>1, <2>2 DEF Onward
  <2>4. MayGo(c, x) BY <1>17, <2>2 DEF MayGo, Stands, Ended
  <2> QED BY <1>17, <1>t, <2>3, <2>4, CallGoesOn DEF ReadClock, EmbedderTypeOK, cache
<1>18. ASSUME NEW c \in Calls, NoteOk(c) PROVE EmbedderInv'
  <2>1. Onward(c, [call[c] EXCEPT !.pc = "done", !.read = 0])
    <3>1. 0 \in 0 .. MaxTime OBVIOUS
    <3>2. [call[c] EXCEPT !.pc = "done", !.read = 0] \in Locals BY <1>l, <3>1 DEF Locals
    <3> QED BY <1>18, <1>t, <1>l, <3>2 DEF NoteOk, Onward, EmbedderTypeOK, Locals
  <2>2. MayGo(c, [call[c] EXCEPT !.pc = "done", !.read = 0])
    <3>1. Stands(c, "noteOk") BY <1>18 DEF NoteOk
    <3> QED BY <3>1, <1>l DEF MayGo, Stands, Ended, Locals
  <2>3. /\ call' \in [Calls -> Locals] /\ LeadersTell' /\ FollowersLed' /\ CacheLeads' /\ AnswersFrom'
        /\ OwnFailureOnly' /\ FreshAnswers'
    BY <1>18, <2>1, <2>2, GoesOn DEF NoteOk
  <2>4. signal' \in [ok : -1 .. MaxTime, err : -1 .. MaxTime] /\ recovered' \in BOOLEAN
    <3>1. recovered' \in BOOLEAN BY <1>18, Zenon DEF NoteOk
    <3>2. call[c].read \in -1 .. MaxTime BY <1>l DEF Locals
    <3> QED BY <1>18, <1>t, <3>1, <3>2 DEF NoteOk, EmbedderTypeOK
  <2>5. EmbedderTypeOK' BY <1>18, <1>t, <2>3, <2>4 DEF NoteOk, EmbedderTypeOK, cache
  <2>6. HealthRecovers'
    <3>1. recovered' => call[c].read >= signal.err
      BY <1>18, Zenon DEF NoteOk
    <3>2. signal'.ok = call[c].read /\ signal'.err = signal.err
      BY <1>18, <1>t DEF NoteOk, EmbedderTypeOK
    <3>3. signal.err \in Int /\ call[c].read \in Int BY <1>t, <1>l DEF EmbedderTypeOK, Locals
    <3> QED BY <3>1, <3>2, <3>3 DEF HealthRecovers, Failing
  <2> QED BY <2>3, <2>5, <2>6 DEF EmbedderInv
<1>19. ASSUME NEW c \in Calls, NoteFailed(c) PROVE EmbedderInv'
  <2>1. Onward(c, [call[c] EXCEPT !.pc = "done", !.read = 0])
    <3>1. 0 \in 0 .. MaxTime OBVIOUS
    <3>2. [call[c] EXCEPT !.pc = "done", !.read = 0] \in Locals BY <1>l, <3>1 DEF Locals
    <3> QED BY <1>19, <1>t, <1>l, <3>2 DEF NoteFailed, Onward, EmbedderTypeOK, Locals
  <2>2. MayGo(c, [call[c] EXCEPT !.pc = "done", !.read = 0])
    <3>1. Stands(c, "noteFailed") BY <1>19 DEF NoteFailed
    <3> QED BY <3>1, <1>l DEF MayGo, Stands, Ended, Locals
  <2>3. /\ call' \in [Calls -> Locals] /\ LeadersTell' /\ FollowersLed' /\ CacheLeads' /\ AnswersFrom'
        /\ OwnFailureOnly' /\ FreshAnswers'
    BY <1>19, <2>1, <2>2, GoesOn DEF NoteFailed
  <2>4. signal' \in [ok : -1 .. MaxTime, err : -1 .. MaxTime] /\ recovered' \in BOOLEAN
    <3>1. call[c].read \in -1 .. MaxTime BY <1>l DEF Locals
    <3> QED BY <1>19, <1>t, <3>1 DEF NoteFailed, EmbedderTypeOK
  <2>5. EmbedderTypeOK' BY <1>19, <1>t, <2>3, <2>4 DEF NoteFailed, EmbedderTypeOK, cache
  <2>6. HealthRecovers'
    BY <1>19 DEF NoteFailed, HealthRecovers
  <2> QED BY <2>3, <2>5, <2>6 DEF EmbedderInv
<1>20. ASSUME NEW c \in Calls, Close(c), call[c].refused PROVE EmbedderInv'
  <2> DEFINE x == [call[c] EXCEPT !.pc = "failed"]
  <2>1. call' = [call EXCEPT ![c] = x] /\ Stands(c, "close")
    BY <1>20, <1>t, <1>l DEF Close, Goes, EmbedderTypeOK, Locals
  <2>2. /\ x \in Locals /\ x.pc = "failed" /\ x.kind = call[c].kind /\ x.key = call[c].key
        /\ x.lead = call[c].lead
        /\ x.refused = call[c].refused /\ x.from = call[c].from /\ x.alive = call[c].alive
        /\ x.began = call[c].began
    BY <1>l DEF Locals
  <2> HIDE DEF x
  <2>3. /\ call' \in [Calls -> Locals] /\ call'[c] = x
        /\ \A d \in Calls : d # c => call'[d] = call[d]
    BY <2>1, <2>2, <1>t, OneMoves DEF Onward
  <2>4. /\ entry' \in [Calls -> [at : 0 .. MaxTime, done : BOOLEAN, err : BOOLEAN]]
        /\ entry'[c].done /\ entry'[c].err = entry[c].err /\ entry'[c].at = entry[c].at
        /\ \A d \in Calls : d # c => entry'[d] = entry[d]
    <3>1. entry \in [Calls -> [at : 0 .. MaxTime, done : BOOLEAN, err : BOOLEAN]]
      BY <1>t DEF EmbedderTypeOK
    <3>2. entry' = [entry EXCEPT ![c].done = TRUE] BY <1>20 DEF Close
    <3> QED BY <3>1, <3>2
  <2>5. /\ m' = m /\ now' = now /\ Leads(c) /\ call[c].refused = entry[c].err
        /\ (~call[c].refused => call[c].from = c)
        /\ ~entry[c].done
    BY <1>20, <2>1 DEF Close, EmbedderInv, LeadersTell, Ended, Stands
  <2>6. LeadersTell'
    <3>1. call'[c].refused = entry'[c].err /\ call'[c].pc \in Ended /\ Leads(c)'
      BY <2>2, <2>3, <2>4, <2>5 DEF Leads, Ended
    <3>2. \A d \in Calls : d # c => entry'[d] = entry[d] /\ call'[d] = call[d] BY <2>3, <2>4
    <3>3. call'[c].pc \notin {"idle", "close"} BY <2>2, <2>3
    <3> QED BY <3>1, <3>2, <3>3 DEF EmbedderInv, LeadersTell, Leads, Stands, Ended
  <2>7. FollowersLed'
    BY <1>20, <1>t, <1>l, <2>1, <2>2, <2>3, <2>4, <2>5
    DEF EmbedderInv, EmbedderTypeOK, LeadersTell, FollowersLed, LedBy, Leads, Asks, Stands
  <2>8. CacheLeads'
    BY <1>20, <1>t, <1>l, <2>1, <2>2, <2>3, <2>4, <2>5
    DEF EmbedderInv, EmbedderTypeOK, Locals, CacheLeads, Cached, Leads, Asks, Stands
  <2>9. AnswersFrom'
    BY <1>20, <1>t, <1>l, <2>1, <2>2, <2>3, <2>4, <2>5
    DEF EmbedderInv, EmbedderTypeOK, Locals, AnswersFrom, Stands
  <2>10. OwnFailureOnly'
    BY <1>20, <1>t, <1>l, <2>1, <2>2, <2>3, <2>4, <2>5 DEF EmbedderInv, OwnFailureOnly, Stands
  <2>11. FreshAnswers'
    BY <1>20, <1>t, <1>l, <2>1, <2>2, <2>3, <2>4, <2>5
    DEF EmbedderInv, EmbedderTypeOK, Locals, AnswersFrom, FreshAnswers, Stands
  <2>12. HealthRecovers'
    BY <1>20, <1>t, <1>l, <2>1, <2>2, <2>3, <2>4, <2>5
    DEF Close, EmbedderInv, HealthRecovers, Failing, health
  <2>13. EmbedderTypeOK'
    BY <1>20, <2>3, <2>4, <2>5, <1>t DEF Close, EmbedderTypeOK, health
  <2> QED BY <2>6, <2>7, <2>8, <2>9, <2>10, <2>11, <2>12, <2>13 DEF EmbedderInv
<1>21. ASSUME NEW c \in Calls, Close(c), ~call[c].refused PROVE EmbedderInv'
  <2> DEFINE x == [call[c] EXCEPT !.pc = "ok"]
  <2>1. call' = [call EXCEPT ![c] = x] /\ Stands(c, "close")
    BY <1>21, <1>t, <1>l DEF Close, Goes, EmbedderTypeOK, Locals
  <2>2. /\ x \in Locals /\ x.pc = "ok" /\ x.kind = call[c].kind /\ x.key = call[c].key
        /\ x.lead = call[c].lead
        /\ x.refused = call[c].refused /\ x.from = call[c].from /\ x.alive = call[c].alive
        /\ x.began = call[c].began
    BY <1>l DEF Locals
  <2> HIDE DEF x
  <2>3. /\ call' \in [Calls -> Locals] /\ call'[c] = x
        /\ \A d \in Calls : d # c => call'[d] = call[d]
    BY <2>1, <2>2, <1>t, OneMoves DEF Onward
  <2>4. /\ entry' \in [Calls -> [at : 0 .. MaxTime, done : BOOLEAN, err : BOOLEAN]]
        /\ entry'[c].done /\ entry'[c].err = entry[c].err /\ entry'[c].at = entry[c].at
        /\ \A d \in Calls : d # c => entry'[d] = entry[d]
    BY <1>21, <1>t DEF Close, EmbedderTypeOK
  <2>5. /\ m' = m /\ now' = now /\ Leads(c) /\ call[c].refused = entry[c].err
        /\ (~call[c].refused => call[c].from = c)
        /\ ~entry[c].done
    BY <1>21, <2>1 DEF Close, EmbedderInv, LeadersTell, Ended, Stands
  <2>6. LeadersTell'
    <3>1. call'[c].refused = entry'[c].err /\ call'[c].pc \in Ended /\ Leads(c)'
      BY <2>2, <2>3, <2>4, <2>5 DEF Leads, Ended
    <3>2. \A d \in Calls : d # c => entry'[d] = entry[d] /\ call'[d] = call[d] BY <2>3, <2>4
    <3>3. call'[c].pc \notin {"idle", "close"} BY <2>2, <2>3
    <3> QED BY <3>1, <3>2, <3>3 DEF EmbedderInv, LeadersTell, Leads, Stands, Ended
  <2>7. FollowersLed'
    BY <1>21, <1>t, <1>l, <2>1, <2>2, <2>3, <2>4, <2>5
    DEF EmbedderInv, EmbedderTypeOK, LeadersTell, FollowersLed, LedBy, Leads, Asks, Stands
  <2>8. CacheLeads'
    BY <1>21, <1>t, <1>l, <2>1, <2>2, <2>3, <2>4, <2>5
    DEF EmbedderInv, EmbedderTypeOK, Locals, CacheLeads, Cached, Leads, Asks, Stands
  <2>9. AnswersFrom'
    BY <1>21, <1>t, <1>l, <2>1, <2>2, <2>3, <2>4, <2>5
    DEF EmbedderInv, EmbedderTypeOK, Locals, AnswersFrom, Stands
  <2>10. OwnFailureOnly'
    BY <1>21, <1>t, <1>l, <2>1, <2>2, <2>3, <2>4, <2>5 DEF EmbedderInv, OwnFailureOnly, Stands
  <2>11. FreshAnswers'
    BY <1>21, <1>t, <1>l, <2>1, <2>2, <2>3, <2>4, <2>5
    DEF EmbedderInv, EmbedderTypeOK, Locals, AnswersFrom, FreshAnswers, Stands
  <2>12. HealthRecovers'
    BY <1>21, <1>t, <1>l, <2>1, <2>2, <2>3, <2>4, <2>5
    DEF Close, EmbedderInv, HealthRecovers, Failing, health
  <2>13. EmbedderTypeOK'
    BY <1>21, <2>3, <2>4, <2>5, <1>t DEF Close, EmbedderTypeOK, health
  <2> QED BY <2>6, <2>7, <2>8, <2>9, <2>10, <2>11, <2>12, <2>13 DEF EmbedderInv
<1>22. CASE Tick
  BY <1>22
  DEF Tick, EmbedderInv, EmbedderTypeOK, LeadersTell, Ended, FollowersLed, LedBy, CacheLeads,
      Asks, Cached, AnswersFrom, OwnFailureOnly, FreshAnswers, HealthRecovers, Failing, Leads,
      Stands, cache, health
<1>23. CASE UNCHANGED embedderVars
  BY <1>23
  DEF embedderVars, EmbedderInv, EmbedderTypeOK, LeadersTell, Ended, FollowersLed, LedBy,
      CacheLeads, Asks, Cached, AnswersFrom, OwnFailureOnly, FreshAnswers, HealthRecovers,
      Failing, Leads, Stands, cache, health
<1> QED BY <1>1, <1>2, <1>3, <1>4, <1>5, <1>6, <1>7, <1>8, <1>9, <1>10, <1>11, <1>12, <1>13,
           <1>14, <1>15, <1>16, <1>17, <1>18, <1>19, <1>20, <1>21, <1>22, <1>23
        DEF EmbedderNext, Start, CallStep, ReadClock, Stands

\* The locals of every call stay in range: it is tried fewer than Attempts times before the last
\* (embed of src/go/internal/engine/embeddings.go).
THEOREM EmbedderTypeCorrect == EmbedderSpec => []EmbedderTypeOK
<1>1. EmbedderInv => EmbedderTypeOK BY DEF EmbedderInv
<1> QED BY <1>1, EmbedderStart, EmbedderSteps, PTL DEF EmbedderSpec

\* Sharing a request hands nobody another's failure, a shared answer was fetched and is fresh, one
\* call asks for everyone, and the health report recovers (get, evictLocked, embedWithTracking), for
\* any number of calls and texts, any capacity of the cache and any number of attempts.
THEOREM SharesFairly == EmbedderSpec => []EmbedderSound
<1>1. EmbedderInv => EmbedderSound
  <2> SUFFICES ASSUME EmbedderInv PROVE OneLeader
    BY DEF EmbedderInv, EmbedderSound, SharedSoundly
  <2> QED BY DEF EmbedderInv, CacheLeads, FollowersLed, LedBy, Asks, Stands, OneLeader
<1> QED BY <1>1, EmbedderStart, EmbedderSteps, PTL DEF EmbedderSpec

-----------------------------------------------------------------------------
(* Install: the run of the installer by its stages. *)

Bundling == {"skill", "copying"}
Settling == {"commands", "placing"}
AtHost == Bundling \cup {"read", "write", "fill"} \cup Settling
Unminted == {"probe", "signin", "mint"}

Filling(q, p) == q.pc = "fill" /\ ConfigPath[q.at] = p

\* The run q left the configuration of t as it should be, or is about to, or another host
\* of the same file tore it.
Configured(q, t) ==
    LET p == ConfigPath[t] IN
    \/ p = NoPath
    \/ file[p].entry = [token |-> q.token, via |-> Transport(t)]
    \/ file[p].st = "torn" /\ \E u \in q.failed : ConfigPath[u] = p
    \/ Filling(q, p)

Finished(q, t) ==
    /\ <<t, "skill">> \in q.placed
    /\ t \in Commanded => <<t, "commands">> \in q.placed
    /\ Configured(q, t)

RunSound(q) ==
    /\ runs >= 1
    /\ q.pc \notin Unminted => q.token \in Bearers
    /\ q.pc \in Unminted \cup {"tools"} => q.tools = {}
    /\ q.left \subseteq q.tools
    /\ q.pc \in AtHost => q.at \in q.tools \ q.left
    /\ q.pc = "save" => q.left = {}
    /\ q.dry => q.pc \notin {"copying", "write", "fill", "placing", "save"}
    /\ q.pc \in {"write", "fill"} => ConfigPath[q.at] \in Paths
    /\ q.pc = "fill" => file[ConfigPath[q.at]].st = "torn"

\* What the owners keep is in the text that is about to be written.
TextKept(q) ==
    q.pc = "fill" => LET p == ConfigPath[q.at] IN
        p \notin excused => kept[p] \subseteq ParseLoose(p, q.text).things

\* Every host that was tried and did not fail is served, the present one as far as it got.
HostsDone(q) ==
    ~q.dry =>
        /\ \A t \in q.tools \ (q.left \cup q.failed) :
               (q.pc \in AtHost /\ t = q.at) \/ Finished(q, t)
        /\ q.pc \in AtHost \ Bundling /\ q.at \notin q.failed => <<q.at, "skill">> \in q.placed
        /\ q.pc \in Settling /\ q.at \notin q.failed => Configured(q, q.at)

InstallInv ==
    /\ InstallTypeOK /\ runs <= MaxRuns
    /\ Active => RunSound(run) /\ TextKept(run) /\ HostsDone(run)
    /\ OwnersKeep /\ HostsServed

LEMMA ActiveRun ==
    ASSUME InstallTypeOK, Active
    PROVE  /\ run \in Run
           /\ run.pc \in Stages /\ run.token \in Bearers \cup {NoToken} /\ run.dry \in BOOLEAN
           /\ run.tools \subseteq Tools /\ run.left \subseteq Tools /\ run.failed \subseteq Tools
           /\ run.placed \subseteq (Tools \X Parts) /\ run.at \in Tools /\ run.text \in File
<1>1. run \in Run
  BY DEF InstallTypeOK, Active, EndedRun, NoRun, Stages
<1>2. QED
  BY <1>1 DEF Run

LEMMA FileTyped ==
    ASSUME InstallTypeOK, NEW p \in Paths
    PROVE  /\ file[p] \in File /\ file[p].st \in {"absent", "whole", "torn"}
           /\ file[p].things \subseteq Things
           /\ kept[p] \subseteq Things
<1>1. file[p] \in File /\ kept[p] \in SUBSET Things
  BY DEF InstallTypeOK
<1>2. QED
  BY <1>1 DEF File

LEMMA KeptWhole ==
    ASSUME InstallInv, NEW p \in Paths \ excused, run.pc # "fill" \/ ConfigPath[run.at] # p
    PROVE  kept[p] \subseteq file[p].things
  BY DEF InstallInv, OwnersKeep, Doing

\* A step of a run that leaves the files alone.
LEMMA RunSteps ==
    ASSUME InstallInv, Active, NEW q \in Run, run' = q, UNCHANGED <<file, kept, runs, edits>>,
           excused \subseteq excused', excused' \subseteq Paths,
           email' \in BOOLEAN, mishaps' \in Nat,
           run.pc = "fill" => ConfigPath[run.at] \in excused',
           q.pc # "fill",
           RunSound(q), HostsDone(q)
    PROVE  InstallInv'
<1>1. InstallTypeOK'
  BY DEF InstallInv, InstallTypeOK
<1>2. runs' <= MaxRuns
  BY DEF InstallInv
<1>3. RunSound(q)' /\ HostsDone(q)'
  BY DEF RunSound, HostsDone, Finished, Configured, Filling
<1>4. TextKept(q)'
  BY DEF TextKept
<1>5. OwnersKeep'
  <2>1. ASSUME NEW p \in Paths \ excused' PROVE kept[p] \subseteq file[p].things
    BY <2>1, KeptWhole
  <2>2. QED
    BY <2>1 DEF OwnersKeep
<1>6. HostsServed'
  BY DEF HostsServed, Doing, Run, Stages
<1>7. RunSound(run)' /\ TextKept(run)' /\ HostsDone(run)'
  BY <1>3, <1>4 DEF RunSound, TextKept, HostsDone, Finished, Configured, Filling
<1>8. QED
  BY <1>1, <1>2, <1>5, <1>6, <1>7 DEF InstallInv

LEMMA RunExits ==
    ASSUME InstallInv, Active, Exit, UNCHANGED <<file, kept, excused, runs, edits>>,
           email' \in BOOLEAN, mishaps' \in Nat,
           run.pc # "fill", run.pc = "next" => run.dry
    PROVE  InstallInv'
<1>1. InstallTypeOK /\ run \in Run /\ RunSound(run) /\ HostsDone(run)
  BY ActiveRun DEF InstallInv
<1>2. PICK q \in EndedRun :
          /\ run' = q /\ q.pc = "ended" /\ q.done = (run.pc \in {"next", "save"})
          /\ q.tools = run.tools /\ q.failed = run.failed /\ q.placed = run.placed
          /\ q.dry = run.dry /\ q.token = run.token
  <2> DEFINE q == [pc |-> "ended", done |-> run.pc \in {"next", "save"}, tools |-> run.tools,
                   failed |-> run.failed, placed |-> run.placed, dry |-> run.dry, token |-> run.token]
  <2>1. q \in EndedRun
    BY <1>1, ActiveRun DEF EndedRun
  <2>2. QED
    BY <2>1 DEF Exit
<1>3. InstallTypeOK'
  BY <1>1, <1>2 DEF InstallTypeOK
<1>4. ~Active'
  BY <1>2 DEF Active, Stages
<1>5. OwnersKeep'
  <2>1. ASSUME NEW p \in Paths \ excused PROVE kept[p] \subseteq file[p].things
    BY <2>1, KeptWhole
  <2>2. QED
    BY <2>1 DEF OwnersKeep
<1>6. HostsServed'
  <2> SUFFICES ASSUME q.done, ~q.dry, NEW t \in q.tools \ q.failed
               PROVE  LET p == ConfigPath[t] IN
                      /\ <<t, "skill">> \in q.placed
                      /\ t \in Commanded => <<t, "commands">> \in q.placed
                      /\ \/ p = NoPath
                         \/ file[p].entry = [token |-> q.token, via |-> Transport(t)]
                         \/ file[p].st = "torn" /\ \E u \in q.failed : ConfigPath[u] = p
    BY <1>2 DEF HostsServed, BuildMcpEntry
  <2>1. run.pc = "save" /\ run.left = {} /\ ~run.dry
    BY <1>1, <1>2 DEF RunSound
  <2>2. Finished(run, t)
    BY <1>1, <1>2, <2>1 DEF HostsDone, AtHost, Bundling, Settling
  <2>3. QED
    BY <1>2, <2>1, <2>2 DEF Finished, Configured, Filling
<1>7. QED
  BY <1>3, <1>4, <1>5, <1>6 DEF InstallInv

\* Before the hosts nothing is written and no host is tried.
Early == {"probe", "signin", "mint", "tools", "shim", "confirm", "stage", "next"}

LEMMA InvEarly ==
    ASSUME InstallInv, NEW pc \in Early, Proceed(pc), UNCHANGED <<file, email, ghosts, runs, edits, mishaps>>,
           run.pc \in Early \ {"next"},
           pc \in Unminted \cup {"tools"} => run.pc \in Unminted,
           pc \in Unminted \/ run.token # NoToken \/ run.pc \notin Unminted
    PROVE  InstallInv'
<1>1. Active /\ pc \in Stages
  BY DEF Active, Early, Stages
<1>2. InstallTypeOK /\ run \in Run /\ RunSound(run) /\ HostsDone(run)
  BY <1>1, ActiveRun DEF InstallInv
<1>3. PICK q \in Run :
          /\ run' = q /\ q.pc = pc /\ q.token = run.token /\ q.tools = run.tools /\ q.left = run.left
          /\ q.failed = run.failed /\ q.placed = run.placed /\ q.dry = run.dry /\ q.at = run.at
  <2> DEFINE q == [run EXCEPT !.pc = pc]
  <2>1. /\ q \in Run /\ q.pc = pc /\ q.token = run.token /\ q.tools = run.tools /\ q.left = run.left
        /\ q.failed = run.failed /\ q.placed = run.placed /\ q.dry = run.dry /\ q.at = run.at
    BY <1>1, <1>2 DEF Run
  <2>2. QED
    BY <2>1 DEF Proceed
<1>4. RunSound(q)
  <2>1. q.pc \notin Unminted => q.token \in Bearers
    BY <1>1, <1>2, <1>3, ActiveRun DEF RunSound
  <2>2. QED
    BY <1>2, <1>3, <2>1 DEF RunSound, Early, AtHost, Bundling, Settling
<1>5. HostsDone(q)
  BY <1>2, <1>3 DEF HostsDone, Finished, Configured, Filling, Early, AtHost, Bundling, Settling
<1>6. QED
  BY <1>1, <1>2, <1>3, <1>4, <1>5, RunSteps DEF InstallTypeOK, ghosts, Early

LEMMA InvLaunch ==
    ASSUME InstallInv, NEW given \in BOOLEAN, NEW dry \in BOOLEAN, Launch(given, dry) PROVE InstallInv'
<1>1. InstallTypeOK /\ runs \in Nat /\ runs < MaxRuns /\ MaxRuns \in Nat
  BY InstallAssumption DEF InstallInv, InstallTypeOK, Launch
<1>2. PICK q \in Run :
          /\ run' = q /\ q.pc = "probe" /\ q.dry = dry /\ q.tools = {} /\ q.left = {}
          /\ q.failed = {} /\ q.placed = {}
  <2> DEFINE q == [pc |-> "probe", token |-> IF given THEN Given ELSE NoToken, dry |-> dry,
                   tools |-> {}, left |-> {}, failed |-> {}, placed |-> {},
                   at |-> CHOOSE t \in Tools : TRUE, text |-> Absent]
  <2>1. (CHOOSE t \in Tools : TRUE) \in Tools /\ Absent \in File /\ Given \in Bearers
    BY <1>1, InstallAssumption DEF Absent, File, Entry, NoServer, Given, Bearers
  <2>2. q \in Run
    BY <2>1 DEF Run, Stages
  <2>3. QED
    BY <2>2 DEF Launch
<1>3. InstallTypeOK' /\ runs' <= MaxRuns /\ runs' >= 1
  <2>1. UNCHANGED <<file, email, kept, excused, edits, mishaps>> /\ runs' = runs + 1
    BY DEF Launch, ghosts
  <2>2. runs' \in Nat /\ runs' <= MaxRuns /\ runs' >= 1
    BY <1>1, <2>1
  <2>3. InstallTypeOK'
    BY <1>1, <1>2, <2>1, <2>2 DEF InstallTypeOK
  <2>4. QED
    BY <2>2, <2>3
<1>4. (RunSound(run) /\ TextKept(run) /\ HostsDone(run))'
  BY <1>2, <1>3 DEF RunSound, TextKept, HostsDone, AtHost, Bundling, Settling, Unminted
<1>5. HostsServed'
  BY <1>2 DEF HostsServed, Doing
<1>6. OwnersKeep'
  <2>1. ASSUME NEW p \in Paths \ excused PROVE kept[p] \subseteq file[p].things
    BY <2>1, KeptWhole DEF Launch, Active, Stages
  <2>2. QED
    BY <2>1 DEF OwnersKeep, Launch, ghosts
<1>7. QED
  BY <1>3, <1>4, <1>5, <1>6 DEF InstallInv

LEMMA InvMintToken ==
    ASSUME InstallInv, MintToken PROVE InstallInv'
<1>1. /\ Active /\ InstallTypeOK /\ run \in Run /\ RunSound(run) /\ HostsDone(run) /\ run.pc = "mint"
      /\ runs \in Bearers
  <2>1. Active /\ run.pc = "mint"
    BY DEF Active, Stages, MintToken, Doing
  <2>2. QED
    BY <2>1, ActiveRun, InstallAssumption DEF InstallInv, InstallTypeOK, RunSound, Bearers, Given
<1>2. CASE Mishap /\ Exit
  BY <1>1, <1>2, RunExits DEF MintToken, Mishap, InstallTypeOK, ghosts
<1>3. CASE run' = [run EXCEPT !.pc = "tools", !.token = runs] /\ UNCHANGED mishaps
  <2>1. PICK q \in Run :
            /\ run' = q /\ q.pc = "tools" /\ q.token = runs /\ q.tools = run.tools /\ q.left = run.left
            /\ q.failed = run.failed /\ q.placed = run.placed /\ q.dry = run.dry
    <3> DEFINE q == [run EXCEPT !.pc = "tools", !.token = runs]
    <3>1. /\ q \in Run /\ q.pc = "tools" /\ q.token = runs /\ q.tools = run.tools /\ q.left = run.left
          /\ q.failed = run.failed /\ q.placed = run.placed /\ q.dry = run.dry
      BY <1>1 DEF Run, Stages
    <3>2. QED
      BY <1>3, <3>1
  <2>2. RunSound(q)
    BY <1>1, <2>1 DEF RunSound, AtHost, Bundling, Settling, Unminted
  <2>3. HostsDone(q)
    BY <1>1, <2>1 DEF HostsDone, RunSound, AtHost, Bundling, Settling, Unminted
  <2>4. QED
    BY <1>1, <1>3, <2>1, <2>2, <2>3, RunSteps DEF MintToken, InstallTypeOK, ghosts
<1>4. QED
  BY <1>2, <1>3 DEF MintToken

LEMMA InvResolveTools ==
    ASSUME InstallInv, NEW T \in Selections, ResolveTools(T) PROVE InstallInv'
<1>1. /\ Active /\ InstallTypeOK /\ run \in Run /\ RunSound(run) /\ HostsDone(run) /\ run.pc = "tools"
      /\ T \subseteq Tools
  <2>1. Active /\ run.pc = "tools"
    BY DEF Active, Stages, ResolveTools, Doing
  <2>2. QED
    BY <2>1, ActiveRun, InstallAssumption DEF InstallInv
<1>2. CASE T = {}
  BY <1>1, <1>2, RunExits DEF ResolveTools, InstallTypeOK, ghosts
<1>3. CASE T # {}
  <2>1. PICK q \in Run :
            /\ run' = q /\ q.pc = "shim" /\ q.token = run.token /\ q.tools = T /\ q.left = T
            /\ q.failed = run.failed /\ q.placed = run.placed /\ q.dry = run.dry
    <3> DEFINE q == [run EXCEPT !.pc = "shim", !.tools = T, !.left = T]
    <3>1. /\ q \in Run /\ q.pc = "shim" /\ q.token = run.token /\ q.tools = T /\ q.left = T
          /\ q.failed = run.failed /\ q.placed = run.placed /\ q.dry = run.dry
      BY <1>1 DEF Run, Stages
    <3>2. QED
      BY <1>3, <3>1 DEF ResolveTools
  <2>2. RunSound(q)
    BY <1>1, <2>1 DEF RunSound, AtHost, Bundling, Settling, Unminted
  <2>3. HostsDone(q)
    BY <2>1 DEF HostsDone, AtHost, Bundling, Settling
  <2>4. QED
    BY <1>1, <2>1, <2>2, <2>3, RunSteps DEF ResolveTools, InstallTypeOK, ghosts
<1>4. QED
  BY <1>2, <1>3

\* A host that was served stays served as the run goes on.
LEMMA StaysFinished ==
    ASSUME NEW p, NEW q, NEW t, q.token = p.token, p.failed \subseteq q.failed, p.placed \subseteq q.placed,
           p.pc = "fill" => file[ConfigPath[p.at]].st = "torn" /\ p.at \in q.failed
    PROVE  /\ Configured(p, t) => Configured(q, t)
           /\ Finished(p, t) => Finished(q, t)
<1>1. Configured(p, t) => Configured(q, t)
  BY DEF Configured, Filling
<1>2. QED
  BY <1>1 DEF Finished

LEMMA InvNextTool ==
    ASSUME InstallInv, NEW t \in Tools, NextTool(t) PROVE InstallInv'
<1>1. /\ Active /\ InstallTypeOK /\ run \in Run /\ RunSound(run) /\ HostsDone(run) /\ run.pc = "next"
      /\ t \in run.left
  <2>1. Active /\ run.pc = "next" /\ t \in run.left
    BY DEF Active, Stages, NextTool, Doing
  <2>2. QED
    BY <2>1, ActiveRun DEF InstallInv
<1>2. PICK q \in Run :
          /\ run' = q /\ q.pc = "skill" /\ q.token = run.token /\ q.tools = run.tools
          /\ q.left = run.left \ {t} /\ q.at = t
          /\ q.failed = run.failed /\ q.placed = run.placed /\ q.dry = run.dry
  <2> DEFINE q == [run EXCEPT !.pc = "skill", !.at = t, !.left = @ \ {t}]
  <2>1. /\ q \in Run /\ q.pc = "skill" /\ q.token = run.token /\ q.tools = run.tools
        /\ q.left = run.left \ {t} /\ q.at = t
        /\ q.failed = run.failed /\ q.placed = run.placed /\ q.dry = run.dry
    BY <1>1 DEF Run, Stages
  <2>2. QED
    BY <2>1 DEF NextTool
<1>3. RunSound(q)
  BY <1>1, <1>2 DEF RunSound, AtHost, Bundling, Settling, Unminted
<1>4. HostsDone(q)
  <2>1. ASSUME NEW u \in q.tools \ (q.left \cup q.failed), u # t, ~q.dry PROVE Finished(q, u)
    <3>1. Finished(run, u)
      BY <1>1, <1>2, <2>1 DEF HostsDone, AtHost, Bundling, Settling
    <3>2. QED
      BY <1>1, <1>2, <3>1, StaysFinished
  <2>2. QED
    BY <1>2, <2>1 DEF HostsDone, AtHost, Bundling, Settling
<1>5. QED
  BY <1>1, <1>2, <1>3, <1>4, RunSteps DEF NextTool, InstallTypeOK, ghosts

LEMMA InvAllTried ==
    ASSUME InstallInv, AllTried PROVE InstallInv'
<1>1. /\ Active /\ InstallTypeOK /\ run \in Run /\ RunSound(run) /\ HostsDone(run) /\ run.pc = "next"
      /\ run.left = {}
  <2>1. Active /\ run.pc = "next" /\ run.left = {}
    BY DEF Active, Stages, AllTried, Doing
  <2>2. QED
    BY <2>1, ActiveRun DEF InstallInv
<1>2. CASE run.dry
  BY <1>1, <1>2, RunExits DEF AllTried, InstallTypeOK, ghosts
<1>3. CASE ~run.dry
  <2>1. PICK q \in Run :
            /\ run' = q /\ q.pc = "save" /\ q.token = run.token /\ q.tools = run.tools /\ q.left = run.left
            /\ q.failed = run.failed /\ q.placed = run.placed /\ q.dry = run.dry
    <3> DEFINE q == [run EXCEPT !.pc = "save"]
    <3>1. /\ q \in Run /\ q.pc = "save" /\ q.token = run.token /\ q.tools = run.tools /\ q.left = run.left
          /\ q.failed = run.failed /\ q.placed = run.placed /\ q.dry = run.dry
      BY <1>1 DEF Run, Stages
    <3>2. QED
      BY <1>3, <3>1 DEF AllTried, Proceed
  <2>2. RunSound(q)
    BY <1>1, <1>3, <2>1 DEF RunSound, AtHost, Bundling, Settling, Unminted
  <2>3. HostsDone(q)
    <3>1. ASSUME NEW u \in q.tools \ (q.left \cup q.failed) PROVE Finished(q, u)
      <4>1. Finished(run, u)
        BY <1>1, <1>3, <2>1, <3>1 DEF HostsDone, AtHost, Bundling, Settling
      <4>2. QED
        BY <1>1, <2>1, <4>1, StaysFinished
    <3>2. QED
      BY <2>1, <3>1 DEF HostsDone, AtHost, Bundling, Settling
  <2>4. QED
    BY <1>1, <2>1, <2>2, <2>3, RunSteps DEF AllTried, InstallTypeOK, ghosts
<1>4. QED
  BY <1>2, <1>3

\* A step at a host that writes no configuration.
LEMMA HostSteps ==
    ASSUME InstallInv, run.pc \in AtHost, NEW q \in Run, run' = q,
           q.token = run.token, q.dry = run.dry, q.tools = run.tools, q.left = run.left, q.at = run.at,
           run.failed \subseteq q.failed, run.placed \subseteq q.placed,
           q.pc \in (AtHost \ {"fill"}) \cup {"next"},
           run.pc = "fill" => q.at \in q.failed /\ ConfigPath[q.at] \in excused',
           q.dry => q.pc \notin {"copying", "write", "placing"},
           q.pc = "write" => ConfigPath[q.at] \in Paths,
           ~q.dry /\ q.at \notin q.failed =>
               /\ q.pc \in AtHost \ Bundling => <<q.at, "skill">> \in q.placed
               /\ q.pc \in Settling => Configured(q, q.at)
               /\ q.pc = "next" => Finished(q, q.at),
           UNCHANGED <<file, kept, email, runs, edits>>, mishaps' \in Nat,
           excused \subseteq excused', excused' \subseteq Paths
    PROVE  InstallInv'
<1>1. Active /\ InstallTypeOK /\ run \in Run /\ RunSound(run) /\ HostsDone(run)
  <2>1. Active
    BY DEF Active, Stages, AtHost, Bundling, Settling
  <2>2. QED
    BY <2>1, ActiveRun DEF InstallInv
<1>2. RunSound(q)
  BY <1>1 DEF RunSound, AtHost, Bundling, Settling, Unminted
<1>3. HostsDone(q)
  <2>1. ASSUME NEW u \in q.tools \ (q.left \cup q.failed), u # q.at, ~q.dry PROVE Finished(q, u)
    <3>1. Finished(run, u)
      BY <1>1, <2>1 DEF HostsDone
    <3>2. QED
      BY <1>1, <3>1, StaysFinished DEF RunSound
  <2>2. QED
    BY <2>1 DEF HostsDone, AtHost
<1>4. QED
  BY <1>1, <1>2, <1>3, RunSteps DEF InstallTypeOK

LEMMA AtHostTyped ==
    ASSUME InstallInv, run.pc \in AtHost
    PROVE  /\ Active /\ InstallTypeOK /\ run \in Run /\ RunSound(run) /\ HostsDone(run)
           /\ run.at \in Tools /\ run.text \in File /\ run.token \in Bearers
           /\ ConfigPath[run.at] \in Paths \cup {NoPath}
<1>1. Active
  BY DEF Active, Stages, AtHost, Bundling, Settling
<1>2. QED
  BY <1>1, ActiveRun, InstallAssumption DEF InstallInv, RunSound, AtHost, Bundling, Settling, Unminted

LEMMA InvHostFails ==
    ASSUME InstallInv, HostFails PROVE InstallInv'
<1>1. run.pc \in AtHost
  BY DEF HostFails, AtHost, Bundling, Settling
<1>2. PICK pc \in {"read", "commands", "next"} : pc = After(run.pc)
  <2>1. CASE run.pc \in Bundling
    BY <2>1 DEF Bundling, After
  <2>2. CASE run.pc \in {"read", "write", "fill"}
    BY <2>2 DEF After
  <2>3. CASE run.pc \in Settling
    BY <2>3 DEF Settling, After
  <2>4. QED
    BY <1>1, <2>1, <2>2, <2>3 DEF AtHost
<1>3. PICK q \in Run :
          /\ run' = q /\ q.pc = pc /\ q.token = run.token /\ q.tools = run.tools
          /\ q.left = run.left /\ q.at = run.at
          /\ q.failed = run.failed \cup {run.at} /\ q.placed = run.placed /\ q.dry = run.dry
  <2> DEFINE q == [run EXCEPT !.pc = pc, !.failed = run.failed \cup {run.at}]
  <2>1. /\ q \in Run /\ q.pc = pc /\ q.token = run.token /\ q.tools = run.tools
        /\ q.left = run.left /\ q.at = run.at
        /\ q.failed = run.failed \cup {run.at} /\ q.placed = run.placed /\ q.dry = run.dry
    BY <1>1, AtHostTyped DEF Run, Stages
  <2>2. run' = q
    BY <1>2 DEF HostFails
  <2>3. QED
    BY <2>1, <2>2
<1>4. /\ q.pc \in (AtHost \ {"fill"}) \cup {"next"} /\ q.pc \notin {"copying", "write", "placing"}
      /\ q.at \in q.failed
  BY <1>3 DEF AtHost, Bundling, Settling
<1>5. /\ run.pc = "fill" => ConfigPath[run.at] \in Paths
      /\ excused' = IF run.pc = "fill" THEN excused \cup {ConfigPath[run.at]} ELSE excused
  BY <1>1, AtHostTyped DEF HostFails, RunSound, Doing
<1>6. mishaps' \in Nat /\ UNCHANGED <<file, kept, email, runs, edits>> /\ excused \subseteq Paths
  BY DEF HostFails, Mishap, InstallInv, InstallTypeOK
<1>7. /\ excused \subseteq excused' /\ excused' \subseteq Paths
      /\ run.pc = "fill" => ConfigPath[q.at] \in excused'
  BY <1>3, <1>5, <1>6
<1>8. QED
  BY <1>1, <1>3, <1>4, <1>6, <1>7, HostSteps

\* A bundle is in place, or nothing was to be placed.
LEMMA InvPlaces ==
    ASSUME InstallInv, run.pc \in Bundling \cup Settling,
           NEW P \in SUBSET (Tools \X Parts), run.placed \subseteq P,
           NEW pc \in {"copying", "read", "placing", "next"},
           run' = [run EXCEPT !.pc = pc, !.placed = P],
           pc \in {"copying", "read"} => run.pc \in Bundling,
           pc \in {"placing", "next"} => run.pc \in Settling,
           run.dry => pc \notin {"copying", "placing"},
           pc = "read" /\ ~run.dry => <<run.at, "skill">> \in P,
           pc = "next" /\ ~run.dry /\ run.at \in Commanded => <<run.at, "commands">> \in P,
           UNCHANGED <<file, email, ghosts, runs, edits, mishaps>>
    PROVE  InstallInv'
<1>1. run.pc \in AtHost /\ run.pc # "fill"
  BY DEF AtHost, Bundling, Settling
<1>2. /\ InstallTypeOK /\ run \in Run /\ RunSound(run) /\ HostsDone(run)
  BY <1>1, AtHostTyped
<1>3. PICK q \in Run :
          /\ run' = q /\ q.pc = pc /\ q.token = run.token /\ q.tools = run.tools
          /\ q.left = run.left /\ q.at = run.at
          /\ q.failed = run.failed /\ q.placed = P /\ q.dry = run.dry
  <2> DEFINE q == [run EXCEPT !.pc = pc, !.placed = P]
  <2>1. /\ q \in Run /\ q.pc = pc /\ q.token = run.token /\ q.tools = run.tools
        /\ q.left = run.left /\ q.at = run.at
        /\ q.failed = run.failed /\ q.placed = P /\ q.dry = run.dry
    BY <1>2 DEF Run, Stages
  <2>2. QED
    BY <2>1
<1>4. ASSUME ~q.dry, q.at \notin q.failed
      PROVE  /\ q.pc \in AtHost \ Bundling => <<q.at, "skill">> \in q.placed
             /\ q.pc \in Settling => Configured(q, q.at)
             /\ q.pc = "next" => Finished(q, q.at)
  <2>1. CASE pc \in {"copying", "read"}
    BY <1>3, <1>4, <2>1 DEF AtHost, Bundling, Settling
  <2>2. CASE pc \in {"placing", "next"}
    <3>1. run.pc \in Settling /\ <<run.at, "skill">> \in run.placed /\ Configured(run, run.at)
      BY <1>1, <1>2, <1>3, <1>4, <2>2 DEF HostsDone, AtHost, Bundling, Settling
    <3>2. Configured(q, q.at)
      BY <1>1, <1>3, <3>1, StaysFinished
    <3>3. QED
      BY <1>3, <1>4, <2>2, <3>1, <3>2 DEF Finished
  <2>3. QED
    BY <2>1, <2>2
<1>5. q.pc \in (AtHost \ {"fill"}) \cup {"next"} /\ q.pc # "write"
  BY <1>3 DEF AtHost, Bundling, Settling
<1>6. QED
  BY <1>1, <1>2, <1>3, <1>4, <1>5, HostSteps DEF InstallTypeOK, ghosts

LEMMA InvInstallSkill ==
    ASSUME InstallInv, InstallSkill PROVE InstallInv'
<1>1. run.pc \in Bundling /\ run.pc \in AtHost
  BY DEF InstallSkill, Doing, Bundling, AtHost
<1>2. run \in Run /\ run.at \in Tools /\ run.placed \subseteq (Tools \X Parts)
  BY <1>1, AtHostTyped, ActiveRun
<1>3. CASE run.pc = "skill"
  <2>1. PICK pc \in {"copying", "read"} : Proceed(pc) /\ pc = IF run.dry THEN "read" ELSE "copying"
    BY <1>3 DEF InstallSkill, Doing
  <2>2. [run EXCEPT !.pc = pc] = [run EXCEPT !.pc = pc, !.placed = run.placed]
    BY <1>2 DEF Run
  <2>3. QED
    BY <1>1, <1>2, <2>1, <2>2, InvPlaces DEF InstallSkill, Proceed
<1>4. CASE run.pc = "copying"
  <2>1. run' = [run EXCEPT !.pc = "read", !.placed = run.placed \cup {<<run.at, "skill">>}]
    BY <1>4 DEF InstallSkill, Doing, Place
  <2>2. run.placed \cup {<<run.at, "skill">>} \in SUBSET (Tools \X Parts)
    BY <1>2 DEF Parts
  <2>3. QED
    BY <1>1, <2>1, <2>2, InvPlaces DEF InstallSkill
<1>5. QED
  BY <1>1, <1>3, <1>4 DEF Bundling

LEMMA InvInstallCommands ==
    ASSUME InstallInv, InstallCommands PROVE InstallInv'
<1>1. run.pc \in Settling /\ run.pc \in AtHost
  BY DEF InstallCommands, Doing, Settling, AtHost
<1>2. run \in Run /\ run.at \in Tools /\ run.placed \subseteq (Tools \X Parts)
  BY <1>1, AtHostTyped, ActiveRun
<1>3. CASE run.pc = "commands"
  <2>1. PICK pc \in {"next", "placing"} :
            Proceed(pc) /\ pc = IF run.dry \/ run.at \notin Commanded THEN "next" ELSE "placing"
    BY <1>3 DEF InstallCommands, Doing
  <2>2. [run EXCEPT !.pc = pc] = [run EXCEPT !.pc = pc, !.placed = run.placed]
    BY <1>2 DEF Run
  <2>3. QED
    BY <1>1, <1>2, <2>1, <2>2, InvPlaces DEF InstallCommands, Proceed
<1>4. CASE run.pc = "placing"
  <2>1. run' = [run EXCEPT !.pc = "next", !.placed = run.placed \cup {<<run.at, "commands">>}]
    BY <1>4 DEF InstallCommands, Doing, Place
  <2>2. run.placed \cup {<<run.at, "commands">>} \in SUBSET (Tools \X Parts)
    BY <1>2 DEF Parts
  <2>3. QED
    BY <1>1, <2>1, <2>2, InvPlaces DEF InstallCommands
<1>5. QED
  BY <1>1, <1>3, <1>4 DEF Settling

\* A merge keeps what it could parse, and its own entry.
LEMMA Merged ==
    ASSUME NEW p \in Paths, NEW f \in File, NEW e \in Entry
    PROVE  /\ ParseLoose(p, f).entry \in {f.entry, NoServer}
           /\ MergeEntry(p, f, e) \in File
           /\ MergeEntry(p, f, e).entry = e
           /\ MergeEntry(p, f, e).things = ParseLoose(p, f).things
<1>1. Absent \in File /\ Absent.entry = NoServer
  BY DEF Absent, File, Entry
<1>2. PICK g \in File : g = ParseLoose(p, f) /\ g.entry \in {f.entry, NoServer}
  <2>1. CASE f.st # "whole" \/ (p \notin Toml /\ Comments \in f.things)
    BY <1>1, <2>1 DEF ParseLoose
  <2>2. CASE ~(f.st # "whole" \/ (p \notin Toml /\ Comments \in f.things))
    <3> DEFINE g == [f EXCEPT !.things = @ \ {Comments}]
    <3>1. g \in File /\ g.entry = f.entry
      BY DEF File
    <3>2. QED
      BY <2>2, <3>1 DEF ParseLoose
  <2>3. QED
    BY <2>1, <2>2
<1>3. /\ [g EXCEPT !.st = "whole", !.entry = e] \in File
      /\ [g EXCEPT !.st = "whole", !.entry = e].entry = e
      /\ [g EXCEPT !.st = "whole", !.entry = e].things = g.things
  BY DEF File
<1>4. QED
  BY <1>2, <1>3 DEF MergeEntry

LEMMA EntryTyped ==
    ASSUME run.token \in Bearers, NEW t \in Tools
    PROVE  /\ BuildMcpEntry(t) = [token |-> run.token, via |-> Transport(t)]
           /\ BuildMcpEntry(t) \in Entry /\ BuildMcpEntry(t) # NoServer
<1>1. Transport(t) \in {"http", "stdio"}
  BY DEF Transport
<1>2. QED
  BY <1>1 DEF BuildMcpEntry, Entry, NoServer

LEMMA InvReadConfig ==
    ASSUME InstallInv, ReadConfig PROVE InstallInv'
<1>1. run.pc = "read" /\ run.pc \in AtHost
  BY DEF ReadConfig, Doing, AtHost
<1>2. /\ InstallTypeOK /\ run \in Run /\ RunSound(run) /\ HostsDone(run) /\ run.at \in Tools
      /\ run.token \in Bearers /\ ConfigPath[run.at] \in Paths \cup {NoPath}
  BY <1>1, AtHostTyped
<1>3. PICK p \in Paths \cup {NoPath} : p = ConfigPath[run.at]
  BY <1>2
<1>4. ~run.dry /\ run.at \notin run.failed => <<run.at, "skill">> \in run.placed
  BY <1>1, <1>2 DEF HostsDone, Bundling
<1>5. CASE p = NoPath \/ run.dry \/ InSync(p, file[p], BuildMcpEntry(run.at))
  <2>1. PICK q \in Run :
            /\ run' = q /\ q.pc = "commands" /\ q.token = run.token /\ q.tools = run.tools
            /\ q.left = run.left /\ q.at = run.at
            /\ q.failed = run.failed /\ q.placed = run.placed /\ q.dry = run.dry
    <3> DEFINE q == [run EXCEPT !.pc = "commands"]
    <3>1. /\ q \in Run /\ q.pc = "commands" /\ q.token = run.token /\ q.tools = run.tools
          /\ q.left = run.left /\ q.at = run.at
          /\ q.failed = run.failed /\ q.placed = run.placed /\ q.dry = run.dry
      BY <1>2 DEF Run, Stages
    <3>2. QED
      BY <1>3, <1>5, <3>1 DEF ReadConfig, Proceed
  <2>2. ~q.dry => Configured(q, q.at)
    <3> SUFFICES ASSUME ~q.dry, p # NoPath PROVE file[p].entry = [token |-> q.token, via |-> Transport(q.at)]
      BY <1>3, <2>1 DEF Configured
    <3>1. p \in Paths /\ file[p] \in File
      BY <1>2, FileTyped
    <3>2. ParseLoose(p, file[p]).entry = BuildMcpEntry(run.at)
      BY <1>5, <2>1 DEF InSync
    <3>3. BuildMcpEntry(run.at) # NoServer /\ BuildMcpEntry(run.at) \in Entry
      BY <1>2, EntryTyped
    <3>4. ParseLoose(p, file[p]).entry \in {file[p].entry, NoServer}
      BY <3>1, <3>3, Merged
    <3>5. QED
      BY <1>2, <2>1, <3>2, <3>3, <3>4, EntryTyped
  <2>3. q.pc \in AtHost \ {"fill"} /\ q.pc # "next" /\ q.pc \notin {"copying", "write", "placing"}
    BY <2>1 DEF AtHost, Settling
  <2>4. QED
    BY <1>1, <1>2, <1>4, <2>1, <2>2, <2>3, HostSteps DEF ReadConfig, InstallTypeOK, ghosts
<1>6. CASE ~(p = NoPath \/ run.dry \/ InSync(p, file[p], BuildMcpEntry(run.at)))
  <2>1. PICK q \in Run :
            /\ run' = q /\ q.pc = "write" /\ q.token = run.token /\ q.tools = run.tools
            /\ q.left = run.left /\ q.at = run.at
            /\ q.failed = run.failed /\ q.placed = run.placed /\ q.dry = run.dry
    <3> DEFINE q == [run EXCEPT !.pc = "write", !.text = file[p]]
    <3>1. /\ q \in Run /\ q.pc = "write" /\ q.token = run.token /\ q.tools = run.tools
          /\ q.left = run.left /\ q.at = run.at
          /\ q.failed = run.failed /\ q.placed = run.placed /\ q.dry = run.dry
      BY <1>2, <1>6, FileTyped DEF Run, Stages
    <3>2. QED
      BY <1>3, <1>6, <3>1 DEF ReadConfig
  <2>2. q.pc \in AtHost \ {"fill"} /\ q.pc # "next" /\ q.pc \notin {"copying", "placing"} \cup Settling
    BY <2>1 DEF AtHost, Settling
  <2>3. ~q.dry /\ ConfigPath[q.at] \in Paths
    BY <1>3, <1>6, <2>1
  <2>4. QED
    BY <1>1, <1>2, <1>4, <2>1, <2>2, <2>3, HostSteps DEF ReadConfig, InstallTypeOK, ghosts
<1>7. QED
  BY <1>5, <1>6

\* The write to a file p at the present host: the other files are as they were, and p is
\* torn or names the bearer as every host of that file wants it.
LEMMA WriteKeeps ==
    ASSUME NEW p \in Paths, NEW q, NEW r, NEW u \in Tools,
           q.token = r.token, q.failed = r.failed, q.at = r.at, ConfigPath[q.at] = p,
           \A o \in Paths \ {p} : file'[o] = file[o],
           Filling(q, p) \/ (ConfigPath[u] = p => file'[p].entry = [token |-> q.token, via |-> Transport(u)]),
           Configured(r, u)
    PROVE  Configured(q, u)'
<1>1. CASE ConfigPath[u] = NoPath
  BY <1>1 DEF Configured
<1>2. CASE ConfigPath[u] = p
  BY <1>2 DEF Configured, Filling
<1>3. CASE ConfigPath[u] \in Paths \ {p}
  BY <1>3 DEF Configured, Filling
<1>4. QED
  BY <1>1, <1>2, <1>3, InstallAssumption

LEMMA InvTruncate ==
    ASSUME InstallInv, Truncate PROVE InstallInv'
<1>1. run.pc = "write" /\ run.pc \in AtHost
  BY DEF Truncate, Doing, AtHost
<1>2. /\ Active /\ InstallTypeOK /\ run \in Run /\ RunSound(run) /\ HostsDone(run)
  BY <1>1, AtHostTyped
<1>3. PICK p \in Paths : p = ConfigPath[run.at]
  BY <1>1, <1>2 DEF RunSound
<1>4. PICK q \in Run :
          /\ run' = q /\ q.pc = "fill" /\ q.token = run.token /\ q.tools = run.tools
          /\ q.left = run.left /\ q.at = run.at /\ q.text = run.text
          /\ q.failed = run.failed /\ q.placed = run.placed /\ q.dry = run.dry
  <2> DEFINE q == [run EXCEPT !.pc = "fill"]
  <2>1. /\ q \in Run /\ q.pc = "fill" /\ q.token = run.token /\ q.tools = run.tools
        /\ q.left = run.left /\ q.at = run.at /\ q.text = run.text
        /\ q.failed = run.failed /\ q.placed = run.placed /\ q.dry = run.dry
    BY <1>2 DEF Run, Stages
  <2>2. QED
    BY <2>1 DEF Truncate, Proceed
<1>5. PICK f \in File : f = [Absent EXCEPT !.st = "torn"] /\ f.st = "torn"
  <2> DEFINE f == [Absent EXCEPT !.st = "torn"]
  <2>1. f \in File /\ f.st = "torn"
    BY DEF Absent, File, Entry
  <2>2. QED
    BY <2>1
<1>6. /\ file' = [file EXCEPT ![p] = f]
      /\ UNCHANGED <<email, kept, runs, edits, mishaps>>
      /\ excused' = IF file[p] # run.text \/ ParseLoose(p, run.text).things # run.text.things
                    THEN excused \cup {p} ELSE excused
  BY <1>3, <1>5 DEF Truncate
<1>7. /\ file \in [Paths -> File] /\ excused \subseteq Paths
      /\ file' \in [Paths -> File] /\ excused \subseteq excused' /\ excused' \subseteq Paths
      /\ file'[p] = f /\ \A o \in Paths \ {p} : file'[o] = file[o]
  BY <1>2, <1>6 DEF InstallTypeOK
<1>8. InstallTypeOK'
  BY <1>2, <1>4, <1>6, <1>7 DEF InstallTypeOK
<1>9. RunSound(q)'
  BY <1>1, <1>2, <1>3, <1>4, <1>5, <1>6, <1>7 DEF RunSound, AtHost, Unminted
<1>10. TextKept(q)'
  <2>1. p \notin excused' => kept[p] \subseteq ParseLoose(p, run.text).things
    BY <1>1, <1>6, KeptWhole
  <2>2. QED
    BY <1>3, <1>4, <1>6, <2>1 DEF TextKept, ParseLoose
<1>11. HostsDone(q)'
  <2>1. ASSUME NEW u \in q.tools \ (q.left \cup q.failed), u # q.at, ~q.dry PROVE Finished(q, u)'
    <3>1. Finished(run, u) /\ u \in Tools
      BY <1>2, <1>4, <2>1, ActiveRun DEF HostsDone
    <3>2. Filling(q, p)
      BY <1>3, <1>4 DEF Filling
    <3>3. Configured(q, u)'
      BY <1>3, <1>4, <1>7, <3>1, <3>2, WriteKeeps DEF Finished
    <3>4. QED
      BY <1>4, <3>1, <3>3 DEF Finished
  <2>2. ~q.dry /\ q.at \notin q.failed => <<q.at, "skill">> \in q.placed
    BY <1>1, <1>2, <1>4 DEF HostsDone, AtHost, Bundling
  <2>3. q.pc \in AtHost /\ q.pc \notin Settling
    BY <1>4 DEF AtHost, Settling
  <2>4. QED
    BY <2>1, <2>2, <2>3 DEF HostsDone
<1>12. OwnersKeep'
  <2>1. ASSUME NEW o \in Paths \ excused', o # p PROVE kept[o] \subseteq file'[o].things
    BY <1>1, <1>7, <2>1, KeptWhole
  <2>2. QED
    BY <1>3, <1>4, <1>6, <2>1 DEF OwnersKeep, Active, Stages, Doing
<1>13. HostsServed' /\ runs' <= MaxRuns
  BY <1>4, <1>6 DEF HostsServed, Doing, InstallInv
<1>14. (RunSound(run) /\ TextKept(run) /\ HostsDone(run))'
  BY <1>4, <1>9, <1>10, <1>11 DEF RunSound, TextKept, HostsDone, Finished, Configured, Filling
<1>15. QED
  BY <1>8, <1>12, <1>13, <1>14 DEF InstallInv

LEMMA InvFill ==
    ASSUME InstallInv, Fill PROVE InstallInv'
<1>1. run.pc = "fill" /\ run.pc \in AtHost
  BY DEF Fill, Doing, AtHost
<1>2. /\ Active /\ InstallTypeOK /\ run \in Run /\ RunSound(run) /\ HostsDone(run) /\ TextKept(run)
      /\ run.token \in Bearers /\ run.at \in Tools /\ run.text \in File
  BY <1>1, AtHostTyped DEF InstallInv
<1>3. PICK p \in Paths : p = ConfigPath[run.at]
  BY <1>1, <1>2 DEF RunSound
<1>4. PICK q \in Run :
          /\ run' = q /\ q.pc = "commands" /\ q.token = run.token /\ q.tools = run.tools
          /\ q.left = run.left /\ q.at = run.at
          /\ q.failed = run.failed /\ q.placed = run.placed /\ q.dry = run.dry
  <2> DEFINE q == [run EXCEPT !.pc = "commands", !.text = Absent]
  <2>1. Absent \in File
    BY DEF Absent, File, Entry
  <2>2. /\ q \in Run /\ q.pc = "commands" /\ q.token = run.token /\ q.tools = run.tools
        /\ q.left = run.left /\ q.at = run.at
        /\ q.failed = run.failed /\ q.placed = run.placed /\ q.dry = run.dry
    BY <1>2, <2>1 DEF Run, Stages
  <2>3. QED
    BY <2>2 DEF Fill
<1>5. PICK f \in File : /\ f = MergeEntry(p, run.text, BuildMcpEntry(run.at))
                        /\ f.entry = [token |-> run.token, via |-> Transport(run.at)]
                        /\ f.things = ParseLoose(p, run.text).things
  <2>1. /\ BuildMcpEntry(run.at) \in Entry
        /\ BuildMcpEntry(run.at) = [token |-> run.token, via |-> Transport(run.at)]
    BY <1>2, EntryTyped
  <2>2. QED
    BY <1>2, <2>1, Merged
<1>6. file' = [file EXCEPT ![p] = f] /\ UNCHANGED <<email, kept, excused, runs, edits, mishaps>>
  BY <1>3, <1>5 DEF Fill, ghosts
<1>7. /\ file' \in [Paths -> File]
      /\ file'[p] = f /\ \A o \in Paths \ {p} : file'[o] = file[o]
  BY <1>2, <1>6 DEF InstallTypeOK
<1>8. InstallTypeOK'
  BY <1>2, <1>4, <1>6, <1>7 DEF InstallTypeOK
<1>9. RunSound(q)'
  BY <1>1, <1>2, <1>4, <1>6 DEF RunSound, AtHost, Unminted, Settling
<1>10. TextKept(q)'
  BY <1>4 DEF TextKept
<1>11. ASSUME NEW u \in Tools, ConfigPath[u] = p
       PROVE  file'[p].entry = [token |-> q.token, via |-> Transport(u)]
  <2>1. u \in Stdio <=> run.at \in Stdio
    BY <1>2, <1>3, <1>11, InstallAssumption
  <2>2. QED
    BY <1>4, <1>5, <1>7, <2>1 DEF Transport
<1>12. HostsDone(q)'
  <2>1. ASSUME NEW u \in q.tools \ (q.left \cup q.failed), u # q.at, ~q.dry PROVE Finished(q, u)'
    <3>1. Finished(run, u) /\ u \in Tools
      BY <1>2, <1>4, <2>1, ActiveRun DEF HostsDone
    <3>2. Configured(q, u)'
      BY <1>3, <1>4, <1>7, <1>11, <3>1, WriteKeeps DEF Finished
    <3>3. QED
      BY <1>4, <3>1, <3>2 DEF Finished
  <2>2. ~q.dry /\ q.at \notin q.failed => <<q.at, "skill">> \in q.placed
    BY <1>1, <1>2, <1>4 DEF HostsDone, AtHost, Bundling
  <2>3. Configured(q, q.at)'
    BY <1>2, <1>3, <1>4, <1>11 DEF Configured
  <2>4. q.pc \in AtHost
    BY <1>4 DEF AtHost, Settling
  <2>5. QED
    BY <2>1, <2>2, <2>3, <2>4 DEF HostsDone
<1>13. OwnersKeep'
  <2>1. ASSUME NEW o \in Paths \ excused PROVE kept[o] \subseteq file'[o].things
    <3>1. CASE o = p
      BY <1>1, <1>2, <1>3, <1>5, <1>7, <2>1, <3>1 DEF TextKept
    <3>2. CASE o # p
      BY <1>3, <1>7, <2>1, <3>2, KeptWhole
    <3>3. QED
      BY <3>1, <3>2
  <2>2. QED
    BY <1>6, <2>1 DEF OwnersKeep
<1>14. HostsServed' /\ runs' <= MaxRuns
  BY <1>4, <1>6 DEF HostsServed, Doing, InstallInv
<1>15. (RunSound(run) /\ TextKept(run) /\ HostsDone(run))'
  BY <1>4, <1>9, <1>10, <1>12 DEF RunSound, TextKept, HostsDone, Finished, Configured, Filling
<1>16. QED
  BY <1>8, <1>13, <1>14, <1>15 DEF InstallInv

LEMMA InvSaveState ==
    ASSUME InstallInv, SaveState PROVE InstallInv'
<1>1. run.pc = "save" /\ Active
  BY DEF SaveState, Doing, Active, Stages
<1>2. email' \in BOOLEAN /\ mishaps' \in Nat
  <2>1. (run.token # Given) \in BOOLEAN /\ email \in BOOLEAN /\ mishaps \in Nat
    BY DEF InstallInv, InstallTypeOK
  <2>2. email' \in {(run.token # Given), email}
    BY DEF SaveState
  <2>3. mishaps' = mishaps \/ mishaps' = mishaps + 1
    BY DEF SaveState, Mishap
  <2>4. email' \in BOOLEAN
    BY <2>1, <2>2
  <2>5. mishaps' \in Nat
    BY <2>1, <2>3
  <2>6. QED
    BY <2>4, <2>5
<1>3. QED
  BY <1>1, <1>2, RunExits DEF SaveState, ghosts

LEMMA InvInterrupt ==
    ASSUME InstallInv, Interrupt PROVE InstallInv'
<1>1. InstallTypeOK /\ Active /\ RunSound(run)
  BY DEF InstallInv, Interrupt
<1>2. run' = NoRun /\ UNCHANGED <<file, email, kept, runs, edits>> /\ mishaps' \in Nat
  BY <1>1 DEF Interrupt, Mishap, InstallTypeOK
<1>3. excused' = IF run.pc = "fill" THEN excused \cup {ConfigPath[run.at]} ELSE excused
  BY DEF Interrupt, Doing
<1>4. InstallTypeOK'
  BY <1>1, <1>2, <1>3 DEF InstallTypeOK, RunSound
<1>5. ~Active' /\ HostsServed' /\ runs' <= MaxRuns
  BY <1>2 DEF NoRun, Active, Stages, HostsServed, Doing, InstallInv
<1>6. OwnersKeep'
  <2>1. ASSUME NEW p \in Paths \ excused' PROVE kept[p] \subseteq file[p].things
    BY <1>3, <2>1, KeptWhole
  <2>2. QED
    BY <1>2, <2>1 DEF OwnersKeep
<1>7. QED
  BY <1>4, <1>5, <1>6 DEF InstallInv

\* An edit leaves the entry and a torn file alone, and what it drops is no longer kept.
LEMMA InvEdit ==
    ASSUME InstallInv, NEW p \in Paths, NEW T \in SUBSET Things, Edit(p, T) PROVE InstallInv'
<1>1. InstallTypeOK /\ file[p].st # "torn" /\ file[p] \in File
  BY FileTyped DEF InstallInv, Edit
<1>2. PICK f \in File : /\ f = [file[p] EXCEPT !.st = "whole", !.things = T]
                        /\ f.things = T /\ f.entry = file[p].entry
  <2> DEFINE f == [file[p] EXCEPT !.st = "whole", !.things = T]
  <2>1. f \in File /\ f.things = T /\ f.entry = file[p].entry
    BY <1>1 DEF File
  <2>2. QED
    BY <2>1
<1>3. PICK K \in SUBSET Things : K = (kept[p] \ (file[p].things \ T)) \cup T
  BY <1>1, FileTyped
<1>4. /\ file' = [file EXCEPT ![p] = f] /\ kept' = [kept EXCEPT ![p] = K]
      /\ UNCHANGED <<email, run, excused, runs, mishaps>> /\ edits' = edits + 1
  BY <1>2, <1>3 DEF Edit
<1>5. /\ file' \in [Paths -> File] /\ kept' \in [Paths -> SUBSET Things]
      /\ file'[p] = f /\ kept'[p] = K
      /\ \A o \in Paths \ {p} : file'[o] = file[o] /\ kept'[o] = kept[o]
  BY <1>1, <1>4 DEF InstallTypeOK
<1>6. InstallTypeOK' /\ runs' <= MaxRuns
  BY <1>1, <1>4, <1>5 DEF InstallTypeOK, InstallInv
<1>7. \A o \in Paths : /\ file'[o].entry = file[o].entry
                       /\ file[o].st = "torn" => file'[o] = file[o] /\ kept'[o] = kept[o]
  BY <1>1, <1>2, <1>5
<1>8. ASSUME Active PROVE (RunSound(run) /\ TextKept(run) /\ HostsDone(run))'
  <2>1. RunSound(run) /\ TextKept(run) /\ HostsDone(run)
    BY <1>8 DEF InstallInv
  <2>2. RunSound(run)'
    BY <1>4, <1>7, <2>1 DEF RunSound
  <2>3. TextKept(run)'
    BY <1>4, <1>7, <2>1 DEF TextKept, RunSound, ParseLoose
  <2>4. ASSUME NEW u \in Tools, Configured(run, u) PROVE Configured(run, u)'
    <3>1. ConfigPath[u] \in Paths \/ ConfigPath[u] = NoPath
      BY InstallAssumption
    <3>2. QED
      BY <1>4, <1>7, <2>4, <3>1 DEF Configured, Filling
  <2>5. HostsDone(run)'
    <3>1. run.tools \subseteq Tools /\ run.at \in Tools
      BY <1>1, <1>8, ActiveRun
    <3>2. ASSUME NEW u \in Tools, Finished(run, u) PROVE Finished(run, u)'
      BY <1>4, <2>4, <3>2 DEF Finished
    <3>3. QED
      BY <1>4, <2>1, <2>4, <3>1, <3>2 DEF HostsDone
  <2>6. QED
    BY <2>2, <2>3, <2>5
<1>9. OwnersKeep'
  <2>1. ASSUME NEW o \in Paths \ excused, ~(Active /\ Filling(run, o)) PROVE kept'[o] \subseteq file'[o].things
    <3>1. kept[o] \subseteq file[o].things
      BY <2>1 DEF InstallInv, OwnersKeep, Doing, Filling
    <3>2. QED
      BY <1>2, <1>3, <1>5, <3>1
  <2>2. QED
    BY <1>4, <2>1 DEF OwnersKeep, Doing, Filling, Active
<1>10. HostsServed'
  <2> SUFFICES ASSUME run.pc = "ended", run.done, ~run.dry, NEW t \in run.tools \ run.failed
               PROVE  LET o == ConfigPath[t] IN
                      /\ <<t, "skill">> \in run.placed
                      /\ t \in Commanded => <<t, "commands">> \in run.placed
                      /\ \/ o = NoPath
                         \/ file'[o].entry = BuildMcpEntry(t)
                         \/ file'[o].st = "torn" /\ \E u \in run.failed : ConfigPath[u] = o
    BY <1>4 DEF HostsServed, Doing, BuildMcpEntry
  <2>1. run.tools \subseteq Tools
    BY <1>1 DEF InstallTypeOK, Run, EndedRun, NoRun, Stages
  <2>2. ConfigPath[t] \in Paths \/ ConfigPath[t] = NoPath
    BY <2>1, InstallAssumption
  <2>3. QED
    BY <1>7, <2>2 DEF InstallInv, HostsServed, Doing
<1>11. QED
  BY <1>4, <1>6, <1>8, <1>9, <1>10 DEF InstallInv, Active

LEMMA InstallInvInit == ASSUME InstallInit PROVE InstallInv
<1>1. kept \in [Paths -> SUBSET Things]
  BY DEF InstallInit
<1>2. \A p \in Paths : /\ file[p] \in File
                       /\ kept[p] \subseteq file[p].things
  BY <1>1 DEF InstallInit, Absent, File, Entry
<1>3. file \in [Paths -> File]
  BY <1>2 DEF InstallInit
<1>4. run = NoRun /\ ~Active
  BY DEF InstallInit, NoRun, Active, Stages
<1>5. InstallTypeOK
  BY <1>1, <1>3, <1>4 DEF InstallInit, InstallTypeOK
<1>6. OwnersKeep /\ HostsServed /\ runs <= MaxRuns
  BY <1>2, <1>4, InstallAssumption DEF InstallInit, OwnersKeep, HostsServed, Doing, NoRun
<1>7. QED
  BY <1>4, <1>5, <1>6 DEF InstallInv

LEMMA InvInstallNext == ASSUME InstallInv, [InstallNext]_installVars PROVE InstallInv'
<1>1. CASE ProbeHealth
  <2>1. PICK pc \in {"signin", "tools"} : Proceed(pc) /\ (pc = "tools" => run.token # NoToken)
    BY <1>1 DEF ProbeHealth
  <2>2. QED
    BY <1>1, <2>1, InvEarly DEF ProbeHealth, Doing, Early, Unminted
<1>2. CASE SignIn
  BY <1>2, InvEarly DEF SignIn, Doing, Early, Unminted
<1>3. CASE Confirm
  <2>1. CASE Proceed("stage")
    BY <1>3, <2>1, InvEarly DEF Confirm, Doing, Early, Unminted
  <2>2. CASE Exit
    BY <1>3, <2>2, RunExits DEF Confirm, Doing, Active, Stages, InstallInv, InstallTypeOK, ghosts
  <2>3. QED
    BY <1>3, <2>1, <2>2 DEF Confirm
<1>4. CASE Stage
  BY <1>4, InvEarly DEF Stage, Doing, Early, Unminted
<1>5. CASE GiveUp
  BY <1>5, RunExits DEF GiveUp, Mishap, Active, Stages, InstallInv, InstallTypeOK, ghosts
<1>6. ASSUME NEW state \in ShimStates, NEW chosen \in BOOLEAN, NEW skip \in BOOLEAN,
             Preflight(state, chosen, skip)
      PROVE  InstallInv'
  <2>1. CASE Proceed("confirm")
    BY <1>6, <2>1, InvEarly DEF Preflight, Doing, Early, Unminted
  <2>2. CASE Exit
    BY <1>6, <2>2, RunExits DEF Preflight, Doing, Active, Stages, InstallInv, InstallTypeOK, ghosts
  <2>3. QED
    BY <1>6, <2>1, <2>2 DEF Preflight
<1>7. CASE UNCHANGED installVars
  BY <1>7 DEF installVars, InstallInv, InstallTypeOK, Active, RunSound, TextKept, HostsDone, Finished,
     Configured, Filling, OwnersKeep, HostsServed, Doing, BuildMcpEntry
<1>8. QED
  BY <1>1, <1>2, <1>3, <1>4, <1>5, <1>6, <1>7, InvLaunch, InvMintToken, InvResolveTools, InvNextTool,
     InvAllTried, InvHostFails, InvInstallSkill, InvInstallCommands, InvReadConfig, InvTruncate, InvFill,
     InvSaveState, InvInterrupt, InvEdit
  DEF InstallNext

(* The inductive invariant of the installer: types, what a run has by its stage,  *)
(* the text it is about to write, and every host it has been at (ApplyTools).     *)
THEOREM InstallCorrect == InstallSpec => []InstallInv
<1>1. QED
  BY InstallInvInit, InvInstallNext, PTL DEF InstallSpec

(* What owners keep in a configuration outlives any number of runs, hosts that    *)
(* share it and interruptions, outside the recorded cases (InstallMcp).           *)
THEOREM OwnersAreLeftAlone == InstallSpec => []OwnersKeep
<1>1. InstallInv => OwnersKeep
  BY DEF InstallInv
<1>2. QED
  BY <1>1, InstallCorrect, PTL

(* A run that reached its end served every host but those it reports as failed    *)
(* (ApplyTools, printSummary).                                                    *)
THEOREM ServesItsHosts == InstallSpec => []HostsServed
<1>1. InstallInv => HostsServed
  BY DEF InstallInv
<1>2. QED
  BY <1>1, InstallCorrect, PTL
=============================================================================
