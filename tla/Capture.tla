------------------------------- MODULE Capture -------------------------------
(***************************************************************************)
(* Capturing a memory: the write that looks for what it restates or        *)
(* contradicts before it stores anything.  A capture embeds its text and   *)
(* searches the scope for the closest visible memory.  One that the new    *)
(* text extends is overwritten in place; one that it contradicts is marked *)
(* superseded, by a second statement, once the new row is in; if that      *)
(* statement fails the new row is forgotten again.  Everything else is     *)
(* stored like a plain remember, which answers with the row that already   *)
(* holds the text if there is one.  Writes carry references to external    *)
(* sources, so that all that came from a source can be forgotten later.    *)
(*                                                                         *)
(* One scope (user, project, namespace).  A text is a value; how close two *)
(* texts are, and what the word heuristics say of them, are relations.     *)
(***************************************************************************)
EXTENDS Naturals

CONSTANTS
    Ids,            \* ids of entries, never reused
    NoId,
    Texts,
    NoText,
    Near,           \* pairs of texts at or above the duplicate threshold
    Contradicts,    \* of those, the pairs LooksContradictory holds of
    Extends,        \* of the others, old and new where IsContentSuperset holds
    Refs,           \* external sources
    Handlers,
    MaxWrites,      \* bound: captures, remembers, updates and forgets in a run
    MaxFaults       \* bound: failed calls and requests that end half way

ASSUME CaptureAssumption ==
    /\ NoId \notin Ids
    /\ NoText \notin Texts
    /\ Near \subseteq Texts \X Texts
    /\ Contradicts \subseteq Near /\ Extends \subseteq Near \ Contradicts
    /\ \A s, t \in Texts : <<s, t>> \in Contradicts => <<t, s>> \in Contradicts
    /\ \A t \in Texts : <<t, t>> \in Extends

VARIABLES
    row,      \* memory_entries: status, text, superseded by (NoId: visible)
    vec,      \* the text whose embedding the cold store holds for an id
    refs,     \* memory_entry_source_refs
    op,       \* what each handler is in the middle of
    source,   \* history: sources of the text a row was last captured with
    torn,     \* history: sources whose write ended before it recorded them
    loose,    \* history: rows stored without a look at what they contradict
    undone,   \* history: rows that a failed supersession took back
    shared,   \* history: rows that a second write was answered with
    doubted,  \* history: rows whose mark was reported failed, but committed
    writes, faults

vars == <<row, vec, refs, op, source, torn, loose, undone, shared, doubted, writes, faults>>

Idle == [pc |-> "idle"]
Row == [st : {"new", "live", "gone"}, text : Texts \cup {NoText}, by : Ids \cup {NoId}]
Op == [pc : {"probe", "update", "vector", "refs", "dedup", "bump", "merge", "insert",
             "upsert", "mark", "undo", "answer"},
       text : Texts, refs : SUBSET Refs, cand : Ids \cup {NoId}, id : Ids \cup {NoId}]

Live(i) == row[i].st = "live"
Visible(i) == Live(i) /\ row[i].by = NoId
Busy(h) == op[h] # Idle
At(h, pc) == Busy(h) /\ op[h].pc = pc

TypeOK ==
    /\ row \in [Ids -> Row]
    /\ vec \in [Ids -> Texts \cup {NoText}]
    /\ refs \in [Ids -> SUBSET Refs]
    /\ op \in [Handlers -> Op \cup {Idle}]
    /\ \A h \in Handlers : At(h, "mark") => op[h].cand # NoId /\ op[h].id # NoId
    /\ source \in [Ids -> SUBSET Refs]
    /\ torn \in [Ids -> SUBSET Refs]
    /\ loose \subseteq Ids
    /\ undone \subseteq Ids
    /\ shared \subseteq Ids
    /\ doubted \subseteq Ids
    /\ writes \in Nat
    /\ faults \in Nat

Init ==
    /\ row = [i \in Ids |-> [st |-> "new", text |-> NoText, by |-> NoId]]
    /\ vec = [i \in Ids |-> NoText]
    /\ refs = [i \in Ids |-> {}]
    /\ op = [h \in Handlers |-> Idle]
    /\ source = [i \in Ids |-> {}]
    /\ torn = [i \in Ids |-> {}]
    /\ loose = {} /\ undone = {} /\ shared = {} /\ doubted = {}
    /\ writes = 0
    /\ faults = 0

-----------------------------------------------------------------------------
Write == writes < MaxWrites /\ writes' = writes + 1
Fail == faults < MaxFaults /\ faults' = faults + 1
Goto(h, pc) == op' = [op EXCEPT ![h].pc = pc]
Done(h) == op' = [op EXCEPT ![h] = Idle]

\* The content-hash index: one row per text.
Holds(i, t) == Live(i) /\ row[i].text = t
Unused(t, i) == \A j \in Ids \ {i} : ~Holds(j, t)

\* A visible row other than c and i whose text contradicts t.
Opposed(t, i, c) == \E j \in Ids \ {i, c} : Visible(j) /\ <<row[j].text, t>> \in Contradicts

\* Row i takes text t in a write that knows of candidate c only.
Loosened(t, i, c) == IF Opposed(t, i, c) THEN {i} ELSE {}

-----------------------------------------------------------------------------
(* The probe. *)

Begin(h, pc, t, R) ==
    /\ op[h] = Idle /\ Write
    /\ op' = [op EXCEPT ![h] = [pc |-> pc, text |-> t, refs |-> R, cand |-> NoId, id |-> NoId]]
    /\ UNCHANGED <<row, vec, refs, source, torn, loose, undone, shared, doubted, faults>>

CaptureText(h, t, R) == Begin(h, "probe", t, R)
Remember(h, t, R) == Begin(h, "dedup", t, R)

\* The closest hits first: a stored embedding of the same text scores highest.
Hits(t) == {i \in Ids : vec[i] # NoText /\ <<vec[i], t>> \in Near /\ Visible(i)}
Closest(t) ==
    LET same == {i \in Hits(t) : vec[i] = t} IN IF same # {} THEN same ELSE Hits(t)

\* nearDuplicate, and what Capture makes of the candidate.  The search and the read
\* of the rows it found are one step: the rows are judged as they are when read.
Probe(h) ==
    /\ At(h, "probe")
    /\ LET t == op[h].text IN
       \/ Hits(t) = {} /\ Goto(h, "dedup")
       \/ \E c \in Closest(t) :
             \/ /\ <<row[c].text, t>> \in Contradicts
                /\ op' = [op EXCEPT ![h].pc = "dedup", ![h].cand = c]
             \/ /\ <<row[c].text, t>> \in Extends
                /\ op' = [op EXCEPT ![h].pc = "update", ![h].cand = c]
             \/ /\ <<row[c].text, t>> \notin Contradicts \cup Extends
                /\ Goto(h, "dedup")
    /\ UNCHANGED <<row, vec, refs, source, torn, loose, undone, shared, doubted, writes, faults>>

\* The embedder fails: the capture goes on without a probe.
ProbeBlind(h) ==
    /\ At(h, "probe") /\ Fail
    /\ Goto(h, "dedup")
    /\ UNCHANGED <<row, vec, refs, source, torn, loose, undone, shared, doubted, writes>>

-----------------------------------------------------------------------------
(* Overwriting the candidate in place. *)

\* UpdateEntry rewrites text and metadata, which makes the row visible whatever it
\* was.  A candidate that is gone is no longer a candidate; another row that holds
\* the text fails the request.
Overwrite(h) ==
    /\ At(h, "update")
    /\ LET c == op[h].cand
           t == op[h].text IN
       \/ /\ Live(c) /\ Unused(t, c)
          /\ row' = [row EXCEPT ![c].text = t, ![c].by = NoId]
          /\ source' = [source EXCEPT ![c] = @ \cup op[h].refs]
          /\ loose' = loose \cup Loosened(t, c, c)
          /\ Goto(h, "vector")
       \/ /\ Live(c) /\ ~Unused(t, c)
          /\ Done(h)
          /\ UNCHANGED <<row, source, loose>>
       \/ /\ ~Live(c)
          /\ op' = [op EXCEPT ![h].pc = "dedup", ![h].cand = NoId]
          /\ UNCHANGED <<row, source, loose>>
    /\ UNCHANGED <<vec, refs, torn, undone, shared, doubted, writes, faults>>

\* Mutant: the references of the overwriting text are forgotten.
OverwriteVectorOnly(h) ==
    /\ At(h, "vector")
    /\ Done(h)
    /\ vec' = [vec EXCEPT ![op[h].cand] = op[h].text]
    /\ UNCHANGED <<row, refs, source, torn, loose, undone, shared, doubted, writes, faults>>

OverwriteVector(h) ==
    /\ At(h, "vector")
    /\ Goto(h, "refs")
    /\ \/ vec' = [vec EXCEPT ![op[h].cand] = op[h].text] /\ UNCHANGED faults
       \/ Fail /\ UNCHANGED vec           \* no embedding: the row is queued
    /\ UNCHANGED <<row, refs, source, torn, loose, undone, shared, doubted, writes>>

\* AddSourceRefs: a statement of its own, and nothing for a row that is gone.
RecordRefs(i, R) == refs' = [refs EXCEPT ![i] = IF Live(i) THEN @ \cup R ELSE @]

OverwriteRefs(h) ==
    /\ At(h, "refs")
    /\ RecordRefs(op[h].cand, op[h].refs)
    /\ Done(h)
    /\ UNCHANGED <<row, vec, source, torn, loose, undone, shared, doubted, writes, faults>>

-----------------------------------------------------------------------------
(* Storing the text: remember. *)

\* FindByContentHash does not ask whether the row it finds is visible.
Dedup(h) ==
    /\ At(h, "dedup")
    /\ \/ /\ Unused(op[h].text, NoId)
          /\ Goto(h, "insert")
          /\ UNCHANGED shared
       \/ \E i \in Ids :
             /\ Holds(i, op[h].text)
             /\ op' = [op EXCEPT ![h].pc = "bump", ![h].id = i]
             /\ shared' = shared \cup {i}
    /\ UNCHANGED <<row, vec, refs, source, torn, loose, undone, doubted, writes, faults>>

\* What a stored text still owes: the supersession of the candidate, or nothing.
Rest(h) == IF op[h].cand = NoId THEN "answer" ELSE "mark"

\* BumpHits: its foreign key fails the request when the row is gone by now.
Bump(h) ==
    /\ At(h, "bump")
    /\ IF Live(op[h].id) THEN Goto(h, "merge") ELSE Done(h)
    /\ UNCHANGED <<row, vec, refs, source, torn, loose, undone, shared, doubted, writes, faults>>

\* The references are merged, and a missing vector is made good if that works.
Merge(h) ==
    /\ At(h, "merge")
    /\ LET i == op[h].id IN
       /\ RecordRefs(i, op[h].refs)
       /\ source' = [source EXCEPT ![i] =
                        IF Holds(i, op[h].text) THEN @ \cup op[h].refs ELSE @]
       /\ vec' \in {vec, IF vec[i] = NoText THEN [vec EXCEPT ![i] = op[h].text] ELSE vec}
    /\ Goto(h, Rest(h))
    /\ UNCHANGED <<row, torn, loose, undone, shared, doubted, writes, faults>>

\* InsertEntry: the row with its references in one transaction; the loser of a race
\* adds its references to the winner and goes on with the winner's id.
Insert(h) ==
    /\ At(h, "insert")
    /\ LET t == op[h].text IN
       \/ /\ Unused(t, NoId)
          /\ \E i \in Ids :
                /\ row[i].st = "new"
                /\ row' = [row EXCEPT ![i] = [st |-> "live", text |-> t, by |-> NoId]]
                /\ refs' = [refs EXCEPT ![i] = op[h].refs]
                /\ source' = [source EXCEPT ![i] = op[h].refs]
                /\ loose' = loose \cup Loosened(t, i, op[h].cand)
                /\ op' = [op EXCEPT ![h].pc = "upsert", ![h].id = i]
                /\ UNCHANGED shared
       \/ \E i \in Ids :
             /\ Holds(i, t)
             /\ refs' = [refs EXCEPT ![i] = @ \cup op[h].refs]
             /\ source' = [source EXCEPT ![i] = @ \cup op[h].refs]
             /\ op' = [op EXCEPT ![h].pc = "upsert", ![h].id = i]
             /\ shared' = shared \cup {i}
             /\ UNCHANGED <<row, loose>>
    /\ UNCHANGED <<vec, torn, undone, doubted, writes, faults>>

Upsert(h) ==
    /\ At(h, "upsert")
    /\ Goto(h, Rest(h))
    /\ \/ vec' = [vec EXCEPT ![op[h].id] = op[h].text] /\ UNCHANGED faults
       \/ Fail /\ UNCHANGED vec           \* no embedding: the row is queued
    /\ UNCHANGED <<row, refs, source, torn, loose, undone, shared, doubted, writes>>

-----------------------------------------------------------------------------
(* Superseding the candidate: supersedeWithNewFact after its remember. *)

Mark(h) ==
    /\ At(h, "mark")
    /\ LET c == op[h].cand IN
       \/ /\ Live(c)
          /\ row' = [row EXCEPT ![c].by = op[h].id]
          /\ Goto(h, "answer")
       \/ /\ ~Live(c)
          /\ Goto(h, "undo")
          /\ UNCHANGED row
    /\ UNCHANGED <<vec, refs, source, torn, loose, undone, shared, doubted, writes, faults>>

\* Mutant: the error is returned without the compensation.
MarkFailsAsIs(h) ==
    /\ At(h, "mark") /\ Fail
    /\ Done(h)
    /\ UNCHANGED <<row, vec, refs, source, torn, loose, undone, shared, doubted, writes>>

\* The update reports an error; its transaction may have committed all the same.
MarkFails(h) ==
    /\ At(h, "mark") /\ Fail
    /\ Goto(h, "undo")
    /\ LET c == op[h].cand IN
       \/ UNCHANGED <<row, doubted>>
       \/ /\ Live(c)
          /\ row' = [row EXCEPT ![c].by = op[h].id]
          /\ doubted' = doubted \cup {c}
    /\ UNCHANGED <<vec, refs, source, torn, loose, undone, shared, writes>>

Delete(S) == row' = [i \in Ids |-> IF i \in S THEN [row[i] EXCEPT !.st = "gone"] ELSE row[i]]
Unreferenced(S) == refs' = [i \in Ids |-> IF i \in S THEN {} ELSE refs[i]]

\* Compensation: the row that remember answered with is forgotten.
Undo(h) ==
    /\ At(h, "undo")
    /\ LET S == {i \in {op[h].id} : Live(i)} IN
       /\ Delete(S) /\ Unreferenced(S)
       /\ undone' = undone \cup S
    /\ Done(h)
    /\ UNCHANGED <<vec, source, torn, loose, shared, doubted, writes, faults>>

Answer(h) ==
    /\ At(h, "answer")
    /\ Done(h)
    /\ UNCHANGED <<row, vec, refs, source, torn, loose, undone, shared, doubted, writes, faults>>

\* A call fails and the request returns the error, or the process dies.  A failed
\* upsert may have written its point.
Abort(h) ==
    /\ Busy(h) /\ Fail
    /\ Done(h)
    /\ LET c == op[h].cand
           i == op[h].id
           pc == op[h].pc IN
       /\ torn' = [j \in Ids |-> IF j = c /\ pc \in {"vector", "refs"}
                                 THEN torn[j] \cup op[h].refs ELSE torn[j]]
       /\ loose' = IF c # NoId /\ pc \in {"upsert", "mark", "undo"} THEN loose \cup {i} ELSE loose
       /\ \/ UNCHANGED vec
          \/ pc = "vector" /\ vec' = [vec EXCEPT ![c] = op[h].text]
          \/ pc = "upsert" /\ vec' = [vec EXCEPT ![i] = op[h].text]
    /\ UNCHANGED <<row, refs, source, undone, shared, doubted, writes>>

-----------------------------------------------------------------------------
(* Other requests on the same rows, each a transaction, and the vectors that other  *)
(* components put right (VectorTier).                                               *)

Rewrite(i, t) ==
    /\ Write
    /\ Live(i) /\ Unused(t, i)
    /\ row' = [row EXCEPT ![i].text = t]
    /\ loose' = IF Visible(i) THEN loose \cup Loosened(t, i, i) ELSE loose
    /\ UNCHANGED <<vec, refs, op, source, torn, undone, shared, doubted, faults>>

Forgotten(S) ==
    /\ Write
    /\ Delete(S) /\ Unreferenced(S)
    /\ UNCHANGED <<vec, op, source, torn, loose, undone, shared, doubted, faults>>

Forget(i) == Live(i) /\ Forgotten({i})
Carriers(r) == {i \in Ids : Live(i) /\ r \in refs[i]}
ForgetBySource(r) == Forgotten(Carriers(r))

Reindex(i) ==
    /\ Live(i) /\ vec[i] # row[i].text
    /\ vec' = [vec EXCEPT ![i] = row[i].text]
    /\ UNCHANGED <<row, refs, op, source, torn, loose, undone, shared, doubted, writes, faults>>

Step(h) ==
    \/ Probe(h) \/ ProbeBlind(h) \/ Overwrite(h) \/ OverwriteVector(h) \/ OverwriteRefs(h)
    \/ Dedup(h) \/ Bump(h) \/ Merge(h) \/ Insert(h) \/ Upsert(h)
    \/ Mark(h) \/ MarkFails(h) \/ Undo(h) \/ Answer(h) \/ Abort(h)

Next ==
    \/ \E h \in Handlers, t \in Texts, R \in SUBSET Refs : CaptureText(h, t, R) \/ Remember(h, t, R)
    \/ \E h \in Handlers : Step(h)
    \/ \E i \in Ids, t \in Texts : Rewrite(i, t)
    \/ \E i \in Ids : Forget(i) \/ Reindex(i)
    \/ \E r \in Refs : ForgetBySource(r)

Spec == Init /\ [][Next]_vars

-----------------------------------------------------------------------------
(* Properties. *)

Storing(h, i, j) == Busy(h) /\ op[h].pc \in {"upsert", "mark", "undo"} /\ {op[h].id, op[h].cand} = {i, j}

\* Two visible rows contradict each other only while the capture that stored one of
\* them is still to mark the other or take its own back, or if one of them was stored
\* without a look at what it contradicts: by a remember, an update, a capture whose
\* probe could not see it, or one that stopped half way (supersedeWithNewFact).
OneFactVisible ==
    \A i, j \in Ids :
        Visible(i) /\ Visible(j) /\ <<row[i].text, row[j].text>> \in Contradicts
            => i \in loose \/ j \in loose \/ \E h \in Handlers : Storing(h, i, j)

\* Every source of a row's captured text is on the row's list, so that forgetting the
\* source removes it: unless the write that folded it in is still running, or ended
\* between its two statements (Capture's in-place branch, AddSourceRefs).
Forgettable ==
    \A i \in Ids :
        Live(i) => source[i] \subseteq refs[i] \cup torn[i] \cup
            UNION {op[h].refs : h \in {g \in Handlers :
                       Busy(g) /\ op[g].pc \in {"vector", "refs"} /\ op[g].cand = i}}

\* A memory hidden in favour of a newer one never sees that one taken back, unless
\* a second write was answered with the newer row, or the mark was reported failed and
\* had committed (the compensation of supersedeWithNewFact).
SuccessorStays ==
    \A i \in Ids :
        Live(i) /\ row[i].by \in undone => row[i].by \in shared \/ i \in doubted

\* What supersession promises: one of two facts that exclude each other is hidden, and
\* the one that hid it stays.
OneFact == OneFactVisible /\ SuccessorStays

=============================================================================
