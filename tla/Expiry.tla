------------------------------- MODULE Expiry -------------------------------
(***************************************************************************)
(* What removes memories by their age: the decay loop, which demotes idle  *)
(* entries, deletes those whose TTL has passed and then retries the cold   *)
(* orphans, and the retention loop, which forgets entries that have no TTL *)
(* and were not updated for long.  Both list what is due and act on the    *)
(* list, without a second look, while requests renew and forget entries.   *)
(* The change feed that clients poll is appended afterwards.               *)
(***************************************************************************)
EXTENDS Naturals, FiniteSets

CONSTANTS
    Ids,
    Ttls,           \* what metadata.expiresAt may be: TtlKinds, or some of them
    Decayers,       \* decay loops, one per replica
    Keepers,        \* retention loops, one per replica
    BatchSize,      \* entries that one pass selects
    MaxAttempts,    \* orphanMaxAttempts: 10
    MaxWrites,      \* bound: requests in a run
    MaxFaults       \* bound: failed statements and calls, crashes

\* No TTL, one that lies ahead, one that has passed, and text that is no timestamp.
TtlKinds == {"none", "ahead", "past", "junk"}

ASSUME ExpiryAssumption ==
    /\ Ttls \subseteq TtlKinds
    /\ BatchSize \in Nat \ {0}
    /\ MaxAttempts \in Nat \ {0}
    /\ Decayers \cap Keepers = {}

VARIABLES
    row,      \* memory_entries: status, expiresAt, updated_at old enough
    vec,      \* ids with a vector in the cold store
    orphan,   \* cold_orphans
    tries,    \* their attempts
    feed,     \* memory_changes
    op,       \* what each loop is in the middle of
    leaked,   \* history: ids whose vector was left behind by a fault nobody retries
    writes, faults

vars == <<row, vec, orphan, tries, feed, op, leaked, writes, faults>>

Loops == Decayers \cup Keepers
Idle == [pc |-> "idle"]
Row == [st : {"new", "live", "gone"}, ttl : TtlKinds, aged : BOOLEAN]
Op == [pc : {"list", "delete", "cold", "changes", "orphans", "forget", "clean", "change"},
       todo : SUBSET Ids,     \* still to do in this phase
       gone : SUBSET Ids,     \* deleted by this pass
       met : SUBSET Ids]      \* history: changed since they were listed, see Met
Change == [id : Ids, what : {"created", "deleted", "expired"}]

Live(i) == row[i].st = "live"
Busy(p) == op[p] # Idle
At(p, pc) == Busy(p) /\ op[p].pc = pc

TypeOK ==
    /\ row \in [Ids -> Row]
    /\ vec \subseteq Ids
    /\ orphan \subseteq Ids
    /\ tries \in [Ids -> Nat]
    /\ feed \subseteq Change
    /\ op \in [Loops -> Op \cup {Idle}]
    /\ \A c \in feed : Live(c.id)
    /\ leaked \subseteq Ids
    /\ writes \in Nat
    /\ faults \in Nat

Init ==
    /\ row = [i \in Ids |-> [st |-> "new", ttl |-> "none", aged |-> FALSE]]
    /\ vec = {} /\ orphan = {} /\ feed = {} /\ leaked = {}
    /\ tries = [i \in Ids |-> 0]
    /\ op = [p \in Loops |-> Idle]
    /\ writes = 0
    /\ faults = 0

-----------------------------------------------------------------------------
Fail == faults < MaxFaults /\ faults' = faults + 1
Set(p, o) == op' = [op EXCEPT ![p] = o]
Goto(p, pc) == op' = [op EXCEPT ![p].pc = pc]

\* A request changes what any pass has listed; a demotion only what retention looks at.
Met(P, S) == [p \in Loops |-> IF p \in P /\ Busy(p) THEN [op[p] EXCEPT !.met = @ \cup S] ELSE op[p]]

\* The rows of a set of entries; the foreign keys take what refers to them.
Delete(S) ==
    /\ row' = [i \in Ids |-> IF i \in S /\ Live(i) THEN [row[i] EXCEPT !.st = "gone"] ELSE row[i]]
    /\ feed' = {c \in feed : c.id \notin S}

\* A parked vector counts as attempted once, once more if it was parked before.
Park(i) ==
    /\ orphan' = orphan \cup {i}
    /\ tries' = [tries EXCEPT ![i] = IF i \in orphan THEN @ + 1 ELSE 1]

\* Mutant: a vector that could not be deleted is only logged.
CleanedUnparked(i) ==
    \/ vec' = vec \ {i} /\ UNCHANGED <<orphan, tries, leaked, faults>>
    \/ Fail /\ UNCHANGED <<vec, orphan, tries, leaked>>

\* The vector of a deleted entry goes, or it is parked ...
Cleaned(i) ==
    \/ vec' = vec \ {i} /\ UNCHANGED <<orphan, tries, leaked, faults>>
    \/ Fail /\ Park(i) /\ UNCHANGED <<vec, leaked>>

\* ... or neither, if that fails as well.
Stranded(i) == Fail /\ leaked' = leaked \cup {i} /\ UNCHANGED <<vec, orphan, tries>>

\* RecordChanges: an insert whose entry is gone violates memory_changes_entry_fk, which
\* ends the loop over the rows; the caller logs it.
Recorded(i, what) == feed' = feed \cup {c \in {[id |-> i, what |-> what]} : Live(i)}

-----------------------------------------------------------------------------
(* The decay loop. *)

\* Demotion takes what nobody read for long and writes updated_at, so that a demoted
\* entry starts to age anew.
Demote(p) ==
    /\ p \in Decayers /\ ~Busy(p)
    /\ \E S \in SUBSET {i \in Ids : Live(i)} :
          /\ row' = [i \in Ids |-> IF i \in S THEN [row[i] EXCEPT !.aged = FALSE] ELSE row[i]]
          /\ op' = [Met(Keepers, S) EXCEPT ![p] = [pc |-> "list", todo |-> {}, gone |-> {}, met |-> {}]]
    /\ UNCHANGED <<vec, orphan, tries, feed, leaked, writes, faults>>

Expired == {i \in Ids : Live(i) /\ row[i].ttl = "past"}
Unreadable == \E i \in Ids : Live(i) /\ row[i].ttl = "junk"

\* Mutant: only entries that were not updated for long.
DueAged == {i \in Expired : row[i].aged}

\* What the reaper's query selects.
Due == Expired

\* What the orphan reaper's query selects.
Parked == {i \in orphan : tries[i] < MaxAttempts}

\* LIMIT: all of them, or as many as a pass may select.
Batch(S) == {B \in SUBSET S : Cardinality(B) = BatchSize \/ (B = S /\ Cardinality(B) < BatchSize)}

\* reapExpired casts every expiresAt to a timestamp: one that is none fails the query,
\* and with it the rest of the tick.
ReapList(p) ==
    /\ At(p, "list")
    /\ IF Unreadable THEN Set(p, Idle)
       ELSE \E B \in Batch(Due) :
              Set(p, [op[p] EXCEPT !.pc = IF B = {} THEN "orphans" ELSE "delete",
                                   !.todo = IF B = {} THEN Parked ELSE B, !.met = {}])
    /\ UNCHANGED <<row, vec, orphan, tries, feed, leaked, writes, faults>>

\* One transaction, by the listed ids.
ReapDelete(p) ==
    /\ At(p, "delete")
    /\ Delete(op[p].todo)
    /\ Set(p, [op[p] EXCEPT !.pc = "cold", !.gone = @ \cup op[p].todo])
    /\ UNCHANGED <<vec, orphan, tries, leaked, writes, faults>>

\* What could be neither deleted nor parked is only logged.
ReapCold(p) ==
    /\ At(p, "cold")
    /\ \/ \E i \in op[p].todo :
             /\ Cleaned(i) \/ Stranded(i)
             /\ op' = [op EXCEPT ![p].todo = @ \ {i}]
       \/ /\ op[p].todo = {}
          /\ Goto(p, "changes")
          /\ UNCHANGED <<vec, orphan, tries, leaked, faults>>
    /\ UNCHANGED <<row, feed, writes>>

\* The feed is appended after the entries are gone; then the orphan reaper has its turn.
ReapChanges(p) ==
    /\ At(p, "changes")
    /\ \E i \in op[p].gone : Recorded(i, "expired")
    /\ Set(p, [op[p] EXCEPT !.pc = "orphans", !.todo = Parked])
    /\ UNCHANGED <<row, vec, orphan, tries, leaked, writes, faults>>

\* A retry that fails writes one more than the attempts it listed, whatever was counted
\* since; after the last one the orphan stays.
ReapOrphan(p) ==
    /\ At(p, "orphans")
    /\ \/ \E i \in op[p].todo :
             /\ op' = [op EXCEPT ![p].todo = @ \ {i}]
             /\ \/ vec' = vec \ {i} /\ orphan' = orphan \ {i} /\ tries' = [tries EXCEPT ![i] = 0]
                   /\ UNCHANGED faults
                \/ /\ Fail
                   /\ IF i \in orphan
                      THEN \E listed \in 1 .. (MaxAttempts - 1) :
                              listed <= tries[i] /\ tries' = [tries EXCEPT ![i] = listed + 1]
                      ELSE UNCHANGED tries
                   /\ UNCHANGED <<vec, orphan>>
       \/ /\ op[p].todo = {}
          /\ Set(p, Idle)
          /\ UNCHANGED <<vec, orphan, tries, faults>>
    /\ UNCHANGED <<row, feed, leaked, writes>>

-----------------------------------------------------------------------------
(* The retention loop. *)

\* Mutant: the age is left out of the query.
AgedAny == {i \in Ids : Live(i) /\ row[i].ttl = "none"}

\* What the retention query selects.
Aged == {i \in Ids : Live(i) /\ row[i].aged /\ row[i].ttl = "none"}

RetentionList(p) ==
    /\ p \in Keepers /\ ~Busy(p) /\ Aged # {}
    /\ \E B \in Batch(Aged) : Set(p, [pc |-> "forget", todo |-> B, gone |-> {}, met |-> {}])
    /\ UNCHANGED <<row, vec, orphan, tries, feed, leaked, writes, faults>>

\* Forget, one candidate after the other; one that is gone already is passed over.
RetentionForget(p) ==
    /\ At(p, "forget")
    /\ \/ /\ op[p].todo = {}
          /\ Set(p, Idle)
          /\ UNCHANGED <<row, feed>>
       \/ \E i \in op[p].todo :
             \/ /\ Live(i)
                /\ Delete({i})
                /\ Set(p, [op[p] EXCEPT !.pc = "clean", !.todo = @ \ {i}, !.gone = {i}])
             \/ /\ ~Live(i)
                /\ op' = [op EXCEPT ![p].todo = @ \ {i}]
                /\ UNCHANGED <<row, feed>>
    /\ UNCHANGED <<vec, orphan, tries, leaked, writes, faults>>

\* Forget returns the error of a parking that failed, and ApplyRetention ends with it.
RetentionClean(p) ==
    /\ At(p, "clean")
    /\ \E i \in op[p].gone :
          \/ Cleaned(i) /\ Goto(p, "change")
          \/ Stranded(i) /\ Set(p, Idle)
    /\ UNCHANGED <<row, feed, writes>>

RetentionChange(p) ==
    /\ At(p, "change")
    /\ \E i \in op[p].gone : Recorded(i, "deleted")
    /\ Set(p, [op[p] EXCEPT !.pc = "forget", !.gone = {}])
    /\ UNCHANGED <<row, vec, orphan, tries, leaked, writes, faults>>

\* A statement fails, which ends the pass, or the process dies.  The vectors of what is
\* deleted by then stay behind.
Abort(p) ==
    /\ Busy(p) /\ Fail
    /\ Set(p, Idle)
    /\ leaked' = leaked \cup
         CASE op[p].pc = "cold" -> op[p].todo [] op[p].pc = "clean" -> op[p].gone [] OTHER -> {}
    /\ UNCHANGED <<row, vec, orphan, tries, feed, writes>>

-----------------------------------------------------------------------------
(* Time, and requests. *)

Expire(i) ==
    /\ Live(i) /\ row[i].ttl = "ahead"
    /\ row' = [row EXCEPT ![i].ttl = "past"]
    /\ UNCHANGED <<vec, orphan, tries, feed, op, leaked, writes, faults>>

Age(i) ==
    /\ Live(i) /\ ~row[i].aged
    /\ row' = [row EXCEPT ![i].aged = TRUE]
    /\ UNCHANGED <<vec, orphan, tries, feed, op, leaked, writes, faults>>

Request(S) ==
    /\ writes < MaxWrites /\ writes' = writes + 1
    /\ op' = Met(Loops, S)
    /\ UNCHANGED <<orphan, tries, leaked, faults>>

\* The entry, its vector and the feed; VectorTier has the steps in between.
Remember(i, ttl) ==
    /\ row[i].st = "new"
    /\ row' = [row EXCEPT ![i] = [st |-> "live", ttl |-> ttl, aged |-> FALSE]]
    /\ vec' = vec \cup {i}
    /\ feed' = feed \cup {[id |-> i, what |-> "created"]}
    /\ Request({i})

\* UpdateEntry replaces the metadata, expiresAt included, and writes updated_at.
Renew(i, ttl) ==
    /\ Live(i)
    /\ row' = [row EXCEPT ![i].ttl = ttl, ![i].aged = FALSE]
    /\ UNCHANGED <<vec, feed>>
    /\ Request({i})

Forget(i) ==
    /\ Live(i)
    /\ Delete({i})
    /\ vec' = vec \ {i}
    /\ Request({i})

-----------------------------------------------------------------------------
DecayStep(p) == ReapList(p) \/ ReapDelete(p) \/ ReapCold(p) \/ ReapChanges(p) \/ ReapOrphan(p)
RetentionStep(p) == RetentionForget(p) \/ RetentionClean(p) \/ RetentionChange(p)

Next ==
    \/ \E p \in Loops :
          Demote(p) \/ DecayStep(p) \/ RetentionList(p) \/ RetentionStep(p) \/ Abort(p)
    \/ \E i \in Ids : Expire(i) \/ Age(i) \/ Forget(i)
    \/ \E i \in Ids, ttl \in Ttls : Remember(i, ttl) \/ Renew(i, ttl)

Spec == Init /\ [][Next]_vars

\* The tickers: every pass comes to its end, and the next one comes.
FairSpec ==
    /\ Spec
    /\ \A p \in Decayers : WF_vars(Demote(p)) /\ WF_vars(DecayStep(p))
    /\ \A p \in Keepers : WF_vars(RetentionList(p)) /\ WF_vars(RetentionStep(p))

-----------------------------------------------------------------------------
(* Properties. *)

\* A loop deletes only what is due at that step, the reaper an entry whose TTL has passed,
\* retention one without a TTL that was not updated for long, unless it was changed after
\* it was listed: by a request or, under retention, by a demotion (ApplyRetention,
\* reapExpired).
OnlyDueRemoved ==
    [][\A p \in Loops, i \in Ids :
          (ReapDelete(p) \/ RetentionForget(p)) /\ Live(i) /\ row'[i].st = "gone" =>
              \/ i \in op[p].met
              \/ p \in Decayers /\ row[i].ttl = "past"
              \/ p \in Keepers /\ row[i].ttl = "none" /\ row[i].aged]_vars

\* A deleted entry leaves no vector behind that nobody will delete: it is in the pass
\* that deleted the entry, or parked, or the parking failed or a crash came first.
DeletedOrParked ==
    \A i \in vec \ (orphan \cup leaked) :
        ~Live(i) => \E p \in Loops : \/ At(p, "cold") /\ i \in op[p].todo
                                     \/ At(p, "clean") /\ i \in op[p].gone

\* An entry whose TTL has passed is deleted or renewed in the end, unless some entry has
\* an expiresAt that is no timestamp (reapExpired).
ExpiredGoes ==
    \A i \in Ids : (Live(i) /\ row[i].ttl = "past") ~> (i \notin Expired \/ Unreadable)

\* "the reaper retries on the decay schedule until the vector is gone"
\* (reapExpired), on the same condition, until the attempts are used up.
OrphansRetried ==
    \A i \in Ids : i \in orphan ~> (i \notin orphan \/ tries[i] >= MaxAttempts \/ Unreadable)

\* Both queues of a decay tick drain.
DecayDrains == ExpiredGoes /\ OrphansRetried

=============================================================================
