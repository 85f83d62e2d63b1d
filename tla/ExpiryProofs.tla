---------------------------- MODULE ExpiryProofs ----------------------------
(***************************************************************************)
(* For any number of entries and loops: the passes that delete by age      *)
(* leave no vector behind that nobody will delete, and delete only what    *)
(* is due at that step or was changed since they listed it.  And for any   *)
(* texts, ranks, similarities, cuts and selections: a search answers what  *)
(* was asked, and leaves out nothing it says it looked for.                *)
(***************************************************************************)
EXTENDS Expiry, Search, FiniteSetTheorems, TLAPS

LEMMA MetRecord ==
    ASSUME NEW o \in Op, NEW M \in SUBSET Ids
    PROVE  LET n == [o EXCEPT !.met = M] IN
           /\ n \in Op /\ n # Idle
           /\ n.pc = o.pc /\ n.todo = o.todo /\ n.gone = o.gone /\ n.met = M
BY DEF Op, Idle

\* An entry that goes takes its rows in the feed with it.
LEMMA DeleteTyped ==
    ASSUME TypeOK, NEW S \in SUBSET Ids, Delete(S)
    PROVE  /\ row' \in [Ids -> Row] /\ feed' \subseteq Change
           /\ \A c \in feed' : row'[c.id].st = "live"
BY DEF TypeOK, Delete, Live, Row, Change

LEMMA ColdTyped ==
    ASSUME TypeOK, NEW i \in Ids, Cleaned(i) \/ Stranded(i)
    PROVE  /\ vec' \subseteq Ids /\ orphan' \subseteq Ids /\ tries' \in [Ids -> Nat]
           /\ leaked' \subseteq Ids /\ faults' \in Nat
<1>1. CASE Cleaned(i)
  BY <1>1 DEF TypeOK, Cleaned, Park, Fail
<1>2. CASE Stranded(i)
  BY <1>2 DEF TypeOK, Stranded, Fail
<1>3. QED
  BY <1>1, <1>2

LEMMA RecordedTyped ==
    ASSUME TypeOK, NEW i \in Ids, NEW what \in {"created", "deleted", "expired"}, Recorded(i, what)
    PROVE  feed' \subseteq Change /\ \A c \in feed' : Live(c.id)
BY DEF TypeOK, Recorded, Change

LEMMA TypeInit == Init => TypeOK
BY DEF Init, TypeOK, Row, TtlKinds, Change

\* What a change of some entries leaves of the passes: they are the same, but for some it is noted.
LEMMA MetOp ==
    ASSUME TypeOK, NEW P \in SUBSET Loops, NEW S \in SUBSET Ids
    PROVE  /\ Met(P, S) \in [Loops -> Op \cup {Idle}]
           /\ \A q \in Loops :
                 /\ Met(P, S)[q] # Idle <=> Busy(q)
                 /\ Busy(q) => /\ Met(P, S)[q].pc = op[q].pc /\ Met(P, S)[q].todo = op[q].todo
                               /\ Met(P, S)[q].gone = op[q].gone
                               /\ Met(P, S)[q].met = IF q \in P THEN op[q].met \cup S ELSE op[q].met
<1>1. ASSUME NEW q \in Loops, Busy(q)
      PROVE  /\ Met(P, S)[q] \in Op /\ Met(P, S)[q] # Idle
             /\ Met(P, S)[q].pc = op[q].pc /\ Met(P, S)[q].todo = op[q].todo /\ Met(P, S)[q].gone = op[q].gone
             /\ Met(P, S)[q].met = IF q \in P THEN op[q].met \cup S ELSE op[q].met
  <2>1. op[q] \in Op /\ op[q].met \cup S \in SUBSET Ids
    BY <1>1 DEF Busy, TypeOK, Op
  <2>2. Met(P, S)[q] = IF q \in P THEN [op[q] EXCEPT !.met = op[q].met \cup S] ELSE op[q]
    BY <1>1 DEF Met
  <2>3. CASE q \in P
    BY <2>1, <2>2, <2>3, MetRecord
  <2>4. CASE q \notin P
    BY <1>1, <2>1, <2>2, <2>4 DEF Busy
  <2>5. QED
    BY <2>3, <2>4
<1>2. \A q \in Loops : ~Busy(q) => Met(P, S)[q] = Idle
  BY DEF Met, Busy
<1>3. Met(P, S) = [q \in Loops |-> Met(P, S)[q]]
  BY DEF Met
<1>4. \A q \in Loops : Met(P, S)[q] \in Op \cup {Idle}
  BY <1>1, <1>2
<1>5. Met(P, S) \in [Loops -> Op \cup {Idle}]
  BY <1>3, <1>4
<1>6. QED
  BY <1>1, <1>2, <1>5

\* A request is noted by every pass under way.
LEMMA RequestOp ==
    ASSUME TypeOK, NEW S \in SUBSET Ids, op' = Met(Loops, S)
    PROVE  /\ op' \in [Loops -> Op \cup {Idle}]
           /\ \A p \in Loops :
                 /\ Busy(p)' <=> Busy(p)
                 /\ Busy(p) => /\ op'[p].pc = op[p].pc /\ op'[p].todo = op[p].todo
                               /\ op'[p].gone = op[p].gone /\ op'[p].met = op[p].met \cup S
<1>1. Loops \in SUBSET Loops
  OBVIOUS
<1>2. /\ Met(Loops, S) \in [Loops -> Op \cup {Idle}]
      /\ \A q \in Loops :
            /\ Met(Loops, S)[q] # Idle <=> Busy(q)
            /\ Busy(q) => /\ Met(Loops, S)[q].pc = op[q].pc /\ Met(Loops, S)[q].todo = op[q].todo
                          /\ Met(Loops, S)[q].gone = op[q].gone
                          /\ Met(Loops, S)[q].met = IF q \in Loops THEN op[q].met \cup S ELSE op[q].met
  BY <1>1, MetOp
<1>3. QED
  BY <1>2 DEF Busy

\* A demotion changes no status and no TTL, and those it changes are noted by the passes of retention.
LEMMA DemoteStep ==
    ASSUME TypeOK, NEW p \in Loops, Demote(p)
    PROVE  \E S \in SUBSET Ids :
              /\ row' \in [Ids -> Row]
              /\ \A i \in Ids : /\ row'[i].st = row[i].st /\ row'[i].ttl = row[i].ttl
                                /\ i \notin S => row'[i] = row[i]
              /\ op' \in [Loops -> Op \cup {Idle}]
              /\ op'[p] = [pc |-> "list", todo |-> {}, gone |-> {}, met |-> {}]
              /\ \A q \in Loops \ {p} :
                    /\ Busy(q)' <=> Busy(q)
                    /\ Busy(q) => /\ op'[q].pc = op[q].pc /\ op'[q].todo = op[q].todo
                                  /\ op'[q].gone = op[q].gone
                                  /\ op'[q].met = IF q \in Keepers THEN op[q].met \cup S ELSE op[q].met
<1> DEFINE o == [pc |-> "list", todo |-> {}, gone |-> {}, met |-> {}]
<1>1. PICK S \in SUBSET Ids :
          /\ row' = [i \in Ids |-> IF i \in S THEN [row[i] EXCEPT !.aged = FALSE] ELSE row[i]]
          /\ op' = [Met(Keepers, S) EXCEPT ![p] = o]
  BY DEF Demote
<1>2. o \in Op
  BY DEF Op
<1>3. \A i \in Ids : row[i] \in Row
  BY DEF TypeOK
<1>4. /\ row' \in [Ids -> Row]
      /\ \A i \in Ids : /\ row'[i].st = row[i].st /\ row'[i].ttl = row[i].ttl
                        /\ i \notin S => row'[i] = row[i]
  BY <1>1, <1>3 DEF Row
<1> HIDE DEF o
<1>5. Keepers \in SUBSET Loops
  BY DEF Loops
<1>6. /\ Met(Keepers, S) \in [Loops -> Op \cup {Idle}]
      /\ \A q \in Loops :
            /\ Met(Keepers, S)[q] # Idle <=> Busy(q)
            /\ Busy(q) => /\ Met(Keepers, S)[q].pc = op[q].pc /\ Met(Keepers, S)[q].todo = op[q].todo
                          /\ Met(Keepers, S)[q].gone = op[q].gone
                          /\ Met(Keepers, S)[q].met = IF q \in Keepers THEN op[q].met \cup S ELSE op[q].met
  BY <1>5, MetOp
<1>7. /\ op' \in [Loops -> Op \cup {Idle}] /\ op'[p] = o
      /\ \A q \in Loops \ {p} : op'[q] = Met(Keepers, S)[q]
  BY <1>1, <1>2, <1>6
<1>8. /\ op'[p] = [pc |-> "list", todo |-> {}, gone |-> {}, met |-> {}]
      /\ \A q \in Loops \ {p} :
            /\ Busy(q)' <=> Busy(q)
            /\ Busy(q) => /\ op'[q].pc = op[q].pc /\ op'[q].todo = op[q].todo
                          /\ op'[q].gone = op[q].gone
                          /\ op'[q].met = IF q \in Keepers THEN op[q].met \cup S ELSE op[q].met
  BY <1>6, <1>7 DEF o, Busy
<1>9. QED
  BY <1>4, <1>7, <1>8

LEMMA TypeLoop ==
    ASSUME TypeOK, NEW p \in Loops,
           Demote(p) \/ DecayStep(p) \/ RetentionList(p) \/ RetentionStep(p) \/ Abort(p)
    PROVE  TypeOK'
<1>0. op[p] # Idle => op[p] \in Op
  BY DEF TypeOK
<1>1. CASE Demote(p)
  <2>1. /\ row' \in [Ids -> Row] /\ \A i \in Ids : row'[i].st = row[i].st
        /\ op' \in [Loops -> Op \cup {Idle}]
    BY <1>1, DemoteStep
  <2>2. QED
    BY <1>1, <2>1 DEF Demote, TypeOK, Live, Change
<1>2. CASE ReapList(p)
  <2>1. op[p] \in Op
    BY <1>0, <1>2 DEF ReapList, At, Busy
  <2>2. ASSUME NEW B \in Batch(Due)
        PROVE  [op[p] EXCEPT !.pc = IF B = {} THEN "orphans" ELSE "delete",
                             !.todo = IF B = {} THEN Parked ELSE B, !.met = {}] \in Op
    <3>1. B \subseteq Ids /\ Parked \subseteq Ids
      BY <2>2 DEF Batch, Due, Expired, Parked, TypeOK
    <3>2. QED
      BY <2>1, <3>1 DEF Op
  <2>3. op' \in [Loops -> Op \cup {Idle}]
    <3>1. PICK o \in Op \cup {Idle} : Set(p, o)
      <4>1. CASE Unreadable
        BY <1>2, <4>1 DEF ReapList
      <4>2. CASE ~Unreadable
        <5>1. PICK B \in Batch(Due) :
                Set(p, [op[p] EXCEPT !.pc = IF B = {} THEN "orphans" ELSE "delete",
                                     !.todo = IF B = {} THEN Parked ELSE B, !.met = {}])
          BY <1>2, <4>2 DEF ReapList
        <5>2. QED
          BY <2>2, <5>1
      <4>3. QED
        BY <4>1, <4>2
    <3>2. QED
      BY <3>1 DEF Set, TypeOK
  <2>4. QED
    BY <1>2, <2>3 DEF ReapList, TypeOK, Live
<1>3. CASE ReapDelete(p)
  <2>1. op[p] \in Op
    BY <1>0, <1>3 DEF ReapDelete, At, Busy
  <2>2. op[p].todo \subseteq Ids /\ [op[p] EXCEPT !.pc = "cold", !.gone = @ \cup op[p].todo] \in Op
    BY <2>1 DEF Op
  <2>3. op' \in [Loops -> Op \cup {Idle}]
    BY <1>3, <2>2 DEF ReapDelete, Set, TypeOK
  <2>4. /\ row' \in [Ids -> Row] /\ feed' \subseteq Change
        /\ \A c \in feed' : row'[c.id].st = "live"
    BY <1>3, <2>2, DeleteTyped DEF ReapDelete
  <2>5. QED
    BY <1>3, <2>3, <2>4 DEF ReapDelete, TypeOK, Live
<1>4. CASE ReapCold(p)
  <2>1. op[p] \in Op
    BY <1>0, <1>4 DEF ReapCold, At, Busy
  <2>2. [op[p] EXCEPT !.pc = "changes"] \in Op /\ \A i \in Ids : [op[p] EXCEPT !.todo = @ \ {i}] \in Op
    BY <2>1 DEF Op
  <2>3. op[p].todo \subseteq Ids
    BY <2>1 DEF Op
  <2>4. op' \in [Loops -> Op \cup {Idle}]
    BY <1>4, <2>2, <2>3 DEF ReapCold, Goto, TypeOK
  <2>5. /\ vec' \subseteq Ids /\ orphan' \subseteq Ids /\ tries' \in [Ids -> Nat]
        /\ leaked' \subseteq Ids /\ faults' \in Nat
    BY <1>4, <2>3, ColdTyped DEF ReapCold, TypeOK
  <2>6. QED
    BY <1>4, <2>4, <2>5 DEF ReapCold, TypeOK, Live
<1>5. CASE ReapChanges(p)
  <2>1. op[p] \in Op
    BY <1>0, <1>5 DEF ReapChanges, At, Busy
  <2>2. [op[p] EXCEPT !.pc = "orphans", !.todo = Parked] \in Op /\ op[p].gone \subseteq Ids
    BY <2>1 DEF Op, Parked, TypeOK
  <2>3. feed' \subseteq Change /\ \A c \in feed' : Live(c.id)
    BY <1>5, <2>2, RecordedTyped DEF ReapChanges
  <2>4. op' \in [Loops -> Op \cup {Idle}]
    BY <1>5, <2>2 DEF ReapChanges, Set, TypeOK
  <2>5. QED
    BY <1>5, <2>3, <2>4 DEF ReapChanges, TypeOK, Live
<1>6. CASE ReapOrphan(p)
  <2>1. op[p] \in Op
    BY <1>0, <1>6 DEF ReapOrphan, At, Busy
  <2>2. \A i \in Ids : [op[p] EXCEPT !.todo = @ \ {i}] \in Op
    BY <2>1 DEF Op
  <2>3. op[p].todo \subseteq Ids
    BY <2>1 DEF Op
  <2>4. op' \in [Loops -> Op \cup {Idle}]
    BY <1>6, <2>2, <2>3 DEF ReapOrphan, Set, TypeOK
  <2>5. vec' \subseteq Ids /\ orphan' \subseteq Ids /\ faults' \in Nat /\ tries' \in [Ids -> Nat]
    BY <1>6, ExpiryAssumption DEF ReapOrphan, Fail, TypeOK
  <2>6. QED
    BY <1>6, <2>4, <2>5 DEF ReapOrphan, TypeOK, Live
<1>7. CASE RetentionList(p)
  <2>1. ASSUME NEW B \in Batch(Aged) PROVE [pc |-> "forget", todo |-> B, gone |-> {}, met |-> {}] \in Op
    BY <2>1 DEF Batch, Aged, Op
  <2>2. op' \in [Loops -> Op \cup {Idle}]
    BY <1>7, <2>1 DEF RetentionList, Set, TypeOK
  <2>3. QED
    BY <1>7, <2>2 DEF RetentionList, TypeOK, Live
<1>8. CASE RetentionForget(p)
  <2>1. op[p] \in Op
    BY <1>0, <1>8 DEF RetentionForget, At, Busy
  <2>2. \A i \in Ids : /\ [op[p] EXCEPT !.pc = "clean", !.todo = @ \ {i}, !.gone = {i}] \in Op
                       /\ [op[p] EXCEPT !.todo = @ \ {i}] \in Op
    BY <2>1 DEF Op
  <2>3. op[p].todo \subseteq Ids
    BY <2>1 DEF Op
  <2>4. op' \in [Loops -> Op \cup {Idle}]
    <3>1. PICK o \in Op \cup {Idle} : op' = [op EXCEPT ![p] = o]
      BY <1>8, <2>2, <2>3 DEF RetentionForget, Set
    <3>2. QED
      BY <3>1 DEF TypeOK
  <2>5. \/ UNCHANGED <<row, feed>>
        \/ \E i \in Ids : Delete({i})
    BY <1>8, <2>3 DEF RetentionForget
  <2>6. /\ row' \in [Ids -> Row] /\ feed' \subseteq Change
        /\ \A c \in feed' : row'[c.id].st = "live"
    BY <2>5, DeleteTyped DEF TypeOK, Live
  <2>7. QED
    BY <1>8, <2>4, <2>6 DEF RetentionForget, TypeOK, Live
<1>9. CASE RetentionClean(p)
  <2>1. op[p] \in Op
    BY <1>0, <1>9 DEF RetentionClean, At, Busy
  <2>2. [op[p] EXCEPT !.pc = "change"] \in Op /\ op[p].gone \subseteq Ids
    BY <2>1 DEF Op
  <2>3. op' \in [Loops -> Op \cup {Idle}]
    BY <1>9, <2>2 DEF RetentionClean, Goto, Set, TypeOK
  <2>4. /\ vec' \subseteq Ids /\ orphan' \subseteq Ids /\ tries' \in [Ids -> Nat]
        /\ leaked' \subseteq Ids /\ faults' \in Nat
    BY <1>9, <2>2, ColdTyped DEF RetentionClean
  <2>5. QED
    BY <1>9, <2>3, <2>4 DEF RetentionClean, TypeOK, Live
<1>10. CASE RetentionChange(p)
  <2>1. op[p] \in Op
    BY <1>0, <1>10 DEF RetentionChange, At, Busy
  <2>2. [op[p] EXCEPT !.pc = "forget", !.gone = {}] \in Op /\ op[p].gone \subseteq Ids
    BY <2>1 DEF Op
  <2>3. feed' \subseteq Change /\ \A c \in feed' : Live(c.id)
    BY <1>10, <2>2, RecordedTyped DEF RetentionChange
  <2>4. op' \in [Loops -> Op \cup {Idle}]
    BY <1>10, <2>2 DEF RetentionChange, Set, TypeOK
  <2>5. QED
    BY <1>10, <2>3, <2>4 DEF RetentionChange, TypeOK, Live
<1>11. CASE Abort(p)
  <2>1. op[p] \in Op
    BY <1>0, <1>11 DEF Abort, Busy
  <2>2. leaked' \subseteq Ids
    BY <1>11, <2>1 DEF Abort, TypeOK, Op
  <2>3. op' \in [Loops -> Op \cup {Idle}] /\ faults' \in Nat
    BY <1>11 DEF Abort, Set, Fail, TypeOK
  <2>4. QED
    BY <1>11, <2>2, <2>3 DEF Abort, TypeOK, Live
<1>12. QED
  BY <1>1, <1>2, <1>3, <1>4, <1>5, <1>6, <1>7, <1>8, <1>9, <1>10, <1>11
  DEF DecayStep, RetentionStep

LEMMA TypeEntry ==
    ASSUME TypeOK, NEW i \in Ids, NEW ttl \in TtlKinds,
           Expire(i) \/ Age(i) \/ Forget(i) \/ Remember(i, ttl) \/ Renew(i, ttl)
    PROVE  TypeOK'
<1>1. CASE Expire(i) \/ Age(i)
  <2>1. row' \in [Ids -> Row] /\ \A j \in Ids : row'[j].st = row[j].st
    <3>1. row[i] \in Row /\ "past" \in TtlKinds
      BY DEF TypeOK, TtlKinds
    <3>2. /\ [row[i] EXCEPT !.ttl = "past"] \in Row /\ [row[i] EXCEPT !.aged = TRUE] \in Row
          /\ [row[i] EXCEPT !.ttl = "past"].st = row[i].st
          /\ [row[i] EXCEPT !.aged = TRUE].st = row[i].st
      BY <3>1 DEF Row
    <3>3. QED
      BY <1>1, <3>2 DEF Expire, Age, TypeOK
  <2>2. QED
    BY <1>1, <2>1 DEF Expire, Age, TypeOK, Live, Change
<1>2. CASE Forget(i)
  <2>1. /\ row' \in [Ids -> Row] /\ feed' \subseteq Change
        /\ \A c \in feed' : row'[c.id].st = "live"
    BY <1>2, DeleteTyped DEF Forget
  <2>2. op' \in [Loops -> Op \cup {Idle}]
    BY <1>2, RequestOp DEF Forget, Request
  <2>3. vec' \subseteq Ids /\ writes' \in Nat /\ UNCHANGED <<orphan, tries, leaked, faults>>
    BY <1>2 DEF Forget, Request, TypeOK
  <2>4. QED
    BY <2>1, <2>2, <2>3 DEF TypeOK, Live
<1>3. CASE Remember(i, ttl)
  <2>1. /\ row' \in [Ids -> Row] /\ Live(i)' /\ \A j \in Ids \ {i} : row'[j] = row[j]
    BY <1>3 DEF Remember, TypeOK, Row, Live
  <2>2. feed' \subseteq Change /\ \A c \in feed' : row'[c.id].st = "live"
    BY <1>3, <2>1 DEF Remember, TypeOK, Live, Change
  <2>3. op' \in [Loops -> Op \cup {Idle}]
    BY <1>3, RequestOp DEF Remember, Request
  <2>4. QED
    <3>1. /\ vec' \subseteq Ids /\ writes' \in Nat
          /\ UNCHANGED <<orphan, tries, leaked, faults>>
      BY <1>3 DEF Remember, Request, TypeOK
    <3>2. QED
      BY <2>1, <2>2, <2>3, <3>1 DEF TypeOK, Live
<1>4. CASE Renew(i, ttl)
  <2>1. row' \in [Ids -> Row] /\ \A j \in Ids : row'[j].st = row[j].st
    <3>1. row[i] \in Row /\ row' = [row EXCEPT ![i] = [row[i] EXCEPT !.ttl = ttl, !.aged = FALSE]]
      BY <1>4 DEF Renew, TypeOK
    <3>2. /\ [row[i] EXCEPT !.ttl = ttl, !.aged = FALSE] \in Row
          /\ [row[i] EXCEPT !.ttl = ttl, !.aged = FALSE].st = row[i].st
      BY <3>1 DEF Row
    <3>3. QED
      BY <3>1, <3>2 DEF TypeOK
  <2>2. op' \in [Loops -> Op \cup {Idle}]
    <3>1. op' = Met(Loops, {i}) /\ {i} \in SUBSET Ids
      BY <1>4 DEF Renew, Request
    <3>2. QED
      BY <3>1, RequestOp
  <2>3. QED
    <3>1. writes' \in Nat /\ UNCHANGED <<vec, feed, orphan, tries, leaked, faults>>
      BY <1>4 DEF Renew, Request, TypeOK
    <3>2. QED
      BY <2>1, <2>2, <3>1 DEF TypeOK, Live, Change
<1>5. QED
  BY <1>1, <1>2, <1>3, <1>4

LEMMA TypeNext == ASSUME TypeOK, [Next]_vars PROVE TypeOK'
<1>1. CASE UNCHANGED vars
  BY <1>1 DEF vars, TypeOK, Live
<1>2. "none" \in TtlKinds /\ Ttls \subseteq TtlKinds
  BY ExpiryAssumption DEF TtlKinds
<1>3. QED
  BY <1>1, <1>2, TypeLoop, TypeEntry DEF Next

-----------------------------------------------------------------------------
(* What was deleted. *)

\* A vector belongs to an entry there is, or was.
VectorsKnown == \A i \in vec : row[i].st # "new"

\* Retention has one entry in hand.
OneAtATime == \A p \in Loops : At(p, "clean") => \E i \in Ids : op[p].gone = {i}

\* A pass that is about to delete the vector of i.
Claims(p, i) == (At(p, "cold") /\ i \in op[p].todo) \/ (At(p, "clean") /\ i \in op[p].gone)

LEMMA VectorsInit == Init => VectorsKnown /\ OneAtATime /\ DeletedOrParked
BY DEF Init, VectorsKnown, OneAtATime, DeletedOrParked, At, Busy

\* The other passes, when one moves.
LEMMA OthersClaim ==
    ASSUME TypeOK, NEW p \in Loops, NEW o, op' = [op EXCEPT ![p] = o]
    PROVE  /\ op'[p] = o
           /\ \A q \in Loops \ {p} : /\ op'[q] = op[q]
                                     /\ \A i \in Ids : Claims(q, i)' <=> Claims(q, i)
                                     /\ At(q, "clean")' <=> At(q, "clean")
BY DEF TypeOK, Claims, At, Busy

LEMMA VectorsLoop ==
    ASSUME TypeOK, TypeOK', VectorsKnown, OneAtATime, DeletedOrParked, NEW p \in Loops,
           Demote(p) \/ DecayStep(p) \/ RetentionList(p) \/ RetentionStep(p) \/ Abort(p)
    PROVE  VectorsKnown' /\ OneAtATime' /\ DeletedOrParked'
<1>0. op[p] # Idle => op[p] \in Op
  BY DEF TypeOK
<1>1. VectorsKnown'
  <2>1. \A i \in Ids : row[i].st # "new" => row'[i].st # "new"
    <3>1. ASSUME NEW S, Delete(S), NEW i \in Ids, row[i].st # "new" PROVE row'[i].st # "new"
      BY <3>1 DEF Delete, TypeOK, Row
    <3>2. ASSUME Demote(p), NEW i \in Ids PROVE row'[i].st = row[i].st
      BY <3>2, DemoteStep
    <3>3. UNCHANGED row \/ Demote(p) \/ \E S : Delete(S)
      BY DEF DecayStep, RetentionList, RetentionStep, Abort, ReapList, ReapDelete, ReapCold,
             ReapChanges, ReapOrphan, RetentionForget, RetentionClean, RetentionChange
    <3>4. QED
      BY <3>1, <3>2, <3>3
  <2>2. vec' \subseteq vec /\ vec \subseteq Ids
    BY DEF Demote, DecayStep, RetentionList, RetentionStep, Abort, ReapList, ReapDelete, ReapCold,
           ReapChanges, ReapOrphan, RetentionForget, RetentionClean, RetentionChange, Cleaned,
           Stranded, TypeOK
  <2>3. QED
    BY <2>1, <2>2 DEF VectorsKnown
<1> SUFFICES OneAtATime' /\ DeletedOrParked'
  BY <1>1
<1>2. ASSUME NEW o, op' = [op EXCEPT ![p] = o],
             o = Idle \/ o.pc # "clean" \/ \E i \in Ids : o.gone = {i}
      PROVE  OneAtATime'
  BY <1>2, OthersClaim DEF OneAtATime, At, Busy
\* A step after which every claim of p still stands, or is settled.
<1>3. ASSUME NEW o, op' = [op EXCEPT ![p] = o], vec' \subseteq vec, orphan \cap vec' \subseteq orphan',
             leaked \subseteq leaked',
             \A i \in vec' \ (orphan' \cup leaked') :
                /\ Live(i)' \/ ~Live(i) \/ Claims(p, i)'
                /\ Claims(p, i) => Claims(p, i)'
      PROVE  DeletedOrParked'
  <2> SUFFICES ASSUME NEW i \in vec' \ (orphan' \cup leaked'), ~Live(i)', ~Claims(p, i)'
               PROVE  \E q \in Loops : Claims(q, i)'
    BY DEF DeletedOrParked, Claims
  <2>1. i \in vec \ (orphan \cup leaked) /\ ~Live(i) /\ ~Claims(p, i) /\ i \in Ids
    BY <1>3 DEF TypeOK
  <2>2. PICK q \in Loops : Claims(q, i)
    BY <2>1 DEF DeletedOrParked, Claims
  <2>3. Claims(q, i)'
    BY <1>3, <2>1, <2>2, OthersClaim
  <2>4. QED
    BY <2>3
<1>4. ASSUME NEW o, op' = [op EXCEPT ![p] = o],
             o = Idle \/ o.pc # "clean" \/ \E i \in Ids : o.gone = {i},
             vec' \subseteq vec, orphan \cap vec' \subseteq orphan', leaked \subseteq leaked',
             \A i \in Ids : Live(i)' = Live(i), \A i \in Ids : ~Claims(p, i)
      PROVE  OneAtATime' /\ DeletedOrParked'
  BY <1>2, <1>3, <1>4 DEF TypeOK
<1>5. CASE Demote(p)
  <2>1. /\ \A i \in Ids : row'[i].st = row[i].st
        /\ op'[p] = [pc |-> "list", todo |-> {}, gone |-> {}, met |-> {}]
        /\ \A q \in Loops \ {p} :
              /\ Busy(q)' <=> Busy(q)
              /\ Busy(q) => /\ op'[q].pc = op[q].pc /\ op'[q].todo = op[q].todo
                            /\ op'[q].gone = op[q].gone
        /\ UNCHANGED <<vec, orphan, leaked>> /\ ~Busy(p)
    BY <1>5, DemoteStep DEF Demote
  <2>2. /\ ~At(p, "clean")' /\ \A i \in Ids : ~Claims(p, i)
        /\ \A q \in Loops \ {p} : /\ At(q, "clean")' => At(q, "clean") /\ op'[q].gone = op[q].gone
                                  /\ \A i \in Ids : Claims(q, i)' <=> Claims(q, i)
    BY <2>1 DEF Claims, At
  <2>3. OneAtATime'
    BY <2>2 DEF OneAtATime
  <2>4. DeletedOrParked'
    <3> SUFFICES ASSUME NEW i \in vec' \ (orphan' \cup leaked'), ~Live(i)'
                 PROVE  \E q \in Loops : Claims(q, i)'
      BY DEF DeletedOrParked, Claims
    <3>1. i \in vec \ (orphan \cup leaked) /\ ~Live(i) /\ i \in Ids
      BY <2>1 DEF TypeOK, Live
    <3>2. PICK q \in Loops : Claims(q, i)
      BY <3>1 DEF DeletedOrParked, Claims
    <3>3. QED
      BY <2>2, <3>1, <3>2
  <2>5. QED
    BY <2>3, <2>4
<1>6. CASE ReapList(p) \/ RetentionList(p)
  <2>1. PICK o : op' = [op EXCEPT ![p] = o] /\ (o = Idle \/ o.pc # "clean")
    <3>1. CASE ReapList(p)
      <4>1. op[p] \in Op
        BY <1>0, <3>1 DEF ReapList, At, Busy
      <4>2. \A B : [op[p] EXCEPT !.pc = IF B = {} THEN "orphans" ELSE "delete",
                                 !.todo = IF B = {} THEN Parked ELSE B, !.met = {}].pc # "clean"
        BY <4>1 DEF Op
      <4>3. QED
        BY <3>1, <4>2 DEF ReapList, Set
    <3>2. CASE RetentionList(p)
      <4>1. PICK B : Set(p, [pc |-> "forget", todo |-> B, gone |-> {}, met |-> {}])
        BY <3>2 DEF RetentionList
      <4> DEFINE o == [pc |-> "forget", todo |-> B, gone |-> {}, met |-> {}]
      <4>2. o.pc # "clean" /\ op' = [op EXCEPT ![p] = o]
        BY <4>1 DEF Set
      <4> HIDE DEF o
      <4>3. QED
        BY <4>2
    <3>3. QED
      BY <1>6, <3>1, <3>2
  <2>2. UNCHANGED <<vec, orphan, leaked, row>> /\ (At(p, "list") \/ ~Busy(p))
    BY <1>6 DEF ReapList, RetentionList
  <2>3. \A i \in Ids : (Live(i)' = Live(i)) /\ ~Claims(p, i)
    BY <2>2 DEF Live, Claims, At
  <2>4. QED
    BY <1>4, <2>1, <2>2, <2>3
<1>7. CASE ReapDelete(p)
  <2> DEFINE o == [op[p] EXCEPT !.pc = "cold", !.gone = @ \cup op[p].todo]
  <2>1. op[p] \in Op /\ op' = [op EXCEPT ![p] = o] /\ UNCHANGED <<vec, orphan, leaked>>
        /\ op[p].pc = "delete" /\ Delete(op[p].todo)
    BY <1>0, <1>7 DEF ReapDelete, At, Busy, Set
  <2>2. o.pc = "cold" /\ o.todo = op[p].todo /\ o # Idle
    BY <2>1 DEF Op, Idle
  <2> HIDE DEF o
  <2>3. op'[p] = o
    BY <2>1, OthersClaim
  <2>4. \A i \in Ids : ~Claims(p, i) /\ (Live(i)' \/ ~Live(i) \/ Claims(p, i)')
    BY <2>1, <2>2, <2>3 DEF Claims, At, Busy, Delete, Live, TypeOK
  <2>5. QED
    BY <1>2, <1>3, <2>1, <2>2, <2>4 DEF TypeOK
<1>8. CASE ReapCold(p)
  <2>1. op[p] \in Op /\ op[p].pc = "cold" /\ UNCHANGED row /\ Busy(p)
    BY <1>0, <1>8 DEF ReapCold, At, Busy
  <2>2. \A i \in Ids : Claims(p, i) <=> i \in op[p].todo
    BY <2>1 DEF Claims, At
  <2>3. ASSUME NEW j \in op[p].todo, Cleaned(j) \/ Stranded(j), op' = [op EXCEPT ![p].todo = @ \ {j}]
        PROVE  OneAtATime' /\ DeletedOrParked'
    <3> DEFINE o == [op[p] EXCEPT !.todo = @ \ {j}]
    <3>1. o.pc = "cold" /\ o.todo = op[p].todo \ {j} /\ o # Idle
      BY <2>1 DEF Op, Idle
    <3>2. op' = [op EXCEPT ![p] = o]
      BY <2>3
    <3> HIDE DEF o
    <3>3. op'[p] = o
      BY <3>2, OthersClaim
    <3>4. /\ vec' \subseteq vec /\ orphan \subseteq orphan' /\ leaked \subseteq leaked'
          /\ j \notin vec' \ (orphan' \cup leaked')
      BY <2>3 DEF Cleaned, Stranded, Park, Fail
    <3>5. \A i \in Ids \ {j} : Claims(p, i) => Claims(p, i)'
      BY <2>2, <3>1, <3>3 DEF Claims, At, Busy
    <3>6. \A i \in Ids : Live(i)' = Live(i)
      BY <2>1 DEF Live
    <3>7. OneAtATime'
      BY <1>2, <3>1, <3>2
    <3>8. DeletedOrParked'
      BY <1>3, <3>2, <3>4, <3>5, <3>6 DEF TypeOK
    <3>9. QED
      BY <3>7, <3>8
  <2>4. CASE op[p].todo = {} /\ Goto(p, "changes") /\ UNCHANGED <<vec, orphan, leaked>>
    <3> DEFINE o == [op[p] EXCEPT !.pc = "changes"]
    <3>1. o.pc # "clean" /\ op' = [op EXCEPT ![p] = o]
      BY <2>1, <2>4 DEF Op, Goto
    <3> HIDE DEF o
    <3>2. \A i \in Ids : (Live(i)' = Live(i)) /\ ~Claims(p, i)
      BY <2>1, <2>2, <2>4 DEF Live
    <3>3. QED
      BY <1>4, <2>4, <3>1, <3>2
  <2>5. QED
    BY <1>8, <2>3, <2>4 DEF ReapCold
<1>9. CASE ReapChanges(p) \/ ReapOrphan(p) \/ RetentionChange(p)
  <2>1. /\ op[p] \in Op /\ op[p].pc \in {"changes", "orphans", "change"} /\ UNCHANGED row
        /\ vec' \subseteq vec /\ orphan \cap vec' \subseteq orphan' /\ leaked' = leaked
    BY <1>0, <1>9 DEF ReapChanges, ReapOrphan, RetentionChange, At, Busy
  <2>2. PICK o : op' = [op EXCEPT ![p] = o] /\ (o = Idle \/ o.pc # "clean")
    <3>1. /\ \A T, G : [op[p] EXCEPT !.pc = "orphans", !.todo = T].pc # "clean"
                       /\ [op[p] EXCEPT !.pc = "forget", !.gone = G].pc # "clean"
          /\ \A T : [op[p] EXCEPT !.todo = T].pc # "clean"
      BY <2>1 DEF Op
    <3>2. QED
      BY <1>9, <3>1 DEF ReapChanges, ReapOrphan, RetentionChange, Set
  <2>3. \A i \in Ids : (Live(i)' = Live(i)) /\ ~Claims(p, i)
    BY <2>1 DEF Live, Claims, At
  <2>4. QED
    BY <1>4, <2>1, <2>2, <2>3
<1>10. CASE RetentionForget(p)
  <2>1. /\ op[p] \in Op /\ op[p].pc = "forget" /\ UNCHANGED <<vec, orphan, leaked>>
        /\ op[p].todo \subseteq Ids
    BY <1>0, <1>10 DEF RetentionForget, At, Busy, Op
  <2>2. \A i \in Ids : ~Claims(p, i)
    BY <2>1 DEF Claims, At
  <2>3. ASSUME NEW j \in op[p].todo, Delete({j}),
               op' = [op EXCEPT ![p] = [op[p] EXCEPT !.pc = "clean", !.todo = @ \ {j}, !.gone = {j}]]
        PROVE  OneAtATime' /\ DeletedOrParked'
    <3> DEFINE o == [op[p] EXCEPT !.pc = "clean", !.todo = @ \ {j}, !.gone = {j}]
    <3>1. o.pc = "clean" /\ o.gone = {j} /\ o # Idle /\ j \in Ids /\ op' = [op EXCEPT ![p] = o]
      BY <2>1, <2>3 DEF Op, Idle
    <3> HIDE DEF o
    <3>2. op'[p] = o
      BY <3>1, OthersClaim
    <3>3. \A i \in Ids : Live(i)' \/ ~Live(i) \/ Claims(p, i)'
      BY <2>3, <3>1, <3>2 DEF Claims, At, Busy, Delete, Live, TypeOK
    <3>4. OneAtATime'
      BY <1>2, <3>1
    <3>5. DeletedOrParked'
      BY <1>3, <2>1, <2>2, <3>1, <3>3 DEF TypeOK
    <3>6. QED
      BY <3>4, <3>5
  <2>4. ASSUME UNCHANGED row, NEW o, op' = [op EXCEPT ![p] = o], o = Idle \/ o.pc # "clean"
        PROVE  OneAtATime' /\ DeletedOrParked'
    BY <1>4, <2>1, <2>2, <2>4 DEF Live
  <2>5. \A T : [op[p] EXCEPT !.todo = T].pc # "clean"
    BY <2>1 DEF Op
  <2>6. QED
    BY <1>10, <2>3, <2>4, <2>5 DEF RetentionForget, Set
<1>11. CASE RetentionClean(p)
  <2>1. op[p] \in Op /\ At(p, "clean") /\ op[p].pc = "clean" /\ UNCHANGED row
    BY <1>0, <1>11 DEF RetentionClean, At, Busy
  <2>2. PICK o : op' = [op EXCEPT ![p] = o] /\ (o = Idle \/ o.pc # "clean")
    <3>1. [op[p] EXCEPT !.pc = "change"].pc # "clean"
      BY <2>1 DEF Op
    <3>2. QED
      BY <1>11, <3>1 DEF RetentionClean, Goto, Set
  <2>3. PICK j \in Ids : op[p].gone = {j}
    BY <2>1 DEF OneAtATime
  <2>4. Cleaned(j) \/ Stranded(j)
    BY <1>11, <2>3 DEF RetentionClean
  <2>5. /\ vec' \subseteq vec /\ orphan \subseteq orphan' /\ leaked \subseteq leaked'
        /\ j \notin vec' \ (orphan' \cup leaked')
    BY <2>4 DEF Cleaned, Stranded, Park, Fail
  <2>6. \A i \in Ids : (Live(i)' = Live(i)) /\ (Claims(p, i) => i = j)
    BY <2>1, <2>3 DEF Live, Claims, At
  <2>7. OneAtATime'
    BY <1>2, <2>2
  <2>8. DeletedOrParked'
    BY <1>3, <2>2, <2>5, <2>6 DEF TypeOK
  <2>9. QED
    BY <2>7, <2>8
<1>12. CASE Abort(p)
  <2>1. /\ op[p] \in Op /\ op' = [op EXCEPT ![p] = Idle] /\ UNCHANGED <<row, vec, orphan>>
        /\ leaked \subseteq leaked'
        /\ op[p].pc = "cold" => op[p].todo \subseteq leaked'
        /\ op[p].pc = "clean" => op[p].gone \subseteq leaked'
    BY <1>0, <1>12 DEF Abort, Busy, Set
  <2>2. \A i \in Ids : (Live(i)' = Live(i)) /\ (Claims(p, i) => i \in leaked')
    BY <2>1 DEF Live, Claims, At
  <2>3. OneAtATime'
    BY <1>2, <2>1
  <2>4. DeletedOrParked'
    BY <1>3, <2>1, <2>2 DEF TypeOK
  <2>5. QED
    BY <2>3, <2>4
<1>13. QED
  BY <1>5, <1>6, <1>7, <1>8, <1>9, <1>10, <1>11, <1>12 DEF DecayStep, RetentionStep

LEMMA VectorsEntry ==
    ASSUME TypeOK, TypeOK', VectorsKnown, OneAtATime, DeletedOrParked,
           NEW i \in Ids, NEW ttl \in TtlKinds,
           Expire(i) \/ Age(i) \/ Forget(i) \/ Remember(i, ttl) \/ Renew(i, ttl)
    PROVE  VectorsKnown' /\ OneAtATime' /\ DeletedOrParked'
<1>1. \A p \in Loops : /\ Busy(p)' <=> Busy(p)
                       /\ Busy(p) => /\ op'[p].pc = op[p].pc /\ op'[p].todo = op[p].todo
                                     /\ op'[p].gone = op[p].gone
  <2>1. op' = op \/ \E S \in SUBSET Ids : op' = Met(Loops, S)
    BY DEF Expire, Age, Forget, Remember, Renew, Request
  <2>2. QED
    BY <2>1, RequestOp DEF Busy
<1>2. OneAtATime' /\ \A p \in Loops, j \in Ids : Claims(p, j)' <=> Claims(p, j)
  BY <1>1 DEF OneAtATime, Claims, At
<1>3. /\ \A j \in Ids \ {i} : row'[j] = row[j] /\ (j \in vec' <=> j \in vec)
      /\ i \in vec' => (i \in vec /\ row[i].st = row'[i].st) \/ Live(i)'
      /\ UNCHANGED <<orphan, leaked>>
  <2>1. CASE Expire(i) \/ Age(i) \/ Renew(i, ttl)
    BY <2>1 DEF Expire, Age, Renew, Request, TypeOK, Row
  <2>2. CASE Forget(i)
    BY <2>2 DEF Forget, Delete, Request, TypeOK
  <2>3. CASE Remember(i, ttl)
    BY <2>3 DEF Remember, Request, TypeOK, Live
  <2>4. QED
    BY <2>1, <2>2, <2>3
<1>4. VectorsKnown'
  BY <1>3 DEF VectorsKnown, TypeOK, Live
<1>5. DeletedOrParked'
  <2> SUFFICES ASSUME NEW j \in vec' \ (orphan' \cup leaked'), ~Live(j)'
               PROVE  \E p \in Loops : Claims(p, j)'
    BY DEF DeletedOrParked, Claims
  <2>1. j \in Ids /\ j \in vec \ (orphan \cup leaked) /\ ~Live(j)
    BY <1>3 DEF TypeOK, Live
  <2>2. QED
    BY <1>2, <2>1 DEF DeletedOrParked, Claims
<1>6. QED
  BY <1>2, <1>4, <1>5

LEMMA VectorsNext ==
    ASSUME TypeOK, TypeOK', VectorsKnown, OneAtATime, DeletedOrParked, [Next]_vars
    PROVE  VectorsKnown' /\ OneAtATime' /\ DeletedOrParked'
<1>1. CASE UNCHANGED vars
  BY <1>1 DEF vars, VectorsKnown, OneAtATime, DeletedOrParked, Live, At, Busy
<1>2. "none" \in TtlKinds /\ Ttls \subseteq TtlKinds
  BY ExpiryAssumption DEF TtlKinds
<1>3. QED
  BY <1>1, <1>2, VectorsLoop, VectorsEntry DEF Next

-----------------------------------------------------------------------------
(* What was listed. *)

\* An entry on the list of p is due still, or it was changed since, or it is gone.
Qualified(p, i) ==
    Live(i) => \/ i \in op[p].met
               \/ p \in Keepers /\ row[i].ttl = "none" /\ row[i].aged
               \/ p \in Decayers /\ row[i].ttl = "past"
Listed ==
    \A p \in Loops :
        /\ At(p, "list") \/ At(p, "delete") => p \in Decayers
        /\ Busy(p) /\ op[p].pc \in {"forget", "clean", "change"} => p \in Keepers
        /\ Busy(p) /\ op[p].pc \in {"delete", "forget", "clean", "change"} =>
              \A i \in op[p].todo : Qualified(p, i)

LEMMA ListedInit == Init => Listed
BY DEF Init, Listed, At, Busy

\* What is asked of the pass of p once it is o.
Fits(p, o) ==
    o # Idle =>
        /\ o.pc \in {"list", "delete"} => p \in Decayers
        /\ o.pc \in {"forget", "clean", "change"} => p \in Keepers
        /\ o.pc \in {"delete", "forget", "clean", "change"} =>
              \A i \in o.todo : Live(i)' => \/ i \in o.met
                                            \/ p \in Keepers /\ row'[i].ttl = "none" /\ row'[i].aged
                                            \/ p \in Decayers /\ row'[i].ttl = "past"

LEMMA ListedKept ==
    ASSUME TypeOK, Listed, NEW p \in Loops, NEW o, op' = [op EXCEPT ![p] = o], Fits(p, o),
           \A i \in Ids : Live(i)' => Live(i) /\ row'[i] = row[i]
    PROVE  Listed'
<1>1. op'[p] = o /\ \A q \in Loops \ {p} : op'[q] = op[q]
  BY DEF TypeOK
<1>2. \A q \in Loops : op[q] # Idle => op[q].todo \subseteq Ids
  BY DEF TypeOK, Op
<1>3. QED
  BY <1>1, <1>2 DEF Listed, Fits, Qualified, At, Busy

LEMMA ListedLoop ==
    ASSUME TypeOK, Listed, NEW p \in Loops,
           Demote(p) \/ DecayStep(p) \/ RetentionList(p) \/ RetentionStep(p) \/ Abort(p)
    PROVE  Listed'
<1>0. op[p] # Idle => op[p] \in Op
  BY DEF TypeOK
<1>3. CASE Demote(p)
  <2>1. PICK S \in SUBSET Ids :
              /\ \A i \in Ids : /\ row'[i].st = row[i].st /\ row'[i].ttl = row[i].ttl
                                /\ i \notin S => row'[i] = row[i]
              /\ op'[p] = [pc |-> "list", todo |-> {}, gone |-> {}, met |-> {}]
              /\ \A q \in Loops \ {p} :
                    /\ Busy(q)' <=> Busy(q)
                    /\ Busy(q) => /\ op'[q].pc = op[q].pc /\ op'[q].todo = op[q].todo
                                  /\ op'[q].met = IF q \in Keepers THEN op[q].met \cup S ELSE op[q].met
    BY <1>3, DemoteStep
  <2>2. p \in Decayers
    BY <1>3 DEF Demote
  <2>3. ASSUME NEW q \in Loops \ {p}, Busy(q), NEW j \in op[q].todo, Qualified(q, j)
        PROVE  Qualified(q, j)'
    <3>1. j \in Ids
      BY <2>3 DEF TypeOK, Op, Busy
    <3>2. CASE q \in Keepers /\ j \in S
      BY <2>1, <2>3, <3>2 DEF Qualified
    <3>3. CASE ~(q \in Keepers /\ j \in S)
      BY <2>1, <2>3, <3>1, <3>3 DEF Qualified, Live
    <3>4. QED
      BY <3>2, <3>3
  <2>4. Busy(p)' => op'[p].pc = "list" /\ op'[p].todo = {}
    BY <2>1
  <2>5. ASSUME NEW q \in Loops, q # p, Busy(q)'
        PROVE  /\ op'[q].pc \in {"list", "delete"} => q \in Decayers
               /\ op'[q].pc \in {"forget", "clean", "change"} => q \in Keepers
               /\ op'[q].pc \in {"delete", "forget", "clean", "change"} =>
                     \A j \in op'[q].todo : Qualified(q, j)'
    BY <2>1, <2>3, <2>5 DEF Listed, At
  <2>6. QED
    BY <2>2, <2>4, <2>5 DEF Listed, At
<1> SUFFICES ASSUME ~Demote(p) PROVE Listed'
  BY <1>3
<1>1. \A i \in Ids : Live(i)' => Live(i) /\ row'[i] = row[i]
  <2>1. ASSUME NEW S, Delete(S), NEW i \in Ids PROVE Live(i)' => Live(i) /\ row'[i] = row[i]
    BY <2>1 DEF Delete, TypeOK, Row, Live
  <2>2. UNCHANGED row \/ \E S : Delete(S)
    BY DEF DecayStep, RetentionList, RetentionStep, Abort, ReapList, ReapDelete, ReapCold,
           ReapChanges, ReapOrphan, RetentionForget, RetentionClean, RetentionChange
  <2>3. QED
    BY <2>1, <2>2 DEF Live
<1>2. ASSUME NEW o, op' = [op EXCEPT ![p] = o], o = Idle \/ o.pc \in {"cold", "changes", "orphans"}
      PROVE  Listed'
  <2>1. Fits(p, o)
    BY <1>2 DEF Fits
  <2>2. QED
    BY <1>1, <1>2, <2>1, ListedKept
<1>4. CASE ReapList(p)
  <2>1. op[p] \in Op /\ p \in Decayers /\ UNCHANGED row
    BY <1>0, <1>4 DEF ReapList, At, Busy, Listed
  <2>2. ASSUME NEW B \in Batch(Due),
               op' = [op EXCEPT ![p] = [op[p] EXCEPT !.pc = IF B = {} THEN "orphans" ELSE "delete",
                                                     !.todo = IF B = {} THEN Parked ELSE B, !.met = {}]]
        PROVE  Listed'
    <3> DEFINE o == [op[p] EXCEPT !.pc = IF B = {} THEN "orphans" ELSE "delete",
                                  !.todo = IF B = {} THEN Parked ELSE B, !.met = {}]
    <3>1. op' = [op EXCEPT ![p] = o] /\ (o.pc = "orphans" \/ (o.pc = "delete" /\ o.todo = B))
      BY <2>1, <2>2 DEF Op
    <3> HIDE DEF o
    <3>2. \A i \in B : row[i].ttl = "past"
      BY <2>2 DEF Batch, Due, Expired
    <3>3. Fits(p, o)
      BY <2>1, <3>1, <3>2 DEF Fits
    <3>4. QED
      BY <1>1, <3>1, <3>3, ListedKept
  <2>3. QED
    BY <1>2, <1>4, <2>2 DEF ReapList, Set
<1>5. CASE ReapDelete(p) \/ ReapCold(p) \/ ReapChanges(p) \/ ReapOrphan(p) \/ Abort(p)
  <2>1. op[p] \in Op
    BY <1>0, <1>5 DEF ReapDelete, ReapCold, ReapChanges, ReapOrphan, Abort, At, Busy
  <2>2. \A T : /\ [op[p] EXCEPT !.pc = "cold", !.gone = T].pc = "cold"
               /\ [op[p] EXCEPT !.pc = "orphans", !.todo = T].pc = "orphans"
               /\ [op[p] EXCEPT !.todo = T].pc = op[p].pc
    BY <2>1 DEF Op
  <2>3. [op[p] EXCEPT !.pc = "changes"].pc = "changes"
    BY <2>1 DEF Op
  <2>4. CASE ReapDelete(p) \/ ReapChanges(p) \/ Abort(p)
    <3>1. PICK o : op' = [op EXCEPT ![p] = o] /\ (o = Idle \/ o.pc \in {"cold", "changes", "orphans"})
      <4>1. ASSUME ReapDelete(p)
            PROVE  op' = [op EXCEPT ![p] = [op[p] EXCEPT !.pc = "cold", !.gone = op[p].gone \cup op[p].todo]]
        BY <4>1 DEF ReapDelete, Set
      <4>2. ASSUME ReapChanges(p)
            PROVE  op' = [op EXCEPT ![p] = [op[p] EXCEPT !.pc = "orphans", !.todo = Parked]]
        BY <4>2 DEF ReapChanges, Set
      <4>3. ASSUME Abort(p) PROVE op' = [op EXCEPT ![p] = Idle]
        BY <4>3 DEF Abort, Set
      <4>4. CASE ReapDelete(p)
        <5> DEFINE o == [op[p] EXCEPT !.pc = "cold", !.gone = op[p].gone \cup op[p].todo]
        <5>1. o.pc = "cold"
          BY <2>2
        <5>2. op' = [op EXCEPT ![p] = o]
          BY <4>1, <4>4
        <5> HIDE DEF o
        <5>3. QED
          BY <5>1, <5>2
      <4>5. CASE ReapChanges(p)
        <5> DEFINE o == [op[p] EXCEPT !.pc = "orphans", !.todo = Parked]
        <5>1. o.pc = "orphans"
          BY <2>2
        <5>2. op' = [op EXCEPT ![p] = o]
          BY <4>2, <4>5
        <5> HIDE DEF o
        <5>3. QED
          BY <5>1, <5>2
      <4>6. CASE Abort(p)
        BY <4>3, <4>6
      <4>7. QED
        BY <2>4, <4>4, <4>5, <4>6
    <3>2. QED
      BY <1>2, <3>1
  <2>5. ASSUME NEW o \in {[op[p] EXCEPT !.pc = "changes"]}
                          \cup {[op[p] EXCEPT !.todo = @ \ {i}] : i \in Ids},
               op' = [op EXCEPT ![p] = o], op[p].pc \in {"cold", "orphans"}
        PROVE  Listed'
    <3>1. o.pc \in {"cold", "changes", "orphans"}
      BY <2>1, <2>5 DEF Op
    <3>2. QED
      BY <1>2, <2>5, <3>1
  <2>6. op[p].todo \subseteq Ids
    BY <2>1 DEF Op
  <2>7. CASE ReapCold(p)
    BY <2>5, <2>6, <2>7 DEF ReapCold, Goto, At
  <2>8. CASE ReapOrphan(p)
    BY <1>2, <2>5, <2>6, <2>8 DEF ReapOrphan, Set, At
  <2>9. QED
    BY <1>5, <2>4, <2>7, <2>8
<1>6. CASE RetentionList(p)
  <2>1. PICK B \in Batch(Aged) :
          op' = [op EXCEPT ![p] = [pc |-> "forget", todo |-> B, gone |-> {}, met |-> {}]]
    BY <1>6 DEF RetentionList, Set
  <2> DEFINE o == [pc |-> "forget", todo |-> B, gone |-> {}, met |-> {}]
  <2>2. op' = [op EXCEPT ![p] = o] /\ o.pc = "forget" /\ o.todo = B
    BY <2>1
  <2> HIDE DEF o
  <2>3. p \in Keepers /\ UNCHANGED row /\ \A i \in B : row[i].ttl = "none" /\ row[i].aged
    BY <1>6, <2>1 DEF RetentionList, Batch, Aged
  <2>4. Fits(p, o)
    BY <2>2, <2>3 DEF Fits
  <2>5. QED
    BY <1>1, <2>2, <2>4, ListedKept
<1>7. CASE RetentionStep(p)
  <2>1. /\ op[p] \in Op /\ op[p].pc \in {"forget", "clean", "change"} /\ p \in Keepers
        /\ \A i \in op[p].todo : i \in Ids /\ Qualified(p, i)
    BY <1>0, <1>7 DEF RetentionStep, RetentionForget, RetentionClean, RetentionChange, At, Busy,
                      Listed, Op
  <2>2. ASSUME NEW o, op' = [op EXCEPT ![p] = o], o.pc \in {"forget", "clean", "change"},
               o.todo \subseteq op[p].todo, o.met = op[p].met
        PROVE  Listed'
    <3>1. Fits(p, o)
      BY <1>1, <2>1, <2>2 DEF Fits, Qualified
    <3>2. QED
      BY <1>1, <2>2, <3>1, ListedKept
  <2>3. CASE RetentionForget(p)
    <3>1. ASSUME NEW i,
                 op' = [op EXCEPT ![p] = [op[p] EXCEPT !.pc = "clean", !.todo = @ \ {i}, !.gone = {i}]]
          PROVE  Listed'
      <4> DEFINE o == [op[p] EXCEPT !.pc = "clean", !.todo = @ \ {i}, !.gone = {i}]
      <4>1. o.pc = "clean" /\ o.todo = op[p].todo \ {i} /\ o.met = op[p].met
        BY <2>1 DEF Op
      <4>2. op' = [op EXCEPT ![p] = o]
        BY <3>1
      <4> HIDE DEF o
      <4>3. QED
        BY <2>2, <4>1, <4>2
    <3>2. ASSUME NEW i, op' = [op EXCEPT ![p].todo = @ \ {i}] PROVE Listed'
      <4> DEFINE o == [op[p] EXCEPT !.todo = @ \ {i}]
      <4>1. o.pc = op[p].pc /\ o.todo = op[p].todo \ {i} /\ o.met = op[p].met
        BY <2>1 DEF Op
      <4>2. op' = [op EXCEPT ![p] = o]
        BY <3>2
      <4> HIDE DEF o
      <4>3. QED
        BY <2>1, <2>2, <4>1, <4>2
    <3>3. QED
      BY <1>2, <2>3, <3>1, <3>2 DEF RetentionForget, Set
  <2>4. CASE RetentionClean(p) \/ RetentionChange(p)
    <3>1. PICK o : /\ op' = [op EXCEPT ![p] = o]
                   /\ o \in {Idle, [op[p] EXCEPT !.pc = "change"], [op[p] EXCEPT !.pc = "forget", !.gone = {}]}
      BY <2>4 DEF RetentionClean, RetentionChange, Goto, Set
    <3>2. o = Idle \/ (o.pc \in {"forget", "change"} /\ o.todo = op[p].todo /\ o.met = op[p].met)
      BY <2>1, <3>1 DEF Op
    <3>3. QED
      BY <1>2, <2>2, <3>1, <3>2
  <2>5. QED
    BY <1>7, <2>3, <2>4 DEF RetentionStep
<1>8. QED
  BY <1>3, <1>4, <1>5, <1>6, <1>7 DEF DecayStep

LEMMA ListedEntry ==
    ASSUME TypeOK, Listed, NEW i \in Ids, NEW ttl \in TtlKinds,
           Expire(i) \/ Age(i) \/ Forget(i) \/ Remember(i, ttl) \/ Renew(i, ttl)
    PROVE  Listed'
<1>0. \A p \in Loops : Busy(p) => op[p].todo \subseteq Ids
  BY DEF Busy, TypeOK, Op
<1>1. CASE Expire(i) \/ Age(i)
  <2>1. op' = op /\ \A j \in Ids : /\ Live(j)' = Live(j)
                                   /\ row[j].ttl \in {"none", "past"} => row'[j].ttl = row[j].ttl
                                   /\ row[j].aged => row'[j].aged
    BY <1>1 DEF Expire, Age, TypeOK, Row, Live
  <2>2. QED
    BY <1>0, <2>1 DEF Listed, Qualified, At, Busy
<1>2. CASE Forget(i) \/ Remember(i, ttl) \/ Renew(i, ttl)
  <2>1. op' = Met(Loops, {i}) /\ {i} \in SUBSET Ids
    BY <1>2 DEF Forget, Remember, Renew, Request
  <2>2. \A p \in Loops :
          /\ Busy(p)' <=> Busy(p)
          /\ Busy(p) => /\ op'[p].pc = op[p].pc /\ op'[p].todo = op[p].todo
                        /\ op'[p].met = op[p].met \cup {i}
    BY <2>1, RequestOp
  <2>3. \A j \in Ids \ {i} : row'[j] = row[j]
    BY <1>2 DEF Forget, Delete, Remember, Renew, TypeOK
  <2>4. ASSUME NEW p \in Loops, Busy(p), NEW j \in op'[p].todo, Qualified(p, j) PROVE Qualified(p, j)'
    <3>1. j \in Ids
      BY <1>0, <2>2, <2>4
    <3>2. CASE j = i
      BY <2>2, <2>4, <3>2 DEF Qualified
    <3>3. CASE j # i
      BY <2>2, <2>3, <2>4, <3>1, <3>3 DEF Qualified, Live
    <3>4. QED
      BY <3>2, <3>3
  <2>5. QED
    BY <2>2, <2>4 DEF Listed, At
<1>3. QED
  BY <1>1, <1>2

LEMMA ListedNext == ASSUME TypeOK, Listed, [Next]_vars PROVE Listed'
<1>1. CASE UNCHANGED vars
  BY <1>1 DEF vars, Listed, Qualified, Live, At, Busy
<1>2. "none" \in TtlKinds /\ Ttls \subseteq TtlKinds
  BY ExpiryAssumption DEF TtlKinds
<1>3. QED
  BY <1>1, <1>2, ListedLoop, ListedEntry DEF Next

-----------------------------------------------------------------------------
\* The inductive invariant.
EInv ==
    /\ TypeOK
    /\ VectorsKnown /\ OneAtATime /\ DeletedOrParked
    /\ Listed

LEMMA EInvInit == Init => EInv
BY TypeInit, VectorsInit, ListedInit DEF EInv

LEMMA EInvNext == ASSUME EInv, [Next]_vars PROVE EInv'
<1>1. TypeOK'
  BY TypeNext DEF EInv
<1>2. VectorsKnown' /\ OneAtATime' /\ DeletedOrParked'
  BY <1>1, VectorsNext DEF EInv
<1>3. Listed'
  BY ListedNext DEF EInv
<1>4. QED
  BY <1>1, <1>2, <1>3 DEF EInv

\* For every constant: the rows, the vectors and the passes fit together in every reachable state,
\* whatever the loops of all replicas and the requests do to one another.
THEOREM ExpiryCorrect == Spec => []EInv
<1>1. EInv /\ [Next]_vars => EInv'
  BY EInvNext
<1>2. QED
  BY <1>1, EInvInit, PTL DEF Spec

\* No pass leaves a vector behind that nobody will delete: ReapCold, RetentionClean, the orphan reaper.
THEOREM NoVectorForgotten == Spec => []DeletedOrParked
<1>1. EInv => DeletedOrParked
  BY DEF EInv
<1>2. QED
  BY <1>1, ExpiryCorrect, PTL

\* What a pass deletes is due at that very step, by its TTL or by its age, or a request changed it, or a
\* demotion made it young again, between the pass's list and the deletion: nothing else takes the
\* qualification away that the list was made by.
THEOREM OnlyTheDueAreRemoved == Spec => OnlyDueRemoved
<1> DEFINE A == \A p \in Loops, i \in Ids :
                   (ReapDelete(p) \/ RetentionForget(p)) /\ Live(i) /\ row'[i].st = "gone" =>
                       \/ i \in op[p].met
                       \/ p \in Decayers /\ row[i].ttl = "past"
                       \/ p \in Keepers /\ row[i].ttl = "none" /\ row[i].aged
<1>1. EInv /\ [Next]_vars => [A]_vars
  <2> SUFFICES ASSUME EInv, NEW p \in Loops, NEW i \in Ids, ReapDelete(p) \/ RetentionForget(p),
                      Live(i), row'[i].st = "gone"
               PROVE  \/ i \in op[p].met
                      \/ p \in Decayers /\ row[i].ttl = "past"
                      \/ p \in Keepers /\ row[i].ttl = "none" /\ row[i].aged
    OBVIOUS
  <2>1. row[i].st = "live" /\ TypeOK
    BY DEF Live, EInv
  <2>2. i \in op[p].todo /\ Busy(p) /\ op[p].pc \in {"delete", "forget"}
    <3>1. CASE ReapDelete(p)
      BY <2>1, <3>1 DEF ReapDelete, At, Delete, TypeOK
    <3>2. CASE RetentionForget(p)
      BY <2>1, <3>2 DEF RetentionForget, At, Delete, TypeOK
    <3>3. QED
      BY <3>1, <3>2
  <2>3. Qualified(p, i)
    BY <2>2 DEF EInv, Listed
  <2>4. QED
    BY <2>3 DEF Qualified
<1>2. QED
  BY <1>1, ExpiryCorrect, PTL DEF Spec, OnlyDueRemoved

-----------------------------------------------------------------------------
(* The search: what it has read when it answers. *)

Searching == search.pc \in {"keyword", "vector", "load"}
Enough(S) == Cardinality(S) >= asked.k * OverfetchFactor
NearIn(hits) == {id \in DOMAIN hits : hits[id] >= MinVectorScore}
Untouched(id) == Visible(id) /\ id \notin search.touched

\* What was read of the keyword tier stood on an asked shelf, and what was read of the
\* vector tier had a vector there; it still does, unless it was written to.
HitsAsked ==
    Searching =>
        /\ \A id \in DOMAIN search.kw : stored[id].shelf \in asked.shelves \/ id \in search.touched
        /\ \A id \in DOMAIN search.vec : Untouched(id) =>
                \E s \in asked.shelves : vectors[id][s] # NoVector

\* What a tier that was read can find is among its hits, or these are as many as the cut
\* keeps; and nothing is said of a tier that failed.
HitsComplete ==
    Searching /\ ~search.degraded =>
        /\ \A q \in asked.queries \ search.toRead, id \in Entries :
                Untouched(id) /\ ByTerms(q, id) => id \in DOMAIN search.kw \/ Enough(DOMAIN search.kw)
        /\ \A q \in asked.queries, s \in asked.shelves, id \in Entries :
                /\ <<q, s>> \notin search.toScan
                /\ Untouched(id) /\ ByVector(q, id, s)
                => id \in Near \/ Enough(Near)

TiersInOrder ==
    Searching => /\ search.toRead \subseteq asked.queries
                 /\ search.toScan \subseteq asked.queries \X asked.shelves
                 /\ search.pc # "keyword" => search.toRead = {}
                 /\ search.pc = "load" => search.toScan = {}

SearchInv == SearchTypeOK /\ TiersInOrder /\ HitsAsked /\ HitsComplete /\ NoNeedlessRestatement

\* Entries are finitely many, and a set with as many hits as the cut keeps has them
\* however it grows.
LEMMA EnoughGrows ==
  ASSUME NEW S \in SUBSET Entries, NEW T \in SUBSET S, Enough(T), asked.k \in Nat
  PROVE  Enough(S)
<1>1. IsFiniteSet(S) BY SearchAssumption, FS_Subset
<1>2. Cardinality(S) \in Nat /\ Cardinality(T) \in Nat /\ Cardinality(T) <= Cardinality(S)
  BY <1>1, FS_Subset, FS_CardinalityType
<1>3. asked.k * OverfetchFactor \in Nat BY SearchAssumption
<1> QED BY <1>2, <1>3 DEF Enough

LEMMA RunningTypes ==
  ASSUME SearchTypeOK, search.pc # "idle"
  PROVE  /\ search \in [pc : {"keyword", "vector", "load", "done"}, asked : Requests, degraded : BOOLEAN,
                        toRead : SUBSET Queries, toScan : SUBSET (Queries \X Shelves),
                        kw : Hits, vec : Hits,
                        touched : SUBSET Entries, overlooked : SUBSET Entries,
                        answer : Seq(Answer), left : SUBSET Answer]
         /\ asked \in Requests /\ asked.k \in Nat \ {0} /\ asked.budget \in Nat
         /\ asked.shelves \subseteq Shelves /\ asked.queries \subseteq Queries
<1>1. search \in [pc : {"keyword", "vector", "load", "done"}, asked : Requests, degraded : BOOLEAN,
                  toRead : SUBSET Queries, toScan : SUBSET (Queries \X Shelves),
                  kw : Hits, vec : Hits,
                  touched : SUBSET Entries, overlooked : SUBSET Entries,
                  answer : Seq(Answer), left : SUBSET Answer]
  BY DEF SearchTypeOK, NoSearch
<1>2. asked \in Requests BY <1>1 DEF asked
<1> QED BY <1>1, <1>2, SearchAssumption

LEMMA HitsTypes ==
  /\ \A h \in Hits : DOMAIN h \subseteq Entries /\ \A id \in DOMAIN h : h[id] \in Scores /\ h[id] \in Nat
  /\ \A S \in SUBSET Entries : \A h \in [S -> Scores] : h \in Hits
  /\ \A q \in Queries, text \in Texts : /\ Rank[q][text] \in Scores /\ Cosine[q][text] \in Scores
                                        /\ Rank[q][text] \in Nat /\ Cosine[q][text] \in Nat
  /\ [id \in {} |-> 0] \in Hits
<1>1. \A q \in Queries, text \in Texts :
        Rank[q][text] \in Scores /\ Cosine[q][text] \in Scores
  <2> TAKE q \in Queries, text \in Texts
  <2> DEFINE here == {Rank[q][text], Cosine[q][text]}
             all == {{Rank[r][t], Cosine[r][t]} : r \in Queries, t \in Texts}
  <2>1. here \in all OBVIOUS
  <2>2. Scores = UNION all BY DEF Scores
  <2>3. Rank[q][text] \in here /\ Cosine[q][text] \in here OBVIOUS
  <2> HIDE DEF here, all
  <2> QED BY <2>1, <2>2, <2>3
<1>2. \A q \in Queries, text \in Texts : Rank[q][text] \in Nat /\ Cosine[q][text] \in Nat
  BY SearchAssumption
<1>3. \A x \in Scores : x \in Nat BY <1>2 DEF Scores
<1>4. [id \in {} |-> 0] \in [{} -> Scores] OBVIOUS
<1>5. \A S \in SUBSET Entries : \A h \in [S -> Scores] : h \in Hits BY DEF Hits
<1>6. ASSUME NEW h \in Hits
      PROVE  DOMAIN h \subseteq Entries /\ \A id \in DOMAIN h : h[id] \in Scores /\ h[id] \in Nat
  <2>1. PICK S \in SUBSET Entries : h \in [S -> Scores] BY <1>6 DEF Hits
  <2> QED BY <2>1, <1>3
<1> QED BY <1>1, <1>2, <1>4, <1>5, <1>6

LEMMA Merges ==
  ASSUME NEW f \in Hits, NEW g \in Hits
  PROVE  /\ Merge(f, g) \in Hits /\ DOMAIN Merge(f, g) = DOMAIN f \cup DOMAIN g
         /\ NearIn(f) \subseteq NearIn(Merge(f, g)) /\ NearIn(g) \subseteq NearIn(Merge(f, g))
<1> DEFINE h == Merge(f, g)
<1>1. DOMAIN h = DOMAIN f \cup DOMAIN g BY DEF Merge
<1>2. \A id \in DOMAIN h : /\ h[id] \in Scores /\ id \in Entries
                           /\ id \in DOMAIN f => h[id] >= f[id]
                           /\ id \in DOMAIN g => h[id] >= g[id]
  <2> TAKE id \in DOMAIN h
  <2>1. h[id] = IF id \in DOMAIN f /\ (id \in DOMAIN g => f[id] > g[id]) THEN f[id] ELSE g[id]
    BY <1>1 DEF Merge
  <2> QED BY <2>1, <1>1, HitsTypes
<1>3. h \in [DOMAIN h -> Scores] BY <1>2 DEF Merge
<1>4. h \in Hits BY <1>1, <1>2, <1>3, HitsTypes
<1>5. MinVectorScore \in Int BY SearchAssumption
<1>6. \A id \in DOMAIN h : h[id] \in Nat BY <1>4, HitsTypes
<1>7. NearIn(f) \subseteq NearIn(h) BY <1>1, <1>2, <1>5, <1>6, HitsTypes DEF NearIn
<1>8. NearIn(g) \subseteq NearIn(h) BY <1>1, <1>2, <1>5, <1>6, HitsTypes DEF NearIn
<1> QED BY <1>1, <1>4, <1>7, <1>8

\* A row all terms match comes before every row they do not all match, so that it is
\* only left out when more than enough such rows come before it.
LEMMA FtsFinds ==
  ASSUME SearchTypeOK, search.pc # "idle", NEW q \in Queries, NEW hits \in FtsSearch(q)
  PROVE  /\ hits \in Hits
         /\ \A id \in DOMAIN hits : stored[id].shelf \in asked.shelves
         /\ \A id \in Entries : Written(id) /\ ByTerms(q, id) =>
                id \in DOMAIN hits \/ Enough(DOMAIN hits)
<1> DEFINE n == asked.k * OverfetchFactor
           M == FtsMatches(q)
<1>1. PICK top \in SUBSET M :
        /\ hits = [id \in FtsKept(q, top) |-> Rank[q][stored[id].text]]
        /\ Cardinality(top) = IF Cardinality(M) < n THEN Cardinality(M) ELSE n
        /\ \A a \in top, b \in M \ top : ~FtsPrefers(q, b, a)
  BY DEF FtsSearch, Best
<1>2. M \subseteq Entries /\ FtsKept(q, top) \subseteq top BY DEF FtsMatches, FtsKept
<1>3. \A id \in Entries : stored[id].text \in Texts BY DEF SearchTypeOK
<1>4. hits \in Hits
  <2>1. hits \in [FtsKept(q, top) -> Scores] BY <1>1, <1>2, <1>3, HitsTypes
  <2> QED BY <2>1, <1>2, HitsTypes
<1>5. DOMAIN hits = FtsKept(q, top) BY <1>1
<1>6. \A id \in DOMAIN hits : stored[id].shelf \in asked.shelves
  BY <1>1, <1>2, <1>5 DEF FtsMatches, InScope
<1>7. IsFiniteSet(M) /\ IsFiniteSet(top) /\ Cardinality(M) \in Nat /\ n \in Nat
  BY <1>2, SearchAssumption, FS_Subset, FS_CardinalityType, RunningTypes
<1>8. ASSUME NEW id \in Entries, Written(id), ByTerms(q, id), id \notin DOMAIN hits
      PROVE  Enough(DOMAIN hits)
  <2>1. id \in M
    <3>1. SomeTerm(q, id) BY <1>8, <1>3, SearchAssumption DEF ByTerms, AllTerms, SomeTerm
    <3> QED BY <1>8, <3>1 DEF FtsMatches, ByTerms
  <2>2. CASE AllTerms(q, id)
    <3>1. id \notin top BY <1>5, <1>8, <2>2 DEF FtsKept
    <3>2. \A a \in top : AllTerms(q, a) BY <1>1, <2>1, <2>2, <3>1 DEF FtsPrefers
    <3>3. FtsKept(q, top) = top BY <3>2 DEF FtsKept
    <3>4. Cardinality(top) = n
      BY <1>1, <1>7, <2>1, <3>1, FS_Subset
    <3> QED BY <3>3, <3>4, <1>5, <1>7 DEF Enough
  <2>3. CASE ~AllTerms(q, id)
    <3>1. \A a \in top : ~AllTerms(q, a) BY <1>8, <2>3, <1>1, <1>2 DEF ByTerms, FtsMatches
    <3>2. FtsKept(q, top) = top BY <3>1 DEF FtsKept
    <3>3. id \notin top BY <3>2, <1>5, <1>8
    <3>4. Cardinality(top) = n
      BY <1>1, <1>7, <2>1, <3>3, FS_Subset
    <3> QED BY <3>2, <3>4, <1>5, <1>7 DEF Enough
  <2> QED BY <2>2, <2>3
<1> QED BY <1>4, <1>6, <1>8

\* A vector that is near enough is only left out for others at least as near.
LEMMA ColdFinds ==
  ASSUME SearchTypeOK, search.pc # "idle", NEW q \in Queries, NEW s \in Shelves,
         NEW missed \in SUBSET Entries, NEW hits \in ColdSearch(q, s, missed)
  PROVE  /\ hits \in Hits
         /\ \A id \in DOMAIN hits : vectors[id][s] # NoVector
         /\ \A id \in Entries \ missed : ByVector(q, id, s) => id \in NearIn(hits) \/ Enough(NearIn(hits))
<1> DEFINE n == asked.k * OverfetchFactor
           M == Stored(s) \ missed
<1>1. PICK top \in SUBSET M :
        /\ hits = [id \in top |-> Cosine[q][vectors[id][s]]]
        /\ Cardinality(top) = IF Cardinality(M) < n THEN Cardinality(M) ELSE n
        /\ \A a \in top, b \in M \ top : ~(Cosine[q][vectors[b][s]] > Cosine[q][vectors[a][s]])
  BY DEF ColdSearch, Nearest, Best
<1>2. M \subseteq Entries /\ \A id \in M : vectors[id][s] # NoVector /\ vectors[id][s] \in Texts
  BY DEF SearchTypeOK, Stored
<1>3. hits \in Hits
  <2>1. hits \in [top -> Scores] BY <1>1, <1>2, HitsTypes
  <2>2. top \in SUBSET Entries BY <1>2
  <2> QED BY <2>1, <2>2, HitsTypes
<1>4. DOMAIN hits = top /\ \A id \in top : hits[id] = Cosine[q][vectors[id][s]] BY <1>1
<1>5. IsFiniteSet(M) /\ IsFiniteSet(top) /\ Cardinality(M) \in Nat /\ n \in Nat
  <2>1. M \in SUBSET Entries BY <1>2
  <2> QED BY <2>1, SearchAssumption, FS_Subset, FS_CardinalityType, RunningTypes
<1>6. ASSUME NEW id \in Entries \ missed, ByVector(q, id, s), id \notin NearIn(hits)
      PROVE  Enough(NearIn(hits))
  <2>1. id \in M /\ Cosine[q][vectors[id][s]] >= MinVectorScore BY <1>6 DEF ByVector, Stored
  <2>2. id \notin top BY <1>4, <1>6, <2>1 DEF NearIn
  <2>3. \A a \in top : Cosine[q][vectors[a][s]] >= MinVectorScore
    <3> TAKE a \in top
    <3>1. ~(Cosine[q][vectors[id][s]] > Cosine[q][vectors[a][s]]) BY <1>1, <2>1, <2>2
    <3>2. /\ Cosine[q][vectors[id][s]] \in Nat /\ Cosine[q][vectors[a][s]] \in Nat
          /\ MinVectorScore \in Int
      BY <1>2, <2>1, HitsTypes, SearchAssumption
    <3> QED BY <3>1, <3>2, <2>1
  <2>4. NearIn(hits) = top BY <2>3, <1>4 DEF NearIn
  <2>5. Cardinality(top) = n BY <1>1, <1>5, <2>1, <2>2, FS_Subset
  <2> QED BY <2>4, <2>5, <1>5 DEF Enough
<1> QED BY <1>2, <1>3, <1>4, <1>6

LEMMA SearchInitHolds == SearchInit => SearchInv
<1> SUFFICES ASSUME SearchInit PROVE SearchInv OBVIOUS
<1>1. SearchTypeOK
  <2>1. PICK hidden \in SUBSET Entries, unindexed \in SUBSET Entries :
          /\ stored = [id \in Entries |-> [text |-> StartText[id], shelf |-> StartShelf[id],
                                         st |-> IF id \in hidden THEN "superseded" ELSE "active"]]
          /\ vectors = [id \in Entries |-> [s \in Shelves |->
                  IF s = StartShelf[id] /\ id \notin unindexed THEN StartText[id] ELSE NoVector]]
          /\ pending = unindexed
    BY DEF SearchInit
  <2>2. stored \in [Entries -> [text : Texts, shelf : Shelves, st : {"active", "superseded", "gone"}]]
    BY <2>1, SearchAssumption
  <2>3. vectors \in [Entries -> [Shelves -> Texts \cup {NoVector}]] BY <2>1, SearchAssumption
  <2> QED BY <2>1, <2>2, <2>3 DEF SearchInit, SearchTypeOK
<1>2. search.pc = "idle" BY DEF SearchInit, NoSearch
<1> QED BY <1>1, <1>2 DEF SearchInv, TiersInOrder, HitsAsked, HitsComplete, NoNeedlessRestatement, Searching

\* The store is changed by others only: what the search has read stays as it is, the entry
\* is noted, and of the others nothing has changed.
LEMMA OthersWrite ==
  ASSUME SearchInv, NEW id \in Entries, Noted(id),
         stored' \in [Entries -> [text : Texts, shelf : Shelves, st : {"active", "superseded", "gone"}]],
         vectors' \in [Entries -> [Shelves -> Texts \cup {NoVector}]],
         \A other \in Entries : other # id => stored'[other] = stored[other] /\ vectors'[other] = vectors[other],
         pending' \subseteq Entries, cold' \subseteq Entries, edits' \in Nat, failures' \in Nat
  PROVE  SearchInv'
<1>1. CASE search.pc \in {"idle", "done"}
  <2>1. search' = search BY <1>1 DEF Noted
  <2>2. SearchTypeOK' BY <2>1 DEF SearchInv, SearchTypeOK
  <2>3. NoNeedlessRestatement' BY <2>1 DEF SearchInv, NoNeedlessRestatement, asked
  <2> QED BY <1>1, <2>1, <2>2, <2>3 DEF SearchInv, TiersInOrder, HitsAsked, HitsComplete, Searching
<1>2. CASE search.pc \notin {"idle", "done"}
  <2>1. search' = [search EXCEPT !.touched = search.touched \cup {id}] BY <1>2 DEF Noted
  <2>2. SearchTypeOK /\ search.pc # "idle" BY <1>2 DEF SearchInv
  <2>3. /\ search'.pc = search.pc /\ search'.asked = search.asked /\ search'.degraded = search.degraded
        /\ search'.toRead = search.toRead /\ search'.toScan = search.toScan
        /\ search'.kw = search.kw /\ search'.vec = search.vec
        /\ search'.touched = search.touched \cup {id} /\ search'.overlooked = search.overlooked
        /\ search' \in [pc : {"keyword", "vector", "load", "done"}, asked : Requests, degraded : BOOLEAN,
                        toRead : SUBSET Queries, toScan : SUBSET (Queries \X Shelves),
                        kw : Hits, vec : Hits,
                        touched : SUBSET Entries, overlooked : SUBSET Entries,
                        answer : Seq(Answer), left : SUBSET Answer]
    BY <2>1, <2>2, RunningTypes
  <2>4. SearchTypeOK' BY <2>3 DEF SearchTypeOK
  <2>5. TiersInOrder' BY <2>3 DEF SearchInv, TiersInOrder, Searching, asked
  <2>6. DOMAIN search.kw \subseteq Entries /\ DOMAIN search.vec \subseteq Entries
    BY <2>2, RunningTypes, HitsTypes
  <2>7. HitsAsked'
    <3>1. HitsAsked /\ Searching BY <2>3, <1>2, <2>2, RunningTypes DEF SearchInv, Searching
    <3>2. \A i \in DOMAIN search.kw : stored'[i].shelf \in asked.shelves \/ i \in search'.touched
      BY <2>3, <2>6, <3>1 DEF HitsAsked
    <3>3. \A i \in DOMAIN search.vec : i \notin search'.touched =>
            i # id /\ i \notin search.touched /\ stored'[i] = stored[i] /\ vectors'[i] = vectors[i]
      BY <2>3, <2>6
    <3>4. \A i \in DOMAIN search.vec :
            Untouched(i)' => \E s \in asked.shelves : vectors'[i][s] # NoVector
      BY <2>3, <3>1, <3>3 DEF HitsAsked, Untouched, Visible
    <3> QED BY <2>3, <3>2, <3>4 DEF HitsAsked, asked
  <2>8. \A q \in asked.queries, other \in Entries :
          Untouched(other)' /\ ByTerms(q, other)' => Untouched(other) /\ ByTerms(q, other)
    BY <2>3 DEF Untouched, Visible, ByTerms, InScope, AllTerms, SomeTerm, asked
  <2>9. \A q \in asked.queries, s \in asked.shelves, other \in Entries :
          Untouched(other)' /\ ByVector(q, other, s)' => Untouched(other) /\ ByVector(q, other, s)
    BY <2>3 DEF Untouched, Visible, ByVector
  <2>10. /\ Near' = Near /\ Enough(Near)' = Enough(Near) /\ asked' = asked /\ Searching' = Searching
         /\ Enough(DOMAIN search.kw)' = Enough(DOMAIN search.kw)
    BY <2>3 DEF Near, Enough, asked, Searching
  <2>11. HitsComplete' BY <2>3, <2>8, <2>9, <2>10 DEF SearchInv, HitsComplete
  <2>12. NoNeedlessRestatement' BY <2>3, <1>2 DEF NoNeedlessRestatement
  <2> QED BY <2>4, <2>5, <2>7, <2>11, <2>12 DEF SearchInv
<1> QED BY <1>1, <1>2

LEMMA OtherSteps ==
  ASSUME SearchInv, NEW id \in Entries,
         \/ Supersede(id) \/ ForgetEntry(id) \/ DropVector(id) \/ Reindex(id) \/ MarkCold(id)
         \/ \E text \in Texts : Rewrite(id, text)
         \/ \E s \in Shelves : Move(id, s)
  PROVE  SearchInv'
<1>t. SearchTypeOK BY DEF SearchInv
<1> DEFINE Rows == [text : Texts, shelf : Shelves, st : {"active", "superseded", "gone"}]
<1>r. stored \in [Entries -> Rows] /\ stored[id] \in Rows BY <1>t DEF SearchTypeOK
<1>w. ASSUME NEW r \in Rows, Write(id, r), vectors' = vectors,
             pending' \subseteq Entries, cold' \subseteq Entries
      PROVE  SearchInv'
  <2>1. Noted(id) /\ stored' = [stored EXCEPT ![id] = r] /\ edits' = edits + 1 /\ failures' = failures
    BY <1>w DEF Write
  <2>2. stored' \in [Entries -> Rows] /\ \A other \in Entries : other # id => stored'[other] = stored[other]
    BY <2>1, <1>r
  <2>3. edits' \in Nat /\ failures' \in Nat /\ vectors' \in [Entries -> [Shelves -> Texts \cup {NoVector}]]
    BY <2>1, <1>w, <1>t DEF SearchTypeOK
  <2> QED BY <2>1, <2>2, <2>3, <1>w, OthersWrite
<1>1. ASSUME Supersede(id) PROVE SearchInv'
  <2>1. [stored[id] EXCEPT !.st = "superseded"] \in Rows BY <1>r
  <2> QED BY <1>1, <2>1, <1>w, <1>t DEF Supersede, SearchTypeOK
<1>2. ASSUME ForgetEntry(id) PROVE SearchInv'
  <2>1. [stored[id] EXCEPT !.st = "gone"] \in Rows BY <1>r
  <2> QED BY <1>2, <2>1, <1>w, <1>t DEF ForgetEntry, SearchTypeOK
<1>3. ASSUME NEW text \in Texts, Rewrite(id, text) PROVE SearchInv'
  <2>1. [stored[id] EXCEPT !.text = text] \in Rows BY <1>r
  <2> QED BY <1>3, <2>1, <1>w, <1>t DEF Rewrite, SearchTypeOK
<1>4. ASSUME NEW s \in Shelves, Move(id, s) PROVE SearchInv'
  <2>1. [stored[id] EXCEPT !.shelf = s] \in Rows BY <1>r
  <2> QED BY <1>4, <2>1, <1>w, <1>t DEF Move, SearchTypeOK
<1>v. ASSUME NEW v \in Texts \cup {NoVector}
      PROVE  LET w == [vectors EXCEPT ![id][stored[id].shelf] = v]
             IN  /\ w \in [Entries -> [Shelves -> Texts \cup {NoVector}]]
                 /\ \A other \in Entries : other # id => w[other] = vectors[other]
  BY <1>t DEF SearchTypeOK
<1>5. ASSUME Reindex(id) PROVE SearchInv'
  <2>1. stored[id].text \in Texts \cup {NoVector} BY <1>r
  <2>2. /\ vectors' \in [Entries -> [Shelves -> Texts \cup {NoVector}]]
        /\ \A other \in Entries : other # id => vectors'[other] = vectors[other]
    BY <1>5, <1>v, <2>1 DEF Reindex
  <2>3. /\ Noted(id) /\ stored' = stored /\ pending' \subseteq Entries /\ cold' \subseteq Entries
        /\ edits' \in Nat /\ failures' \in Nat
    BY <1>5, <1>t DEF Reindex, SearchTypeOK
  <2> QED BY <2>2, <2>3, <1>r, OthersWrite
<1>6. ASSUME DropVector(id) PROVE SearchInv'
  <2>1. /\ vectors' \in [Entries -> [Shelves -> Texts \cup {NoVector}]]
        /\ \A other \in Entries : other # id => vectors'[other] = vectors[other]
    BY <1>6, <1>v DEF DropVector
  <2>2. UNCHANGED <<stored, pending, cold, search, edits, failures>> /\ ~Written(id) BY <1>6 DEF DropVector
  <2>3. SearchTypeOK' BY <2>1, <2>2, <1>t DEF SearchTypeOK
  <2>4. TiersInOrder' BY <2>2 DEF SearchInv, TiersInOrder, Searching, asked
  <2>5. ~Visible(id) BY <2>2 DEF Visible, Written
  <2>6. HitsAsked'
    <3>1. search.pc # "idle" => DOMAIN search.vec \subseteq Entries BY <1>t, RunningTypes, HitsTypes
    <3> QED BY <2>1, <2>2, <2>5, <3>1 DEF SearchInv, HitsAsked, Searching, Untouched, Visible, asked
  <2>7. /\ Near' = Near /\ Enough(Near)' = Enough(Near) /\ asked' = asked /\ Searching' = Searching
        /\ Enough(DOMAIN search.kw)' = Enough(DOMAIN search.kw)
    BY <2>2 DEF Near, Enough, asked, Searching
  <2>8. \A q \in Queries, other \in Entries :
          /\ Untouched(other)' = Untouched(other)
          /\ ByTerms(q, other)' = ByTerms(q, other)
    BY <2>2 DEF Untouched, Visible, ByTerms, Written, InScope, AllTerms, SomeTerm, asked
  <2>9. \A q \in Queries, s \in Shelves, other \in Entries :
          Untouched(other)' /\ ByVector(q, other, s)' => Untouched(other) /\ ByVector(q, other, s)
    BY <2>1, <2>2, <2>5 DEF Untouched, Visible, ByVector
  <2>10. HitsComplete'
    <3>1. Searching => asked.queries \subseteq Queries /\ asked.shelves \subseteq Shelves
      BY <1>t, RunningTypes DEF Searching
    <3> QED BY <2>2, <2>7, <2>8, <2>9, <3>1 DEF SearchInv, HitsComplete
  <2>11. NoNeedlessRestatement' BY <2>2 DEF SearchInv, NoNeedlessRestatement, asked
  <2> QED BY <2>3, <2>4, <2>6, <2>10, <2>11 DEF SearchInv
<1>7. ASSUME MarkCold(id) PROVE SearchInv'
  <2>1. UNCHANGED <<stored, vectors, pending, search, failures>> /\ edits' = edits + 1 /\ cold' = cold \cup {id}
    BY <1>7 DEF MarkCold
  <2>2. SearchTypeOK' BY <2>1, <1>t DEF SearchTypeOK
  <2> QED BY <2>1, <2>2 DEF SearchInv, TiersInOrder, HitsAsked, HitsComplete, NoNeedlessRestatement,
        Searching, Untouched, Visible, ByTerms, ByVector, Written, InScope, AllTerms, SomeTerm, asked,
        Near, Enough
<1> QED BY <1>1, <1>2, <1>3, <1>4, <1>5, <1>6, <1>7

\* The search's own steps up to the entries.
LEMMA BeginHolds == ASSUME SearchInv, Begin PROVE SearchInv'
<1>1. PICK request \in Requests, tier \in {"asked", "absent", "dead"} :
        search' =
          [pc |-> "keyword", asked |-> request, degraded |-> tier = "dead",
           toRead |-> request.queries,
           toScan |-> IF tier = "asked" THEN request.queries \X request.shelves ELSE {},
           kw |-> [id \in {} |-> 0], vec |-> [id \in {} |-> 0], touched |-> {},
           overlooked |-> IF tier = "asked" THEN {} ELSE Entries,
           answer |-> <<>>, left |-> {}]
  BY DEF Begin
<1>2. UNCHANGED store /\ edits' = edits /\ failures' \in Nat
  BY DEF Begin, SearchInv, SearchTypeOK
<1>3. request.queries \subseteq Queries /\ request.shelves \subseteq Shelves BY SearchAssumption
<1>4. /\ search'.pc = "keyword" /\ search'.asked = request /\ search'.degraded = (tier = "dead")
      /\ search'.toRead = request.queries
      /\ search'.toScan = (IF tier = "asked" THEN request.queries \X request.shelves ELSE {})
      /\ search'.overlooked = (IF tier = "asked" THEN {} ELSE Entries)
      /\ DOMAIN search'.kw = {} /\ DOMAIN search'.vec = {}
  BY <1>1
<1>5. SearchTypeOK'
  <2>1. [id \in {} |-> 0] \in Hits BY HitsTypes
  <2>2. <<>> \in Seq(Answer) OBVIOUS
  <2>3. search' \in [pc : {"keyword", "vector", "load", "done"}, asked : Requests, degraded : BOOLEAN,
                     toRead : SUBSET Queries, toScan : SUBSET (Queries \X Shelves),
                     kw : Hits, vec : Hits,
                     touched : SUBSET Entries, overlooked : SUBSET Entries,
                     answer : Seq(Answer), left : SUBSET Answer]
    BY <1>1, <1>3, <2>1, <2>2
  <2> QED BY <1>2, <2>3 DEF SearchInv, SearchTypeOK, store
<1>6. TiersInOrder' BY <1>4 DEF TiersInOrder, asked
<1>7. HitsAsked' BY <1>4 DEF HitsAsked
<1>8. HitsComplete' BY <1>4 DEF HitsComplete, ByVector, asked
<1>9. NoNeedlessRestatement' BY <1>4 DEF NoNeedlessRestatement
<1> QED BY <1>5, <1>6, <1>7, <1>8, <1>9 DEF SearchInv

LEMMA KeywordHolds == ASSUME SearchInv, Keyword PROVE SearchInv'
<1> DEFINE q == CHOOSE x \in search.toRead : TRUE
<1>1. /\ search.pc = "keyword" /\ q \in search.toRead /\ UNCHANGED <<store, edits, failures>>
      /\ SearchTypeOK /\ search.pc # "idle"
  BY DEF Keyword, SearchInv
<1>2. PICK hits \in FtsSearch(q) :
        search' = [search EXCEPT !.kw = Merge(search.kw, hits), !.toRead = search.toRead \ {q}]
  BY DEF Keyword
<1> HIDE DEF q
<1>3. search.toRead \subseteq asked.queries /\ asked.queries \subseteq Queries /\ q \in Queries
  BY <1>1, RunningTypes DEF SearchInv, TiersInOrder, Searching
<1>4. /\ hits \in Hits
      /\ \A id \in DOMAIN hits : stored[id].shelf \in asked.shelves
      /\ \A id \in Entries : Written(id) /\ ByTerms(q, id) => id \in DOMAIN hits \/ Enough(DOMAIN hits)
  BY <1>1, <1>2, <1>3, FtsFinds
<1>5. search.kw \in Hits BY <1>1, RunningTypes
<1>6. /\ Merge(search.kw, hits) \in Hits
      /\ DOMAIN Merge(search.kw, hits) = DOMAIN search.kw \cup DOMAIN hits
  BY <1>4, <1>5, Merges
<1>7. /\ search'.pc = "keyword" /\ search'.asked = search.asked /\ search'.degraded = search.degraded
      /\ search'.toRead = search.toRead \ {q} /\ search'.toScan = search.toScan
      /\ search'.kw = Merge(search.kw, hits) /\ search'.vec = search.vec
      /\ search'.touched = search.touched /\ search'.overlooked = search.overlooked
      /\ search' \in [pc : {"keyword", "vector", "load", "done"}, asked : Requests, degraded : BOOLEAN,
                      toRead : SUBSET Queries, toScan : SUBSET (Queries \X Shelves),
                      kw : Hits, vec : Hits,
                      touched : SUBSET Entries, overlooked : SUBSET Entries,
                      answer : Seq(Answer), left : SUBSET Answer]
  <2> DEFINE merged == Merge(search.kw, hits)
  <2>1. merged \in Hits BY <1>6
  <2>2. search' = [search EXCEPT !.kw = merged, !.toRead = search.toRead \ {q}] BY <1>2
  <2> HIDE DEF merged
  <2>3. /\ search'.pc = "keyword" /\ search'.asked = search.asked /\ search'.degraded = search.degraded
        /\ search'.toRead = search.toRead \ {q} /\ search'.toScan = search.toScan
        /\ search'.kw = merged /\ search'.vec = search.vec
        /\ search'.touched = search.touched /\ search'.overlooked = search.overlooked
        /\ search' \in [pc : {"keyword", "vector", "load", "done"}, asked : Requests, degraded : BOOLEAN,
                        toRead : SUBSET Queries, toScan : SUBSET (Queries \X Shelves),
                        kw : Hits, vec : Hits,
                        touched : SUBSET Entries, overlooked : SUBSET Entries,
                        answer : Seq(Answer), left : SUBSET Answer]
    BY <2>1, <2>2, <1>1, RunningTypes
  <2> QED BY <2>3 DEF merged
<1>8. stored' = stored /\ vectors' = vectors BY <1>1 DEF store
<1>9. SearchTypeOK' BY <1>1, <1>7 DEF SearchTypeOK, store
<1>10. TiersInOrder' BY <1>1, <1>7 DEF SearchInv, TiersInOrder, Searching, asked
<1>11. HitsAsked'
  BY <1>1, <1>4, <1>6, <1>7, <1>8 DEF SearchInv, HitsAsked, Searching, Untouched, Visible, asked
<1>12. HitsComplete'
  <2> SUFFICES ASSUME ~search.degraded PROVE HitsComplete' BY <1>7 DEF HitsComplete
  <2>1. ASSUME NEW r \in asked.queries \ (search.toRead \ {q}), NEW id \in Entries,
               Untouched(id), ByTerms(r, id)
        PROVE  id \in DOMAIN search'.kw \/ Enough(DOMAIN search'.kw)
    <3>1. DOMAIN search'.kw \in SUBSET Entries BY <1>6, <1>7, HitsTypes
    <3>2. DOMAIN search.kw \subseteq DOMAIN search'.kw /\ DOMAIN hits \subseteq DOMAIN search'.kw
      BY <1>6, <1>7
    <3>3. asked.k \in Nat BY <1>1, RunningTypes
    <3>4. CASE r = q
      <4>1. Written(id) BY <2>1 DEF Untouched, Visible, Written
      <4>2. id \in DOMAIN hits \/ Enough(DOMAIN hits) BY <1>4, <2>1, <3>4, <4>1
      <4> QED BY <4>2, <3>1, <3>2, <3>3, EnoughGrows
    <3>5. CASE r # q
      <4>1. id \in DOMAIN search.kw \/ Enough(DOMAIN search.kw)
        BY <1>1, <2>1, <3>5 DEF SearchInv, HitsComplete, Searching
      <4> QED BY <4>1, <3>1, <3>2, <3>3, EnoughGrows
    <3> QED BY <3>4, <3>5
  <2>2. \A id \in Entries : Untouched(id)' = Untouched(id)
    BY <1>7, <1>8 DEF Untouched, Visible
  <2>3. \A r \in asked.queries, id \in Entries : ByTerms(r, id)' = ByTerms(r, id)
    BY <1>7, <1>8 DEF ByTerms, Written, InScope, AllTerms, SomeTerm, asked
  <2>4. \A r \in asked.queries, s \in asked.shelves, id \in Entries : ByVector(r, id, s)' = ByVector(r, id, s)
    BY <1>7, <1>8 DEF ByVector
  <2>5. Near' = Near /\ Enough(Near)' = Enough(Near) /\ asked' = asked
    BY <1>7 DEF Near, Enough, asked
  <2>6. Enough(DOMAIN search.kw)' = Enough(DOMAIN search'.kw) BY <2>5 DEF Enough
  <2>7. \A r \in asked.queries \ search'.toRead, id \in Entries :
          Untouched(id) /\ ByTerms(r, id) => id \in DOMAIN search'.kw \/ Enough(DOMAIN search'.kw)
    BY <2>1, <1>7
  <2>8. \A r \in asked.queries, s \in asked.shelves, id \in Entries :
          <<r, s>> \notin search'.toScan /\ Untouched(id) /\ ByVector(r, id, s)
          => id \in Near \/ Enough(Near)
    BY <1>1, <1>7 DEF SearchInv, HitsComplete, Searching
  <2> QED BY <2>2, <2>3, <2>4, <2>5, <2>6, <2>7, <2>8 DEF HitsComplete
<1>13. NoNeedlessRestatement' BY <1>7 DEF NoNeedlessRestatement
<1> QED BY <1>9, <1>10, <1>11, <1>12, <1>13 DEF SearchInv

LEMMA VectorHolds == ASSUME SearchInv, Vector PROVE SearchInv'
<1> DEFINE scan == CHOOSE x \in search.toScan : TRUE
<1>1. /\ search.pc = "vector" /\ scan \in search.toScan /\ UNCHANGED <<store, edits>>
      /\ failures' \in Nat /\ SearchTypeOK /\ search.pc # "idle"
  BY DEF Vector, SearchInv, SearchTypeOK
<1>v. PICK missed \in SUBSET Stored(scan[2]) : \E hits \in ColdSearch(scan[1], scan[2], missed) :
        search' = [search EXCEPT !.vec = Merge(search.vec, hits), !.toScan = search.toScan \ {scan},
                                 !.overlooked = search.overlooked \cup missed]
  BY DEF Vector
<1>2. PICK hits \in ColdSearch(scan[1], scan[2], missed) :
        search' = [search EXCEPT !.vec = Merge(search.vec, hits), !.toScan = search.toScan \ {scan},
                                 !.overlooked = search.overlooked \cup missed]
  BY <1>v
<1>s. missed \in SUBSET Entries BY DEF Stored
<1> HIDE DEF scan
<1>3. /\ scan \in asked.queries \X asked.shelves /\ asked.queries \subseteq Queries
      /\ asked.shelves \subseteq Shelves /\ asked.k \in Nat
  BY <1>1, RunningTypes DEF SearchInv, TiersInOrder, Searching
<1>q. PICK q \in asked.queries, s \in asked.shelves : scan = <<q, s>> BY <1>3
<1>4. /\ hits \in Hits
      /\ \A id \in DOMAIN hits : vectors[id][s] # NoVector
      /\ \A id \in Entries \ missed : ByVector(q, id, s) => id \in NearIn(hits) \/ Enough(NearIn(hits))
  <2>1. hits \in ColdSearch(q, s, missed) BY <1>2, <1>q
  <2>2. q \in Queries /\ s \in Shelves BY <1>3, <1>q
  <2> QED BY <2>1, <2>2, <1>1, <1>s, ColdFinds
<1>5. search.vec \in Hits BY <1>1, RunningTypes
<1> DEFINE merged == Merge(search.vec, hits)
<1>6. /\ merged \in Hits /\ DOMAIN merged = DOMAIN search.vec \cup DOMAIN hits
      /\ Near \subseteq NearIn(merged) /\ NearIn(hits) \subseteq NearIn(merged)
  BY <1>4, <1>5, Merges DEF Near, NearIn
<1>m. search' = [search EXCEPT !.vec = merged, !.toScan = search.toScan \ {scan},
                               !.overlooked = search.overlooked \cup missed]
  BY <1>2
<1> HIDE DEF merged
<1>7. /\ search'.pc = "vector" /\ search'.asked = search.asked /\ search'.degraded = search.degraded
      /\ search'.toRead = search.toRead /\ search'.toScan = search.toScan \ {scan}
      /\ search'.kw = search.kw /\ search'.vec = merged
      /\ search'.touched = search.touched /\ search'.overlooked = search.overlooked \cup missed
      /\ search' \in [pc : {"keyword", "vector", "load", "done"}, asked : Requests, degraded : BOOLEAN,
                      toRead : SUBSET Queries, toScan : SUBSET (Queries \X Shelves),
                      kw : Hits, vec : Hits,
                      touched : SUBSET Entries, overlooked : SUBSET Entries,
                      answer : Seq(Answer), left : SUBSET Answer]
  BY <1>m, <1>6, <1>1, <1>s, RunningTypes
<1>8. stored' = stored /\ vectors' = vectors BY <1>1 DEF store
<1>9. SearchTypeOK' BY <1>1, <1>7 DEF SearchTypeOK, store
<1>10. TiersInOrder' BY <1>1, <1>7 DEF SearchInv, TiersInOrder, Searching, asked
<1>11. HitsAsked'
  BY <1>1, <1>4, <1>6, <1>7, <1>8 DEF SearchInv, HitsAsked, Searching, Untouched, Visible, asked
<1>12. HitsComplete'
  <2> SUFFICES ASSUME ~search.degraded PROVE HitsComplete' BY <1>7 DEF HitsComplete
  <2>n. Near' = NearIn(merged) BY <1>7 DEF Near, NearIn
  <2>1. ASSUME NEW r \in asked.queries, NEW t \in asked.shelves, NEW id \in Entries,
               <<r, t>> \notin search.toScan \ {scan}, Untouched(id), ByVector(r, id, t),
               id \notin missed
        PROVE  id \in Near' \/ Enough(Near')
    <3>1. NearIn(merged) \in SUBSET Entries BY <1>6, HitsTypes DEF NearIn
    <3>2. CASE <<r, t>> = scan
      <4>1. id \in NearIn(hits) \/ Enough(NearIn(hits)) BY <1>4, <1>q, <2>1, <3>2
      <4> QED BY <4>1, <3>1, <1>3, <1>6, <2>n, EnoughGrows
    <3>3. CASE <<r, t>> # scan
      <4>1. id \in Near \/ Enough(Near)
        BY <1>1, <2>1, <3>3 DEF SearchInv, HitsComplete, Searching
      <4> QED BY <4>1, <3>1, <1>3, <1>6, <2>n, EnoughGrows
    <3> QED BY <3>2, <3>3
  <2>2. \A id \in Entries : Untouched(id)' = Untouched(id)
    BY <1>7, <1>8 DEF Untouched, Visible
  <2>3. \A r \in asked.queries, id \in Entries : ByTerms(r, id)' = ByTerms(r, id)
    BY <1>7, <1>8 DEF ByTerms, Written, InScope, AllTerms, SomeTerm, asked
  <2>4. \A r \in asked.queries, t \in asked.shelves, id \in Entries :
          ByVector(r, id, t)' => ByVector(r, id, t) /\ id \notin missed
    BY <1>7, <1>8 DEF ByVector
  <2>5. asked' = asked /\ Enough(DOMAIN search.kw)' = Enough(DOMAIN search.kw)
    BY <1>7 DEF Enough, asked
  <2>6. Enough(Near)' = Enough(Near') BY <2>5 DEF Enough
  <2>7. \A r \in asked.queries \ search'.toRead, id \in Entries :
          Untouched(id) /\ ByTerms(r, id) => id \in DOMAIN search'.kw \/ Enough(DOMAIN search.kw)
    BY <1>1, <1>7 DEF SearchInv, HitsComplete, Searching
  <2>8. \A r \in asked.queries, t \in asked.shelves, id \in Entries :
          <<r, t>> \notin search'.toScan /\ Untouched(id) /\ ByVector(r, id, t) /\ id \notin missed
          => id \in Near' \/ Enough(Near')
    BY <2>1, <1>7
  <2> QED BY <2>2, <2>3, <2>4, <2>5, <2>6, <2>7, <2>8 DEF HitsComplete
<1>13. NoNeedlessRestatement' BY <1>7 DEF NoNeedlessRestatement
<1> QED BY <1>9, <1>10, <1>11, <1>12, <1>13 DEF SearchInv

\* A tier that failed says so, and answers for nothing.
LEMMA TierEndsHold ==
  ASSUME SearchInv, KeywordFails \/ KeywordDone \/ VectorFails \/ VectorDone
  PROVE  SearchInv'
<1> DEFINE Full == [pc : {"keyword", "vector", "load", "done"}, asked : Requests, degraded : BOOLEAN,
                    toRead : SUBSET Queries, toScan : SUBSET (Queries \X Shelves),
                    kw : Hits, vec : Hits,
                    touched : SUBSET Entries, overlooked : SUBSET Entries,
                    answer : Seq(Answer), left : SUBSET Answer]
<1>1. /\ SearchTypeOK /\ search.pc \in {"keyword", "vector"} /\ UNCHANGED <<store, edits>>
      /\ failures' \in Nat
  BY DEF KeywordFails, KeywordDone, VectorFails, VectorDone, SearchInv, SearchTypeOK
<1>2. search \in Full BY <1>1, RunningTypes
<1>3. /\ search' \in Full /\ search'.pc \in {"keyword", "vector", "load"} /\ search'.asked = search.asked
      /\ search'.touched = search.touched /\ search'.overlooked = search.overlooked
          /\ search'.toRead \subseteq search.toRead
      /\ search'.toScan \subseteq search.toScan
      /\ search'.pc # "keyword" => search'.toRead = {}
      /\ search'.pc = "load" => search'.toScan = {}
      /\ search'.kw \in {search.kw, [id \in {} |-> 0]} /\ search'.vec \in {search.vec, [id \in {} |-> 0]}
      /\ ~search'.degraded => /\ ~search.degraded /\ search'.kw = search.kw /\ search'.vec = search.vec
                              /\ search'.toRead = search.toRead /\ search'.toScan = search.toScan
  <2> DEFINE none == [id \in {} |-> 0]
  <2>0. none \in Hits BY HitsTypes
  <2>1. CASE KeywordFails
    <3>1. search' = [search EXCEPT !.kw = none, !.toRead = {}, !.degraded = TRUE] /\ search.pc = "keyword"
      BY <2>1 DEF KeywordFails
    <3> HIDE DEF none
    <3>2. search' \in Full /\ search'.pc = search.pc /\ search'.asked = search.asked
          /\ search'.touched = search.touched /\ search'.overlooked = search.overlooked
          /\ search'.toRead = {} /\ search'.toScan = search.toScan
          /\ search'.kw = none /\ search'.vec = search.vec /\ search'.degraded
      BY <3>1, <1>2, <2>0
    <3> QED BY <3>1, <3>2 DEF none
  <2>2. CASE VectorFails
    <3>1. search' = [search EXCEPT !.vec = none, !.toScan = {}, !.degraded = TRUE] /\ search.pc = "vector"
      BY <2>2 DEF VectorFails
    <3>a. search.toRead = {} BY <3>1 DEF SearchInv, TiersInOrder, Searching
    <3> HIDE DEF none
    <3>2. search' \in Full /\ search'.pc = search.pc /\ search'.asked = search.asked
          /\ search'.touched = search.touched /\ search'.overlooked = search.overlooked
          /\ search'.toRead = search.toRead /\ search'.toScan = {}
          /\ search'.kw = search.kw /\ search'.vec = none /\ search'.degraded
      BY <3>1, <1>2, <2>0
    <3> QED BY <3>1, <3>2, <3>a DEF none
  <2>3. CASE KeywordDone
    <3>1. search' = [search EXCEPT !.pc = "vector"] /\ search.pc = "keyword" /\ search.toRead = {}
      BY <2>3 DEF KeywordDone
    <3>2. search' \in Full /\ search'.pc = "vector" /\ search'.asked = search.asked
          /\ search'.touched = search.touched /\ search'.overlooked = search.overlooked
          /\ search'.toRead = search.toRead
          /\ search'.toScan = search.toScan
          /\ search'.kw = search.kw /\ search'.vec = search.vec /\ search'.degraded = search.degraded
      BY <3>1, <1>2
    <3> QED BY <3>1, <3>2
  <2>4. CASE VectorDone
    <3>1. search' = [search EXCEPT !.pc = "load"] /\ search.pc = "vector" /\ search.toScan = {}
      BY <2>4 DEF VectorDone
    <3>a. search.toRead = {} BY <3>1 DEF SearchInv, TiersInOrder, Searching
    <3>2. search' \in Full /\ search'.pc = "load" /\ search'.asked = search.asked
          /\ search'.touched = search.touched /\ search'.overlooked = search.overlooked
          /\ search'.toRead = search.toRead
          /\ search'.toScan = search.toScan
          /\ search'.kw = search.kw /\ search'.vec = search.vec /\ search'.degraded = search.degraded
      BY <3>1, <1>2
    <3> QED BY <3>1, <3>2, <3>a
  <2> QED BY <2>1, <2>2, <2>3, <2>4
<1>4. stored' = stored /\ vectors' = vectors BY <1>1 DEF store
<1>5. SearchTypeOK' BY <1>1, <1>3 DEF SearchTypeOK, store
<1>6. TiersInOrder' BY <1>1, <1>3 DEF SearchInv, TiersInOrder, Searching, asked
<1>7. HitsAsked'
  BY <1>1, <1>3, <1>4 DEF SearchInv, HitsAsked, Searching, Untouched, Visible, asked
<1>8. HitsComplete'
  <2> SUFFICES ASSUME ~search'.degraded PROVE HitsComplete' BY DEF HitsComplete
  <2>1. /\ ~search.degraded /\ search'.kw = search.kw /\ search'.vec = search.vec
        /\ search'.toRead = search.toRead /\ search'.toScan = search.toScan
    BY <1>3
  <2>2. HitsComplete BY DEF SearchInv
  <2> QED BY <1>1, <1>3, <1>4, <2>1, <2>2
    DEF HitsComplete, Searching, Untouched, Visible, ByTerms, ByVector, Written, InScope, AllTerms,
        SomeTerm, asked, Near, Enough
<1>9. NoNeedlessRestatement' BY <1>3 DEF NoNeedlessRestatement
<1> QED BY <1>5, <1>6, <1>7, <1>8, <1>9 DEF SearchInv

LEMMA SearchEndHolds == ASSUME SearchInv, LoadFails \/ Promote PROVE SearchInv'
<1>1. search' = NoSearch /\ stored' = stored /\ vectors' = vectors /\ pending' = pending
      /\ cold' \subseteq Entries /\ edits' = edits /\ failures' \in Nat
  BY DEF LoadFails, Promote, SearchInv, SearchTypeOK, store
<1>2. search'.pc = "idle" BY <1>1 DEF NoSearch
<1>3. SearchTypeOK' BY <1>1 DEF SearchInv, SearchTypeOK
<1> QED BY <1>2, <1>3 DEF SearchInv, TiersInOrder, HitsAsked, HitsComplete, NoNeedlessRestatement, Searching

-----------------------------------------------------------------------------
(* What is made of the entries. *)

LEMMA ListsAreOnto ==
  ASSUME NEW S, IsFiniteSet(S), NEW o \in Lists(S)
  PROVE  /\ DOMAIN o = 1 .. Cardinality(S) /\ Cardinality(S) \in Nat
         /\ o \in [1 .. Cardinality(S) -> S]
         /\ \A i, j \in DOMAIN o : i # j => o[i] # o[j]
         /\ \A x \in S : \E i \in DOMAIN o : o[i] = x
         /\ {o[i] : i \in DOMAIN o} = S
<1>1. Cardinality(S) \in Nat BY FS_CardinalityType
<1>2. /\ o \in [1 .. Cardinality(S) -> S] /\ DOMAIN o = 1 .. Cardinality(S)
      /\ \A i, j \in DOMAIN o : i # j => o[i] # o[j]
  BY DEF Lists
<1>3. o \in Injection(1 .. Cardinality(S), S) BY <1>2 DEF Injection, IsInjective
<1>4. Cardinality(1 .. Cardinality(S)) = Cardinality(S) BY <1>1, FS_Interval
<1>5. o \in Surjection(1 .. Cardinality(S), S) BY <1>3, <1>4, FS_Injection
<1>6. \A x \in S : \E i \in DOMAIN o : o[i] = x BY <1>2, <1>5 DEF Surjection
<1> QED BY <1>1, <1>2, <1>6

\* As many items as places, where no two places hold the same.
LEMMA AsManyItems ==
  ASSUME NEW o, NEW C \in SUBSET DOMAIN o, IsFiniteSet(C),
         \A i, j \in DOMAIN o : i # j => o[i] # o[j]
  PROVE  /\ IsFiniteSet({o[i] : i \in C}) /\ Cardinality({o[i] : i \in C}) = Cardinality(C)
<1> DEFINE T == {o[i] : i \in C}
           f == [i \in C |-> o[i]]
<1>1. f \in [C -> T] OBVIOUS
<1>2. f \in Surjection(C, T) BY <1>1 DEF Surjection
<1>3. f \in Injection(C, T) BY <1>1 DEF Injection, IsInjective
<1> HIDE DEF f, T
<1>4. IsFiniteSet(T) /\ Cardinality(T) = Cardinality(C) BY <1>2, <1>3, FS_Surjection
<1> QED BY <1>4 DEF T

\* The filling takes every place that is left, unless the answer is full with it.
LEMMA FillsUp ==
  ASSUME NEW order, IsFiniteSet(DOMAIN order), asked.k \in Nat, asked.budget = 0,
         NEW P \in Picks(order), NEW F \in Fills(order, P)
  PROVE  /\ F \subseteq DOMAIN order \ P /\ IsFiniteSet(P \cup F)
         /\ F # {} => Cardinality(P) < asked.k
         /\ Cardinality(P \cup F) < asked.k => P \cup F = DOMAIN order
<1> DEFINE R == DOMAIN order \ P
           n == asked.k - Cardinality(P)
<1>1. P \subseteq DOMAIN order BY DEF Picks
<1>2. /\ F \subseteq R /\ Cardinality(F) = IF Cardinality(R) < n THEN Cardinality(R) ELSE n
  BY DEF Fills, Best
<1>3. /\ IsFiniteSet(P) /\ IsFiniteSet(R) /\ IsFiniteSet(F)
      /\ Cardinality(P) \in Nat /\ Cardinality(R) \in Nat /\ Cardinality(F) \in Nat
  BY <1>1, <1>2, FS_Subset, FS_CardinalityType
<1>4. IsFiniteSet(P \cup F) /\ Cardinality(P \cup F) = Cardinality(P) + Cardinality(F)
  <2>1. P \cap F = {} BY <1>2
  <2>2. /\ IsFiniteSet(P \cup F)
        /\ Cardinality(P \cup F) = Cardinality(P) + Cardinality(F) - Cardinality(P \cap F)
    BY <1>3, FS_Union
  <2>3. Cardinality(P \cap F) = 0 BY <2>1, FS_EmptySet
  <2> QED BY <2>2, <2>3, <1>3
<1>5. F # {} => Cardinality(F) # 0 BY <1>3, FS_EmptySet
<1>6. ASSUME Cardinality(P \cup F) < asked.k PROVE F = R
  <2>1. Cardinality(F) = Cardinality(R) BY <1>2, <1>3, <1>4, <1>6
  <2> QED BY <2>1, <1>2, <1>3, FS_Subset
<1> QED BY <1>1, <1>2, <1>3, <1>4, <1>5, <1>6

\* Load, step by step: whether reranked or not, the list holds the visible entries of the
\* cut, each once.
LEMMA LoadSelects ==
  ASSUME SearchInv, Load
  PROVE  \E cut \in Cut : \E order \in Lists({id \in cut : Shown(id)}) :
         \E P \in Picks(order) : \E F \in Fills(order, P) :
         \E answer \in Lists({order[i] : i \in P \cup F}) :
            search' = [search EXCEPT
                !.pc = "done",
                !.answer = [i \in DOMAIN answer |-> Answered(answer[i])],
                !.left = {Answered(order[i]) : i \in DOMAIN order \ (P \cup F)}]
<1>a. PICK cut \in Cut : \E visible \in ApplyVisibility(cut) :
      \E ranked \in {visible} \cup Rerank(visible) :
      \E chosen \in SelectResults(ranked.order) :
      \E answer \in Orders({ranked.order[i] : i \in chosen}, ranked.score) :
        search' = [search EXCEPT
            !.pc = "done",
            !.answer = [i \in DOMAIN answer |-> Answered(answer[i])],
            !.left = {Answered(ranked.order[i]) : i \in DOMAIN ranked.order \ chosen}]
  BY DEF Load
<1>1. PICK visible \in ApplyVisibility(cut) :
      \E ranked \in {visible} \cup Rerank(visible) :
      \E chosen \in SelectResults(ranked.order) :
      \E answer \in Orders({ranked.order[i] : i \in chosen}, ranked.score) :
        search' = [search EXCEPT
            !.pc = "done",
            !.answer = [i \in DOMAIN answer |-> Answered(answer[i])],
            !.left = {Answered(ranked.order[i]) : i \in DOMAIN ranked.order \ chosen}]
  BY <1>a
<1>b. PICK ranked \in {visible} \cup Rerank(visible) :
      \E chosen \in SelectResults(ranked.order) :
      \E answer \in Orders({ranked.order[i] : i \in chosen}, ranked.score) :
        search' = [search EXCEPT
            !.pc = "done",
            !.answer = [i \in DOMAIN answer |-> Answered(answer[i])],
            !.left = {Answered(ranked.order[i]) : i \in DOMAIN ranked.order \ chosen}]
  BY <1>1
<1>c. PICK chosen \in SelectResults(ranked.order) :
      \E answer \in Orders({ranked.order[i] : i \in chosen}, ranked.score) :
        search' = [search EXCEPT
            !.pc = "done",
            !.answer = [i \in DOMAIN answer |-> Answered(answer[i])],
            !.left = {Answered(ranked.order[i]) : i \in DOMAIN ranked.order \ chosen}]
  BY <1>b
<1>2. PICK answer \in Orders({ranked.order[i] : i \in chosen}, ranked.score) :
        search' = [search EXCEPT
            !.pc = "done",
            !.answer = [i \in DOMAIN answer |-> Answered(answer[i])],
            !.left = {Answered(ranked.order[i]) : i \in DOMAIN ranked.order \ chosen}]
  BY <1>c
<1> DEFINE S == {id \in cut : Shown(id)}
<1>3. IsFiniteSet(S)
  <2>1. Candidates \subseteq Entries
    BY RunningTypes, HitsTypes DEF Candidates, Near, SearchInv, Load
  <2>2. S \in SUBSET Entries BY <2>1 DEF Cut, Best
  <2> QED BY <2>2, SearchAssumption, FS_Subset
<1>4. visible.order \in Lists(S) BY <1>1 DEF ApplyVisibility, Orders
<1>5. ranked.order \in Lists(S)
  <2> DEFINE items == {visible.order[i] : i \in DOMAIN visible.order}
  <2>1. items = S BY <1>3, <1>4, ListsAreOnto
  <2>2. ASSUME ranked \in Rerank(visible), ranked # visible PROVE ranked.order \in Lists(items)
    <3> DEFINE place(id) == CHOOSE i \in DOMAIN visible.order : visible.order[i] = id
               pool == {id \in items : place(id) <= asked.k * RerankPoolMult}
               scored == {id \in pool : Scored(id) # Unscored}
               before(a, b) == \/ a \in scored /\ (b \in scored => Scored(a) >= Scored(b))
                               \/ a \notin scored /\ b \notin scored /\ place(a) < place(b)
               sorted == {l \in Lists(items) : \A i, j \in DOMAIN l : i < j => before(l[i], l[j])}
    <3>1. ranked \in {[order |-> o, score |-> RankScore(scored)] : o \in sorted}
      BY <2>2 DEF Rerank
    <3>2. sorted \subseteq Lists(items) OBVIOUS
    <3> HIDE DEF sorted, scored, pool, before, items
    <3> QED BY <3>1, <3>2
  <2> QED BY <2>1, <2>2, <1>b, <1>4
<1>d. PICK P \in Picks(ranked.order) : \E F \in Fills(ranked.order, P) : chosen = P \cup F
  BY <1>c DEF SelectResults
<1>6. PICK F \in Fills(ranked.order, P) : chosen = P \cup F BY <1>d
<1>7. answer \in Lists({ranked.order[i] : i \in P \cup F}) BY <1>2, <1>6 DEF Orders
<1> QED BY <1>2, <1>5, <1>6, <1>7

\* The texts are those the entries have at that moment: the greedy selection takes no two
\* of one kind, and the filling, which does not look, comes only after everything that is
\* no restatement was taken.
LEMMA SelectsWithoutNeed ==
  ASSUME NEW order, NEW P \in Picks(order), NEW F \in Fills(order, P),
         IsFiniteSet(DOMAIN order), DOMAIN order \subseteq Nat, asked.k \in Nat, asked.budget \in Nat,
         NEW p \in P \cup F, NEW r \in P \cup F, p # r,
         <<stored[order[p]].text, stored[order[r]].text>> \in Restates
  PROVE  /\ asked.budget = 0
         /\ \A i \in DOMAIN order \ (P \cup F) :
                \E j \in P : <<stored[order[j]].text, stored[order[i]].text>> \in Restates
<1>1. /\ P \subseteq DOMAIN order
      /\ \A i \in DOMAIN order : i \in P <=>
            /\ Cardinality(Earlier(P, i)) < asked.k /\ ~Repeats(order, P, i)
            /\ \A j \in 1 .. i : ~OverBudget(order, P, j)
  BY DEF Picks
<1>2. \A i, j \in P : i # j => <<stored[order[i]].text, stored[order[j]].text>> \notin Restates
  <2>1. \A i, j \in P : i < j => <<stored[order[i]].text, stored[order[j]].text>> \notin Restates
    BY <1>1 DEF Repeats, Earlier
  <2>2. \A x, y : <<x, y>> \in Restates => <<y, x>> \in Restates
    <3> TAKE x, y
    <3>1. \A pair \in Restates : <<pair[2], pair[1]>> \in Restates BY SearchAssumption
    <3>2. <<x, y>>[1] = x /\ <<x, y>>[2] = y OBVIOUS
    <3> QED BY <3>1, <3>2
  <2>3. \A i, j \in P : i # j => i < j \/ j < i BY <1>1
  <2> QED BY <2>1, <2>2, <2>3
<1>3. F # {} BY <1>2
<1>4. asked.budget = 0
  <2>1. asked.budget > 0 => F = {} BY DEF Fills
  <2> QED BY <2>1, <1>3
<1>5. Cardinality(P) < asked.k BY <1>3, <1>4, FillsUp
<1>6. ASSUME NEW i \in DOMAIN order \ P PROVE Repeats(order, P, i)
  <2>1. Cardinality(Earlier(P, i)) < asked.k
    <3>1. IsFiniteSet(P) /\ Cardinality(P) \in Nat BY <1>1, FS_Subset, FS_CardinalityType
    <3>2. Earlier(P, i) \in SUBSET P BY DEF Earlier
    <3>3. Cardinality(Earlier(P, i)) <= Cardinality(P) /\ Cardinality(Earlier(P, i)) \in Nat
      BY <3>1, <3>2, FS_Subset, FS_CardinalityType
    <3> QED BY <3>1, <3>3, <1>5
  <2>2. \A j \in 1 .. i : ~OverBudget(order, P, j) BY <1>4 DEF OverBudget
  <2> QED BY <1>1, <2>1, <2>2
<1>7. \A i \in DOMAIN order \ (P \cup F) :
        \E j \in P : <<stored[order[j]].text, stored[order[i]].text>> \in Restates
  BY <1>6 DEF Repeats, Earlier
<1> QED BY <1>4, <1>7

\* What an answer is: the visible entries of a cut, all of them unless there are k.
LEMMA LoadAnswers ==
  ASSUME SearchInv, Load
  PROVE  /\ SearchTypeOK' /\ search'.pc = "done" /\ search'.asked = search.asked
         /\ NoNeedlessRestatement'
         /\ \E cut \in Cut :
                /\ AnsweredIds \subseteq {id \in cut : Shown(id)}
                /\ asked.budget = 0 /\ Len(search'.answer) < asked.k =>
                        /\ AnsweredIds = {id \in cut : Shown(id)}
                        /\ Cardinality({id \in cut : Shown(id)}) < asked.k
<1>1. PICK cut \in Cut : \E order \in Lists({id \in cut : Shown(id)}) :
         \E P \in Picks(order) : \E F \in Fills(order, P) :
         \E answer \in Lists({order[i] : i \in P \cup F}) :
            search' = [search EXCEPT
                !.pc = "done",
                !.answer = [i \in DOMAIN answer |-> Answered(answer[i])],
                !.left = {Answered(order[i]) : i \in DOMAIN order \ (P \cup F)}]
  BY LoadSelects
<1> DEFINE S == {id \in cut : Shown(id)}
<1>a. PICK order \in Lists(S) :
         \E P \in Picks(order) : \E F \in Fills(order, P) :
         \E answer \in Lists({order[i] : i \in P \cup F}) :
            search' = [search EXCEPT
                !.pc = "done",
                !.answer = [i \in DOMAIN answer |-> Answered(answer[i])],
                !.left = {Answered(order[i]) : i \in DOMAIN order \ (P \cup F)}]
  BY <1>1
<1>b. PICK P \in Picks(order) : \E F \in Fills(order, P) :
         \E answer \in Lists({order[i] : i \in P \cup F}) :
            search' = [search EXCEPT
                !.pc = "done",
                !.answer = [i \in DOMAIN answer |-> Answered(answer[i])],
                !.left = {Answered(order[i]) : i \in DOMAIN order \ (P \cup F)}]
  BY <1>a
<1>c. PICK F \in Fills(order, P) : \E answer \in Lists({order[i] : i \in P \cup F}) :
            search' = [search EXCEPT
                !.pc = "done",
                !.answer = [i \in DOMAIN answer |-> Answered(answer[i])],
                !.left = {Answered(order[i]) : i \in DOMAIN order \ (P \cup F)}]
  BY <1>b
<1>2. PICK answer \in Lists({order[i] : i \in P \cup F}) :
            search' = [search EXCEPT
                !.pc = "done",
                !.answer = [i \in DOMAIN answer |-> Answered(answer[i])],
                !.left = {Answered(order[i]) : i \in DOMAIN order \ (P \cup F)}]
  BY <1>c
<1>3. /\ SearchTypeOK /\ search.pc = "load" /\ UNCHANGED <<store, edits, failures>> BY DEF SearchInv, Load
<1>4. S \subseteq Entries /\ IsFiniteSet(S)
  <2>1. Candidates \subseteq Entries BY <1>3, RunningTypes, HitsTypes DEF Candidates, Near
  <2>2. S \in SUBSET Entries BY <2>1 DEF Cut, Best
  <2> QED BY <2>2, SearchAssumption, FS_Subset
<1> HIDE DEF S
<1>5. /\ DOMAIN order = 1 .. Cardinality(S) /\ Cardinality(S) \in Nat
      /\ order \in [1 .. Cardinality(S) -> S]
      /\ \A i, j \in DOMAIN order : i # j => order[i] # order[j]
      /\ {order[i] : i \in DOMAIN order} = S
  BY <1>2, <1>4, ListsAreOnto
<1>6. IsFiniteSet(DOMAIN order) /\ Cardinality(DOMAIN order) = Cardinality(S) /\ DOMAIN order \subseteq Nat
  BY <1>5, FS_Interval
<1>7. /\ asked.k \in Nat /\ asked.budget \in Nat BY <1>3, RunningTypes
<1>8. P \cup F \subseteq DOMAIN order
  <2>1. P \subseteq DOMAIN order BY <1>2 DEF Picks
  <2>2. F \subseteq DOMAIN order BY <1>2 DEF Fills, Best
  <2> QED BY <2>1, <2>2
<1> DEFINE C == {order[i] : i \in P \cup F}
<1>9. /\ IsFiniteSet(C) /\ Cardinality(C) = Cardinality(P \cup F) /\ C \subseteq S
  <2>1. IsFiniteSet(P \cup F) BY <1>6, <1>8, FS_Subset
  <2>2. \A i, j \in DOMAIN order : i # j => order[i] # order[j] BY <1>5
  <2>3. IsFiniteSet(C) /\ Cardinality(C) = Cardinality(P \cup F) BY <2>1, <2>2, <1>8, AsManyItems
  <2>4. C \subseteq S BY <1>5, <1>8
  <2> QED BY <2>3, <2>4
<1>10. /\ answer \in [1 .. Cardinality(C) -> C] /\ DOMAIN answer = 1 .. Cardinality(C)
       /\ Cardinality(C) \in Nat
       /\ \A i, j \in DOMAIN answer : i # j => answer[i] # answer[j]
       /\ {answer[i] : i \in DOMAIN answer} = C
       /\ \A x \in C : \E i \in DOMAIN answer : answer[i] = x
  <2>1. answer \in Lists(C) BY <1>2
  <2>2. IsFiniteSet(C) BY <1>9
  <2> HIDE DEF C
  <2> QED BY <2>1, <2>2, ListsAreOnto
<1> DEFINE said == [i \in DOMAIN answer |-> Answered(answer[i])]
           rest == {Answered(order[i]) : i \in DOMAIN order \ (P \cup F)}
<1>11. \A id \in Entries : Answered(id) \in Answer /\ Answered(id).id = id /\ Answered(id).text = stored[id].text
  BY <1>3 DEF Answered, Answer, SearchTypeOK
<1>12. said \in Seq(Answer) /\ Len(said) = Cardinality(C) /\ DOMAIN said = DOMAIN answer
  <2>1. said \in [1 .. Cardinality(C) -> Answer] BY <1>4, <1>9, <1>10, <1>11
  <2> HIDE DEF C, said
  <2>2. DOMAIN said = 1 .. Cardinality(C) BY <2>1
  <2> QED BY <2>1, <2>2, <1>10
<1>13. rest \subseteq Answer BY <1>4, <1>5, <1>11
<1>14. search' = [search EXCEPT !.pc = "done", !.answer = said, !.left = rest] BY <1>2
<1>15. \A i \in DOMAIN answer : said[i] = Answered(answer[i]) OBVIOUS
<1> HIDE DEF said
<1>16. /\ search' \in [pc : {"keyword", "vector", "load", "done"}, asked : Requests, degraded : BOOLEAN,
                       toRead : SUBSET Queries, toScan : SUBSET (Queries \X Shelves),
                       kw : Hits, vec : Hits,
                       touched : SUBSET Entries, overlooked : SUBSET Entries,
                       answer : Seq(Answer), left : SUBSET Answer]
       /\ search'.pc = "done" /\ search'.asked = search.asked /\ search'.answer = said
       /\ search'.left = rest
  <2> HIDE DEF rest
  <2> QED BY <1>3, <1>12, <1>13, <1>14, RunningTypes
<1>17. SearchTypeOK' BY <1>3, <1>16 DEF SearchTypeOK, store
<1>18. AnsweredIds = C
  <2>1. \A i \in DOMAIN answer : said[i].id = answer[i] BY <1>4, <1>9, <1>10, <1>11, <1>15
  <2>2. AnsweredIds = {said[i].id : i \in DOMAIN answer} BY <1>12, <1>16 DEF AnsweredIds
  <2>3. AnsweredIds = {answer[i] : i \in DOMAIN answer} BY <2>1, <2>2
  <2> QED BY <2>3, <1>10
<1>19. ASSUME asked.budget = 0, Len(search'.answer) < asked.k
       PROVE  AnsweredIds = S /\ Cardinality(S) < asked.k
  <2>1. Cardinality(P \cup F) < asked.k BY <1>9, <1>12, <1>16, <1>19
  <2>2. P \cup F = DOMAIN order
    <3>1. IsFiniteSet(DOMAIN order) /\ asked.k \in Nat /\ asked.budget = 0 BY <1>6, <1>7, <1>19
    <3>2. Cardinality(P \cup F) < asked.k => P \cup F = DOMAIN order BY <3>1, FillsUp
    <3> QED BY <2>1, <3>2
  <2>3. C = S BY <2>2, <1>5
  <2>4. AnsweredIds = S BY <2>3, <1>18
  <2>5. Cardinality(S) < asked.k
    <3>1. Cardinality(C) = Cardinality(P \cup F) BY <1>9
    <3> HIDE DEF C
    <3>2. Cardinality(S) = Cardinality(P \cup F) BY <2>3, <3>1
    <3> QED BY <2>1, <3>2
  <2> QED BY <2>4, <2>5
<1>20. NoNeedlessRestatement'
  <2>1. ASSUME NEW i \in DOMAIN answer, NEW j \in DOMAIN answer, i # j,
               <<said[i].text, said[j].text>> \in Restates
        PROVE  /\ asked.budget = 0
               /\ \A item \in rest : \E a \in DOMAIN answer : <<said[a].text, item.text>> \in Restates
    <3>1. answer[i] \in C /\ answer[j] \in C /\ answer[i] # answer[j] BY <1>10, <2>1
    <3>2. PICK p \in P \cup F : answer[i] = order[p] BY <3>1
    <3>3. PICK r \in P \cup F : answer[j] = order[r] BY <3>1
    <3>4. p # r BY <3>1, <3>2, <3>3
    <3>5. /\ said[i].text = stored[order[p]].text /\ said[j].text = stored[order[r]].text
      BY <1>4, <1>9, <1>10, <1>11, <1>15, <3>1, <3>2, <3>3
    <3>6. /\ asked.budget = 0
          /\ \A x \in DOMAIN order \ (P \cup F) :
                \E y \in P : <<stored[order[y]].text, stored[order[x]].text>> \in Restates
      BY <1>2, <1>6, <1>7, <2>1, <3>4, <3>5, SelectsWithoutNeed
    <3>7. ASSUME NEW item \in rest
          PROVE  \E a \in DOMAIN answer : <<said[a].text, item.text>> \in Restates
      <4>1. PICK x \in DOMAIN order \ (P \cup F) : item = Answered(order[x]) BY <3>7
      <4>2. PICK y \in P : <<stored[order[y]].text, stored[order[x]].text>> \in Restates BY <3>6
      <4>3. item.text = stored[order[x]].text BY <4>1, <1>4, <1>5, <1>11
      <4>4. PICK a \in DOMAIN answer : answer[a] = order[y]
        <5>1. order[y] \in C OBVIOUS
        <5> QED BY <5>1, <1>10
      <4>5. said[a].text = stored[order[y]].text
        BY <4>4, <1>4, <1>9, <1>10, <1>11, <1>15
      <4> QED BY <4>2, <4>3, <4>5
    <3> QED BY <3>6, <3>7
  <2>2. DOMAIN search'.answer = DOMAIN answer BY <1>12, <1>16
  <2> HIDE DEF rest
  <2> QED BY <2>1, <2>2, <1>16 DEF NoNeedlessRestatement, asked
<1> QED BY <1>16, <1>17, <1>18, <1>9, <1>19, <1>20 DEF S

LEMMA SearchStep == ASSUME SearchInv, SearchNext PROVE SearchInv'
<1>1. CASE Load
  <2>1. SearchTypeOK' /\ search'.pc = "done" /\ NoNeedlessRestatement' BY <1>1, LoadAnswers
  <2> QED BY <2>1 DEF SearchInv, TiersInOrder, HitsAsked, HitsComplete, Searching
<1> QED BY <1>1, BeginHolds, KeywordHolds, VectorHolds, TierEndsHold, SearchEndHolds, OtherSteps
    DEF SearchNext

LEMMA SearchUnchanged == ASSUME SearchInv, UNCHANGED searchVars PROVE SearchInv'
<1>1. UNCHANGED <<stored, vectors, pending, cold, search, edits, failures>> BY DEF searchVars
<1>2. SearchTypeOK' BY <1>1 DEF SearchInv, SearchTypeOK
<1>3. NoNeedlessRestatement' BY <1>1 DEF SearchInv, NoNeedlessRestatement, asked
<1> QED BY <1>1, <1>2, <1>3 DEF SearchInv, TiersInOrder, HitsAsked, HitsComplete,
      Searching, Untouched, Visible, ByTerms, ByVector, Written, InScope, AllTerms, SomeTerm, asked,
      Near, Enough

\* The tiers are read in order, what is found was asked for, and what a tier that was read
\* can find is among its hits or these fill the cut (search.go, Search).
THEOREM SearchCorrect == SearchSpec => []SearchInv
BY SearchInitHolds, SearchStep, SearchUnchanged, PTL DEF SearchSpec

\* The step that answers is the one that reads the entries.
LEMMA OnlyLoadAnswers ==
  ASSUME SearchInv, SearchNext, Answers
  PROVE  Load
<1>1. SearchTypeOK /\ search.pc = "load" /\ search'.pc = "done" BY DEF SearchInv, Answers
<1>2. \A id \in Entries : Noted(id) => search'.pc = search.pc
  BY <1>1, RunningTypes DEF Noted
<1>3. ~Begin /\ ~Keyword /\ ~KeywordFails /\ ~KeywordDone /\ ~Vector /\ ~VectorFails /\ ~VectorDone
      /\ ~LoadFails /\ ~Promote
  BY <1>1 DEF Begin, Keyword, KeywordFails, KeywordDone, Vector, VectorFails, VectorDone, LoadFails,
      Promote, NoSearch
<1>4. ASSUME NEW id \in Entries,
             \/ Supersede(id) \/ ForgetEntry(id) \/ DropVector(id) \/ Reindex(id) \/ MarkCold(id)
             \/ \E text \in Texts : Rewrite(id, text)
             \/ \E s \in Shelves : Move(id, s)
      PROVE  FALSE
  BY <1>1, <1>2, <1>4
     DEF Supersede, ForgetEntry, DropVector, Reindex, MarkCold, Rewrite, Move, Write
<1> QED BY <1>3, <1>4 DEF SearchNext

LEMMA AskedIsAnswered ==
  ASSUME SearchInv, SearchNext, Answers, NEW id \in AnsweredIds
  PROVE  /\ Shown(id)
         /\ \/ stored[id].shelf \in asked.shelves
            \/ id \in search.touched
            \/ \E s \in asked.shelves : vectors[id][s] # NoVector
<1>1. Load BY OnlyLoadAnswers
<1>2. PICK cut \in Cut : AnsweredIds \subseteq {i \in cut : Shown(i)} BY <1>1, LoadAnswers
<1>3. id \in Candidates /\ Shown(id) BY <1>2 DEF Cut, Best
<1>4. HitsAsked /\ Searching BY DEF SearchInv, Answers, Searching
<1> QED BY <1>3, <1>4 DEF Candidates, Near, HitsAsked, Untouched, Shown

\* At the step that answers, whatever can be found is a candidate, or the cut is full.
LEMMA FindablesAreCandidates ==
  ASSUME SearchInv, search.pc = "load", ~search.degraded, NEW id \in Entries, Findable(id)
  PROVE  id \in Candidates \/ Enough(Candidates)
<1>1. /\ HitsComplete /\ Searching /\ search.toRead = {} /\ search.toScan = {} /\ SearchTypeOK
  BY DEF SearchInv, TiersInOrder, Searching
<1>2. DOMAIN search.kw \subseteq Entries /\ Near \subseteq Entries /\ asked.k \in Nat
  BY <1>1, RunningTypes, HitsTypes DEF Near
<1>3. Untouched(id) BY DEF Findable, Untouched, Shown
<1>4. ASSUME NEW q \in asked.queries, ByTerms(q, id) PROVE id \in Candidates \/ Enough(Candidates)
  <2>1. id \in DOMAIN search.kw \/ Enough(DOMAIN search.kw) BY <1>1, <1>3, <1>4 DEF HitsComplete
  <2>2. DOMAIN search.kw \in SUBSET Candidates /\ Candidates \in SUBSET Entries
    BY <1>2 DEF Candidates
  <2> QED BY <2>1, <2>2, <1>2, EnoughGrows
<1>5. ASSUME NEW q \in asked.queries, NEW s \in asked.shelves, ByVector(q, id, s)
      PROVE  id \in Candidates \/ Enough(Candidates)
  <2>1. id \in Near \/ Enough(Near) BY <1>1, <1>3, <1>5 DEF HitsComplete
  <2>2. Near \in SUBSET Candidates /\ Candidates \in SUBSET Entries BY <1>2 DEF Candidates
  <2> QED BY <2>1, <2>2, <1>2, EnoughGrows
<1> QED BY <1>4, <1>5 DEF Findable

LEMMA FindablesAreAnswered ==
  ASSUME SearchInv, SearchNext
  PROVE  NothingMissed
<1> SUFFICES ASSUME Answers, ~search.degraded, asked.budget = 0, Len(search'.answer) < asked.k,
                    NEW id \in Entries, Findable(id), id \notin AnsweredIds
             PROVE  Cardinality({i \in Entries : ~Shown(i)}) > (OverfetchFactor - 1) * asked.k
  BY DEF NothingMissed
<1>1. Load /\ search.pc = "load" /\ SearchTypeOK BY OnlyLoadAnswers DEF Answers, SearchInv
<1>2. PICK cut \in Cut : /\ AnsweredIds = {i \in cut : Shown(i)}
                         /\ Cardinality({i \in cut : Shown(i)}) < asked.k
  BY <1>1, LoadAnswers
<1> DEFINE n == asked.k * OverfetchFactor
           hidden == {i \in Entries : ~Shown(i)}
           seen == {i \in cut : Shown(i)}
<1>3. /\ Candidates \in SUBSET Entries /\ asked.k \in Nat /\ n \in Nat
  BY <1>1, RunningTypes, HitsTypes, SearchAssumption DEF Candidates, Near
<1>4. /\ cut \in SUBSET Candidates
      /\ Cardinality(cut) = IF Cardinality(Candidates) < n THEN Cardinality(Candidates) ELSE n
  BY DEF Cut, Best
<1>5. /\ IsFiniteSet(Candidates) /\ IsFiniteSet(cut) /\ IsFiniteSet(hidden) /\ IsFiniteSet(seen)
      /\ Cardinality(Candidates) \in Nat /\ Cardinality(hidden) \in Nat /\ Cardinality(seen) \in Nat
      /\ Cardinality(cut) \in Nat
  <2>1. hidden \in SUBSET Entries /\ seen \in SUBSET Entries /\ cut \in SUBSET Entries BY <1>3, <1>4
  <2> QED BY <2>1, <1>3, SearchAssumption, FS_Subset, FS_CardinalityType
<1>6. id \notin cut BY <1>2 DEF Findable
<1>7. Cardinality(cut) = n
  <2>1. CASE id \in Candidates
    <3>1. cut # Candidates BY <2>1, <1>6
    <3>2. Cardinality(cut) # Cardinality(Candidates) BY <3>1, <1>4, <1>5, FS_Subset
    <3> QED BY <3>2, <1>4
  <2>2. CASE id \notin Candidates
    <3>1. Enough(Candidates) BY <2>2, <1>1, FindablesAreCandidates
    <3> QED BY <3>1, <1>3, <1>4, <1>5 DEF Enough
  <2> QED BY <2>1, <2>2
<1>8. Cardinality(cut \ seen) = n - Cardinality(seen) /\ Cardinality(cut \ seen) <= Cardinality(hidden)
  <2>1. cut \cap seen = seen OBVIOUS
  <2>2. Cardinality(cut \ seen) = Cardinality(cut) - Cardinality(cut \cap seen) BY <1>5, FS_Difference
  <2>3. cut \ seen \in SUBSET hidden BY <1>3, <1>4
  <2>4. Cardinality(cut \ seen) <= Cardinality(hidden) BY <2>3, <1>5, FS_Subset
  <2> QED BY <2>1, <2>2, <2>4, <1>7
<1>9. (OverfetchFactor - 1) * asked.k = n - asked.k
  <2>1. \A f, k \in Int : (f - 1) * k = k * f - k OBVIOUS
  <2>2. OverfetchFactor \in Int /\ asked.k \in Int BY <1>3, SearchAssumption
  <2> QED BY <2>1, <2>2
<1>10. Cardinality(hidden) > n - asked.k
  <2> HIDE DEF n, hidden, seen
  <2>1. Cardinality(seen) < asked.k BY <1>2 DEF seen
  <2> QED BY <2>1, <1>3, <1>5, <1>8
<1> QED BY <1>9, <1>10

\* Every answered entry is active, not gone and no more sensitive than asked for as it is
\* answered, and stands on a shelf that was asked for, or was written to during the search
\* or left its vector on one (search.go, applyVisibility).
THEOREM SearchAnswersAsAsked == SearchSpec => AnswersAsAsked
<1>1. ASSUME SearchInv, [SearchNext]_searchVars
      PROVE  [Answers => \A id \in AnsweredIds :
                /\ Shown(id)
                /\ \/ stored[id].shelf \in asked.shelves
                   \/ id \in search.touched
                   \/ \E s \in asked.shelves : vectors[id][s] # NoVector]_searchVars
  BY <1>1, AskedIsAnswered
<1> QED BY <1>1, SearchCorrect, PTL DEF SearchSpec, AnswersAsAsked

\* A search that read both tiers and answers less than asked for missed nothing, unless
\* the hidden entries outnumber what is over-fetched; and it repeats itself only when
\* there is nothing else to say.
THEOREM SearchAnswersFully == SearchSpec => AnswersFully
<1>1. ASSUME SearchInv, SearchInv', [SearchNext]_searchVars
      PROVE  [NothingMissed /\ NoNeedlessRestatement']_searchVars
  BY <1>1, FindablesAreAnswered DEF SearchInv
<1> QED BY <1>1, SearchCorrect, PTL DEF SearchSpec, AnswersFully

\* The types of the search's state (search.go, Search).
THEOREM SearchTypes == SearchSpec => []SearchTypeOK
<1>1. SearchInv => SearchTypeOK BY DEF SearchInv
<1> QED BY <1>1, SearchCorrect, PTL

=============================================================================
