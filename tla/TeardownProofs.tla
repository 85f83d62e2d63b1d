--------------------------- MODULE TeardownProofs ---------------------------
(***************************************************************************)
(* For any number of accounts, projects, entries and requests: a teardown  *)
(* loses track of no vector, leaves no memory of a deleted user, and       *)
(* neither a project without its owner nor a deployment without an         *)
(* administrator, save for the accidents the model marks.                  *)
(***************************************************************************)
EXTENDS Teardown, FiniteSetTheorems, TLAPS

-----------------------------------------------------------------------------
(* Types. *)

LEMMA BeginTyped ==
    ASSUME TypeOK, NEW c \in Callers, NEW job \in Jobs, NEW pc \in Steps, NEW by \in Users,
           NEW user \in Users, NEW in \in Scopes, NEW es \in SUBSET Entries,
           Begin(c, job, pc, by, user, in, es)
    PROVE  call' \in [Callers -> Call \cup {Idle}]
BY DEF TypeOK, Begin, Call

LEMMA GotoTyped ==
    ASSUME TypeOK, NEW c \in Callers, call[c] # Idle, NEW pc \in Steps, Goto(c, pc)
    PROVE  call' \in [Callers -> Call \cup {Idle}]
<1>1. call[c] \in Call
  BY DEF TypeOK
<1>2. [call[c] EXCEPT !.pc = pc] \in Call
  BY <1>1 DEF Call
<1>3. QED
  BY <1>2 DEF TypeOK, Goto

LEMMA FinishTyped ==
    ASSUME TypeOK, NEW c \in Callers, Finish(c)
    PROVE  call' \in [Callers -> Call \cup {Idle}]
BY DEF TypeOK, Finish

LEMMA MarkedTyped ==
    ASSUME TypeOK, NEW es, NEW m \in Marks, Marked(es, m)
    PROVE  mark' \in [Entries -> SUBSET Marks]
BY DEF TypeOK, Marked

LEMMA DropProjectTyped ==
    ASSUME TypeOK, NEW p, DropProject(p)
    PROVE  /\ users' \subseteq Users /\ admins' \subseteq users' /\ used' \subseteq Projects
           /\ owner' \in [Projects -> Users \cup {Nobody}]
           /\ members' \subseteq Projects \X Users
           /\ entry' \in [Entries -> Row] /\ parked' \subseteq Entries
<1>1. \A e \in Entries : [entry[e] EXCEPT !.st = "gone"] \in Row
  BY DEF TypeOK, Row
<1>2. QED
  BY <1>1 DEF TypeOK, DropProject

LEMMA DropUserTyped ==
    ASSUME TypeOK, NEW u \in Users, DropUser(u)
    PROVE  /\ users' \subseteq Users /\ admins' \subseteq users' /\ used' \subseteq Projects
           /\ owner' \in [Projects -> Users \cup {Nobody}]
           /\ members' \subseteq Projects \X Users
BY DEF TypeOK, DropUser

LEMMA LoseTyped ==
    ASSUME TypeOK, NEW c, NEW b, Lose(c, b)
    PROVE  past' \subseteq Accidents
BY DEF TypeOK, Lose, Accidents

LEMMA TypeInit == Init => TypeOK
BY TeardownAssumption DEF Init, TypeOK, Row, Scopes

LEMMA TypeRequest ==
    ASSUME TypeOK, NEW c \in Callers, Request(c)
    PROVE  TypeOK'
<1>1. ASSUME NEW u \in Users, NEW in \in Scopes, NEW e \in Entries, Remember(c, u, in, e)
      PROVE  TypeOK'
  <2>1. call' \in [Callers -> Call \cup {Idle}]
    BY <1>1, BeginTyped DEF Remember, Jobs, Steps
  <2>2. QED
    BY <1>1, <2>1 DEF Remember, TypeOK, rows, Same
<1>2. ASSUME NEW e \in Entries, Forget(c, e) PROVE TypeOK'
  <2>1. entry[e].user \in Users /\ entry[e].in \in Scopes /\ [entry[e] EXCEPT !.st = "gone"] \in Row
    BY <1>2 DEF Forget, TypeOK, Row
  <2>2. call' \in [Callers -> Call \cup {Idle}]
    BY <1>2, <2>1, BeginTyped DEF Forget, Jobs, Steps
  <2>3. QED
    BY <1>2, <2>1, <2>2 DEF Forget, TypeOK, rows, Same
<1>3. ASSUME NEW p \in Projects, DeleteProject(c, p) PROVE TypeOK'
  <2>1. owner[p] \in Users
    BY <1>3 DEF DeleteProject, TypeOK
  <2>2. call' \in [Callers -> Call \cup {Idle}]
    BY <1>3, <2>1, BeginTyped DEF DeleteProject, Jobs, Steps, Scopes
  <2>3. QED
    BY <1>3, <2>2 DEF DeleteProject, TypeOK, rows, Same
<1>4. ASSUME NEW a \in Users, NEW u \in Users, DeleteUser(c, a, u) PROVE TypeOK'
  <2>1. [job |-> "deleteUser", pc |-> "list", by |-> a, user |-> u,
         in |-> Global, entry |-> {}, todo |-> Owned(u)] \in Call
    BY DEF Call, Jobs, Steps, Scopes, Owned
  <2>2. call' \in [Callers -> Call \cup {Idle}]
    BY <1>4, <2>1 DEF DeleteUser, TypeOK
  <2>3. QED
    BY <1>4, <2>2 DEF DeleteUser, TypeOK, rows, Same
<1>5. ASSUME NEW job \in Jobs, NEW a \in Users, NEW b \in Users, Guard(c, job, a, b) PROVE TypeOK'
  <2>1. call' \in [Callers -> Call \cup {Idle}]
    BY <1>5, BeginTyped DEF Guard, Steps, Scopes
  <2>2. QED
    BY <1>5, <2>1 DEF Guard, TypeOK, rows, Move
<1>6. QED
  BY <1>1, <1>2, <1>3, <1>4, <1>5 DEF Request

LEMMA TypeContinue ==
    ASSUME TypeOK, NEW c \in Callers, Continue(c)
    PROVE  TypeOK'
<1>0. call[c] # Idle => call[c] \in Call
  BY DEF TypeOK
<1>1. CASE Insert(c)
  <2>1. call[c] # Idle /\ call[c].user \in Users /\ call[c].in \in Scopes
    BY <1>0, <1>1 DEF Insert, At, Call
  <2>2. call' \in [Callers -> Call \cup {Idle}]
    BY <1>1, <2>1, GotoTyped, FinishTyped DEF Insert, Steps
  <2>3. mark' \in [Entries -> SUBSET Marks]
    BY <1>1, MarkedTyped DEF Insert, Marks, TypeOK
  <2>4. [st |-> "live", user |-> call[c].user, in |-> call[c].in] \in Row
    BY <2>1 DEF Row
  <2>5. entry' \in [Entries -> Row]
    BY <1>1, <2>4 DEF Insert, TypeOK
  <2>6. QED
    BY <1>1, <2>2, <2>3, <2>5 DEF Insert, TypeOK, rows
<1>2. CASE Upsert(c)
  <2>1. call[c] # Idle /\ call[c].entry \subseteq Entries
    BY <1>0, <1>2 DEF Upsert, At, Call
  <2>2. mark' \in [Entries -> SUBSET Marks]
    BY <1>2, MarkedTyped DEF Upsert, Marks
  <2>3. QED
    BY <1>2, <2>1, <2>2, FinishTyped DEF Upsert, TypeOK, rows
<1>3. CASE ColdForget(c)
  BY <1>3, FinishTyped DEF ColdForget, TypeOK, rows, Same
<1>4. CASE Park(c)
  <2>1. call[c] # Idle /\ call[c].entry \subseteq Entries
    BY <1>0, <1>4 DEF Park, At, Call
  <2>2. QED
    BY <1>4, <2>1, FinishTyped DEF Park, TypeOK, rows, Same
<1>5. CASE ProjectRows(c)
  <2>1. call[c] # Idle
    BY <1>5 DEF ProjectRows, At
  <2>2. CASE owner[call[c].in] = Nobody
    BY <1>5, <2>2, FinishTyped DEF ProjectRows, TypeOK, rows, Same
  <2>3. CASE owner[call[c].in] # Nobody
    BY <1>5, <2>1, <2>3, GotoTyped, DropProjectTyped DEF ProjectRows, TypeOK, Same, Steps
  <2>4. QED
    BY <2>2, <2>3
<1>6. CASE ColdProject(c)
  BY <1>6, GotoTyped, FinishTyped DEF ColdProject, ProjectDone, TypeOK, rows, Same, Steps
<1>7. ASSUME NEW p \in Projects, NextProject(c, p) PROVE TypeOK'
  <2>1. call[c] \in Call /\ p \in Scopes
    BY <1>0, <1>7 DEF NextProject, At, Scopes
  <2>2. /\ [call[c] EXCEPT !.todo = @ \ {p}] \in Call
        /\ [call[c] EXCEPT !.todo = @ \ {p}, !.in = p, !.pc = "cold"] \in Call
    BY <2>1 DEF Call, Steps
  <2>3. call' \in [Callers -> Call \cup {Idle}]
    BY <1>7, <2>2 DEF NextProject, TypeOK
  <2>4. CASE owner[p] = Nobody
    BY <1>7, <2>3, <2>4 DEF NextProject, TypeOK, rows, Same
  <2>5. CASE owner[p] # Nobody
    BY <1>7, <2>3, <2>5, DropProjectTyped DEF NextProject, TypeOK, Same
  <2>6. QED
    BY <2>4, <2>5
<1>8. CASE LastProjectGone(c)
  <2>1. call' \in [Callers -> Call \cup {Idle}]
    BY <1>8, GotoTyped, FinishTyped DEF LastProjectGone, At, Steps
  <2>2. QED
    BY <1>8, <2>1 DEF LastProjectGone, TypeOK, rows, Same
<1>9. CASE Commit(c)
  <2>1. call[c] # Idle /\ call[c].user \in Users
    BY <1>0, <1>9 DEF Commit, At, Call
  <2>2. CASE Owned(call[c].user) = {}
    <3>1. EraseUser(c, Of(call[c].user))
      BY <1>9, <2>2 DEF Commit
    <3>2. call' \in [Callers -> Call \cup {Idle}] /\ past' \subseteq Accidents
      BY <2>1, <3>1, GotoTyped, LoseTyped DEF EraseUser, Steps
    <3>3. /\ users' \subseteq Users /\ admins' \subseteq users' /\ used' \subseteq Projects
          /\ owner' \in [Projects -> Users \cup {Nobody}]
          /\ members' \subseteq Projects \X Users
      BY <2>1, <3>1, DropUserTyped DEF EraseUser
    <3>4. \A e \in Entries : [entry[e] EXCEPT !.st = "gone"] \in Row
      BY DEF TypeOK, Row
    <3>5. entry' \in [Entries -> Row] /\ parked' \subseteq Entries
      BY <3>1, <3>4 DEF EraseUser, TypeOK
    <3>6. QED
      BY <1>9, <3>2, <3>3, <3>5 DEF Commit, TypeOK
  <2>3. CASE Owned(call[c].user) # {}
    BY <1>9, <2>3, FinishTyped DEF Commit, Refused, TypeOK, rows
  <2>4. QED
    BY <2>2, <2>3
<1>10. CASE ColdUser(c)
  <2>1. mark' \in [Entries -> SUBSET Marks]
    BY <1>10, MarkedTyped DEF ColdUser, Marks
  <2>2. QED
    BY <1>10, <2>1, FinishTyped DEF ColdUser, TypeOK, rows
<1>11. CASE Check(c)
  <2>1. call' \in [Callers -> Call \cup {Idle}]
    BY <1>11, GotoTyped, FinishTyped DEF Check, Steps
  <2>2. QED
    BY <1>11, <2>1 DEF Check, TypeOK, rows, Same
<1>12. CASE Demote(c)
  BY <1>12, FinishTyped, LoseTyped DEF Demote, TypeOK
<1>13. CASE RemoveUser(c)
  <2>1. call[c].user \in Users
    BY <1>0, <1>13 DEF RemoveUser, At, Call
  <2>2. call' \in [Callers -> Call \cup {Idle}]
    BY <1>13, FinishTyped DEF RemoveUser
  <2>3. CASE Owned(call[c].user) = {}
    <3>1. mark' \in [Entries -> SUBSET Marks] /\ past' \subseteq Accidents
      BY <1>13, <2>3, MarkedTyped, LoseTyped DEF RemoveUser, Marks
    <3>2. /\ users' \subseteq Users /\ admins' \subseteq users' /\ used' \subseteq Projects
          /\ owner' \in [Projects -> Users \cup {Nobody}]
          /\ members' \subseteq Projects \X Users
      BY <1>13, <2>1, <2>3, DropUserTyped DEF RemoveUser
    <3>3. QED
      BY <1>13, <2>2, <3>1, <3>2 DEF RemoveUser, TypeOK
  <2>4. CASE Owned(call[c].user) # {}
    BY <1>13, <2>2, <2>4 DEF RemoveUser, TypeOK, rows
  <2>5. QED
    BY <2>3, <2>4
<1>14. QED
  BY <1>1, <1>2, <1>3, <1>4, <1>5, <1>6, <1>7, <1>8, <1>9, <1>10, <1>11, <1>12, <1>13 DEF Continue

LEMMA TypeFailure ==
    ASSUME TypeOK, NEW c \in Callers, Failure(c)
    PROVE  TypeOK'
<1>0. faults' \in Nat
  BY DEF Failure, ColdForgetFails, ColdProjectFails, ColdUserFails, Abort, Fail, TypeOK
<1>1. CASE ColdForgetFails(c)
  BY <1>0, <1>1, GotoTyped DEF ColdForgetFails, At, TypeOK, rows, Steps
<1>2. CASE ColdProjectFails(c)
  <2>1. mark' \in [Entries -> SUBSET Marks]
    BY <1>2, MarkedTyped DEF ColdProjectFails, Marks
  <2>2. call' \in [Callers -> Call \cup {Idle}]
    BY <1>2, GotoTyped, FinishTyped DEF ColdProjectFails, ProjectDone, Steps
  <2>3. QED
    BY <1>0, <1>2, <2>1, <2>2 DEF ColdProjectFails, TypeOK, rows
<1>3. CASE ColdUserFails(c)
  BY <1>0, <1>3, MarkedTyped, FinishTyped DEF ColdUserFails, Marks, TypeOK, rows
<1>4. CASE Abort(c)
  BY <1>0, <1>4, MarkedTyped, FinishTyped DEF Abort, Marks, TypeOK, rows
<1>5. QED
  BY <1>1, <1>2, <1>3, <1>4 DEF Failure

LEMMA TypeAtOnce == ASSUME TypeOK, AtOnce \/ ReapOrphan PROVE TypeOK'
<1>1. ASSUME NEW u \in Users, NEW p \in Projects,
             CreateProject(u, p) \/ AddMember(p, u) \/ RemoveMember(p, u)
      PROVE  TypeOK'
  BY <1>1 DEF CreateProject, AddMember, RemoveMember, TypeOK, rows, Same, Move
<1>2. ASSUME NEW a \in Users, NEW b \in Users, Promote(a, b) \/ UpdateRole(a, b) PROVE TypeOK'
  <2>1. admins' \subseteq users /\ past' \subseteq Accidents /\ moves' \in Nat
    <3>1. CASE Promote(a, b)
      BY <3>1 DEF Promote, TypeOK, Move
    <3>2. CASE UpdateRole(a, b)
      BY <3>2 DEF UpdateRole, TypeOK, Accidents, Move
    <3>3. QED
      BY <1>2, <3>1, <3>2
  <2>2. UNCHANGED <<users, owner, used, members, entry, vec, parked, call, store, mark, faults>>
    BY <1>2 DEF Promote, UpdateRole
  <2>3. QED
    BY <2>1, <2>2 DEF TypeOK
<1>3. CASE ReapOrphan
  BY <1>3 DEF ReapOrphan, TypeOK, rows, Same
<1>4. QED
  BY <1>1, <1>2, <1>3 DEF AtOnce

LEMMA TypeNext == ASSUME TypeOK, [Next]_vars PROVE TypeOK'
<1>1. CASE UNCHANGED vars
  BY <1>1 DEF vars, TypeOK
<1>2. QED
  BY <1>1, TypeRequest, TypeContinue, TypeFailure, TypeAtOnce DEF Next

-----------------------------------------------------------------------------
(* Owners. *)

LEMMA OwnersInit == Init => OwnerStays
BY DEF Init, OwnerStays

\* What a step does to owners, accounts and members: nothing, or one of these.
LEMMA OwnersNext ==
    ASSUME TypeOK, OwnerStays, [Next]_vars
    PROVE  OwnerStays'
<1>0. \A p \in Projects : owner[p] # Nobody => owner[p] \in Users
  BY DEF TypeOK
<1>1. CASE UNCHANGED <<users, owner, members>>
  BY <1>1 DEF OwnerStays
<1>2. ASSUME NEW p, DropProject(p) PROVE OwnerStays'
  BY <1>0, <1>2 DEF DropProject, OwnerStays, TypeOK
<1>3. ASSUME NEW u, DropUser(u), Owned(u) = {} PROVE OwnerStays'
  BY <1>0, <1>3 DEF DropUser, OwnerStays, Owned, Owns, TypeOK
<1>4. ASSUME NEW u \in Users, NEW p \in Projects,
             CreateProject(u, p) \/ AddMember(p, u) \/ RemoveMember(p, u)
      PROVE  OwnerStays'
  BY <1>0, <1>4 DEF CreateProject, AddMember, RemoveMember, OwnerStays, TypeOK
<1>5. ASSUME NEW c \in Callers, Request(c) \/ Failure(c) PROVE UNCHANGED <<users, owner, members>>
  BY <1>5
  DEF Request, Remember, Forget, DeleteProject, DeleteUser, Guard, Failure, ColdForgetFails,
              ColdProjectFails, ColdUserFails, Abort, rows
<1>6. ASSUME NEW c \in Callers, Continue(c)
      PROVE  \/ UNCHANGED <<users, owner, members>>
             \/ \E p : DropProject(p)
             \/ \E u : DropUser(u) /\ Owned(u) = {}
  BY <1>6 DEF Continue, Insert, Upsert, ColdForget, Park, ProjectRows, ColdProject, NextProject,
              LastProjectGone, Commit, EraseUser, Refused, ColdUser, Check, Demote, RemoveUser, rows
<1>7. CASE (\E a, b \in Users : Promote(a, b) \/ UpdateRole(a, b)) \/ ReapOrphan \/ UNCHANGED vars
  BY <1>1, <1>7 DEF Promote, UpdateRole, ReapOrphan, rows, vars
<1>8. QED
  BY <1>1, <1>2, <1>3, <1>4, <1>5, <1>6, <1>7 DEF Next, AtOnce

-----------------------------------------------------------------------------
(* Administrators. *)

\* Whoever is about to take an administrator away leaves another, unless two of them crossed.
TakersLeaveOne ==
    past = {} => \A c \in Callers : Taking(c) => admins \ {call[c].user} # {}

LEMMA CountAdmins == ASSUME NEW b, CountAdminsExcept(b) > 0 PROVE admins \ {b} # {}
BY FS_EmptySet DEF CountAdminsExcept

LEMMA AdminsInit == Init => TakersLeaveOne /\ AdminRemains
BY TeardownAssumption DEF Init, TakersLeaveOne, AdminRemains, Taking

\* A call that goes on takes no other administrator than before.
Onward(c) == Taking(c)' => Taking(c) /\ call'[c].user = call[c].user

LEMMA AdminsKept ==
    ASSUME TakersLeaveOne, AdminRemains, admins' = admins, past \subseteq past',
           \A c \in Callers : Onward(c) \/ (Taking(c)' => admins \ {call'[c].user} # {})
    PROVE  TakersLeaveOne' /\ AdminRemains'
BY DEF TakersLeaveOne, AdminRemains, Onward

\* Who takes b away finds nobody else about to take another, or that is an accident.
LEMMA AdminsLost ==
    ASSUME TypeOK, TakersLeaveOne, AdminRemains, NEW c \in Callers, NEW b,
           admins' = admins \ {b}, Lose(c, b), b \in admins => Taking(c) /\ call[c].user = b,
           ~Taking(c)', \A d \in Callers \ {c} : call'[d] = call[d]
    PROVE  TakersLeaveOne' /\ AdminRemains'
<1>1. CASE b \notin admins
  <2>1. admins' = admins /\ past' = past
    BY <1>1 DEF Lose
  <2>2. \A d \in Callers : Onward(d)
    BY <2>1 DEF Onward, Taking
  <2>3. QED
    BY <2>1, <2>2, AdminsKept
<1>2. CASE b \in admins /\ past' = {}
  <2>1. past = {} /\ \A d \in Callers \ {c} : Taking(d) => call[d].user = b
    BY <1>2 DEF Lose
  <2>2. \A d \in Callers : ~Taking(d)'
    BY <2>1 DEF Taking
  <2>3. admins' # {}
    BY <1>2, <2>1 DEF TakersLeaveOne
  <2>4. QED
    BY <2>2, <2>3 DEF TakersLeaveOne, AdminRemains
<1>3. CASE past' # {}
  BY <1>3 DEF TakersLeaveOne, AdminRemains
<1>4. QED
  BY <1>1, <1>2, <1>3

LEMMA AdminsRequest ==
    ASSUME TypeOK, TakersLeaveOne, AdminRemains, NEW c \in Callers, Request(c)
    PROVE  TakersLeaveOne' /\ AdminRemains'
<1>1. ASSUME NEW o, call' = [call EXCEPT ![c] = o], admins' = admins, past' = past,
             o.job \in {"setRole", "removeUser", "deleteUser"} => admins \ {o.user} # {}
      PROVE  TakersLeaveOne' /\ AdminRemains'
  <2>1. call'[c] = o /\ \A d \in Callers \ {c} : call'[d] = call[d]
    BY <1>1 DEF TypeOK
  <2>2. Taking(c)' => admins \ {call'[c].user} # {}
    BY <1>1, <2>1 DEF Taking
  <2>3. \A d \in Callers \ {c} : Onward(d)
    BY <1>1, <2>1 DEF Onward, Taking
  <2>4. QED
    BY <1>1, <2>2, <2>3, AdminsKept
<1>2. ASSUME NEW job, NEW pc, NEW by, NEW user, NEW in, NEW es,
             Begin(c, job, pc, by, user, in, es), admins' = admins, past' = past,
             job \in {"setRole", "removeUser", "deleteUser"} => admins \ {user} # {}
      PROVE  TakersLeaveOne' /\ AdminRemains'
  <2> DEFINE o == [job |-> job, pc |-> pc, by |-> by, user |-> user,
                   in |-> in, entry |-> es, todo |-> {}]
  <2>1. call' = [call EXCEPT ![c] = o] /\ o.job = job /\ o.user = user
    BY <1>2 DEF Begin
  <2> HIDE DEF o
  <2>2. QED
    BY <1>1, <1>2, <2>1
<1>3. ASSUME NEW u \in Users, NEW in \in Scopes, NEW e \in Entries, Remember(c, u, in, e)
      PROVE  TakersLeaveOne' /\ AdminRemains'
  BY <1>2, <1>3 DEF Remember, rows, Same
<1>4. ASSUME NEW e \in Entries, Forget(c, e) PROVE TakersLeaveOne' /\ AdminRemains'
  BY <1>2, <1>4 DEF Forget, rows, Same
<1>5. ASSUME NEW p \in Projects, DeleteProject(c, p) PROVE TakersLeaveOne' /\ AdminRemains'
  BY <1>2, <1>5 DEF DeleteProject, rows, Same
<1>6. ASSUME NEW a \in Users, NEW u \in Users, DeleteUser(c, a, u)
      PROVE  TakersLeaveOne' /\ AdminRemains'
  <2> DEFINE o == [job |-> "deleteUser", pc |-> "list", by |-> a, user |-> u,
                   in |-> Global, entry |-> {}, todo |-> Owned(u)]
  <2>1. call' = [call EXCEPT ![c] = o] /\ o.user = u /\ a \in admins \ {u}
    BY <1>6 DEF DeleteUser
  <2> HIDE DEF o
  <2>2. admins' = admins /\ past' = past
    BY <1>6 DEF DeleteUser, rows, Same
  <2>3. QED
    BY <1>1, <2>1, <2>2
<1>7. ASSUME NEW job \in Jobs, NEW a \in Users, NEW b \in Users, Guard(c, job, a, b)
      PROVE  TakersLeaveOne' /\ AdminRemains'
  BY <1>2, <1>7, CountAdmins DEF Guard, rows
<1>8. QED
  BY <1>3, <1>4, <1>5, <1>6, <1>7 DEF Request

LEMMA AdminsContinue ==
    ASSUME TypeOK, TakersLeaveOne, AdminRemains, NEW c \in Callers, Continue(c) \/ Failure(c)
    PROVE  TakersLeaveOne' /\ AdminRemains'
<1> DEFINE P == TakersLeaveOne' /\ AdminRemains'
<1>0. call[c] # Idle => call[c] \in Call
  BY DEF TypeOK
\* A call that keeps its job and its user, or is over, leaves the administrators as they were.
<1>1. ASSUME NEW o, call' = [call EXCEPT ![c] = o], admins' = admins, past \subseteq past',
             o = Idle \/ (/\ call[c] # Idle /\ o.job = call[c].job /\ o.user = call[c].user
                          /\ o.pc = "sweep" \/ call[c].pc # "sweep")
      PROVE  P
  <2>1. call'[c] = o /\ \A d \in Callers \ {c} : call'[d] = call[d]
    BY <1>1 DEF TypeOK
  <2>2. \A d \in Callers : Onward(d)
    BY <1>1, <2>1 DEF Onward, Taking
  <2>3. QED
    BY <1>1, <2>2, AdminsKept
<1>2. ASSUME NEW pc \in Steps, Goto(c, pc), call[c] # Idle, pc = "sweep" \/ call[c].pc # "sweep",
             admins' = admins, past \subseteq past'
      PROVE  P
  <2> DEFINE o == [call[c] EXCEPT !.pc = pc]
  <2>1. call' = [call EXCEPT ![c] = o] /\ o.job = call[c].job /\ o.user = call[c].user /\ o.pc = pc
    BY <1>0, <1>2 DEF Goto, Call
  <2> HIDE DEF o
  <2>2. QED
    BY <1>1, <1>2, <2>1
<1>3. ASSUME Finish(c), admins' = admins, past \subseteq past' PROVE P
  BY <1>1, <1>3 DEF Finish
<1>4. CASE \/ Insert(c) \/ Upsert(c) \/ ColdForget(c) \/ Park(c) \/ ColdForgetFails(c)
           \/ ColdUser(c) \/ ColdUserFails(c) \/ Abort(c) \/ LastProjectGone(c) \/ Check(c)
  BY <1>2, <1>3, <1>4
  DEF Insert, Upsert, ColdForget, Park, ColdForgetFails, ColdUser, ColdUserFails, Abort,
      LastProjectGone, Check, At, Steps, rows, Same
<1>5. CASE ProjectRows(c)
  BY <1>2, <1>3, <1>5 DEF ProjectRows, DropProject, At, Steps, rows, Same
<1>6. CASE ColdProject(c) \/ ColdProjectFails(c)
  BY <1>2, <1>3, <1>6 DEF ColdProject, ColdProjectFails, ProjectDone, Steps, rows, Same
<1>7. ASSUME NEW p \in Projects, NextProject(c, p) PROVE P
  <2>1. call[c] \in Call /\ call[c] # Idle /\ call[c].pc = "list"
    BY <1>0, <1>7 DEF NextProject, At
  <2>2. admins' = admins /\ past' = past
    BY <1>7 DEF NextProject, DropProject, rows, Same
  <2>3. ASSUME NEW o \in {[call[c] EXCEPT !.todo = @ \ {p}],
                          [call[c] EXCEPT !.todo = @ \ {p}, !.in = p, !.pc = "cold"]},
               call' = [call EXCEPT ![c] = o]
        PROVE  P
    <3>1. o.job = call[c].job /\ o.user = call[c].user
      BY <2>1, <2>3 DEF Call
    <3>2. QED
      BY <1>1, <2>1, <2>2, <2>3, <3>1
  <2>4. QED
    BY <1>7, <2>3 DEF NextProject
<1>8. CASE Commit(c)
  <2>1. CASE Owned(call[c].user) = {}
    <3>1. /\ call[c] # Idle /\ call[c].job = "deleteUser" /\ call[c].pc = "commit"
          /\ EraseUser(c, Of(call[c].user))
      BY <1>8, <2>1 DEF Commit, At
    <3>2. PICK b : b = call[c].user
      OBVIOUS
    <3>3. /\ admins' = admins \ {b} /\ Lose(c, b)
          /\ call' = [call EXCEPT ![c] = [call[c] EXCEPT !.pc = "sweep"]]
      BY <3>1, <3>2 DEF EraseUser, DropUser, Goto
    <3>4. /\ \A d \in Callers \ {c} : call'[d] = call[d]
          /\ call'[c].user = b
      BY <1>0, <3>1, <3>2, <3>3 DEF TypeOK, Call
    <3>5. ~Taking(c)' /\ (b \in admins => Taking(c))
      BY <3>1, <3>2, <3>3, <3>4 DEF Taking
    <3>6. QED
      BY <3>2, <3>3, <3>4, <3>5, AdminsLost
  <2>2. CASE Owned(call[c].user) # {}
    BY <1>3, <1>8, <2>2 DEF Commit, Refused, rows
  <2>3. QED
    BY <2>1, <2>2
<1>9. ASSUME call[c] # Idle, call[c].job \in {"setRole", "removeUser"}, Finish(c),
             admins' = admins \ {call[c].user}, Lose(c, call[c].user)
      PROVE  P
  <2>1. PICK b : b = call[c].user
    OBVIOUS
  <2>2. call'[c] = Idle /\ \A d \in Callers \ {c} : call'[d] = call[d]
    BY <1>9 DEF Finish, TypeOK
  <2>3. ~Taking(c)' /\ (b \in admins => Taking(c))
    BY <1>9, <2>1, <2>2 DEF Taking
  <2>4. QED
    BY <1>9, <2>1, <2>2, <2>3, AdminsLost
<1>10. CASE Demote(c)
  BY <1>9, <1>10 DEF Demote, At
<1>11. CASE RemoveUser(c)
  BY <1>3, <1>9, <1>11 DEF RemoveUser, DropUser, At, rows
<1>12. QED
  BY <1>4, <1>5, <1>6, <1>7, <1>8, <1>10, <1>11 DEF Continue, Failure

LEMMA AdminsNext ==
    ASSUME TypeOK, TakersLeaveOne, AdminRemains, [Next]_vars
    PROVE  TakersLeaveOne' /\ AdminRemains'
<1>1. CASE UNCHANGED <<call, admins, past>>
  BY <1>1, AdminsKept DEF Onward, Taking
<1>2. ASSUME NEW a \in Users, NEW b \in Users, Promote(a, b) PROVE TakersLeaveOne' /\ AdminRemains'
  <2>1. a \in admins /\ admins' = admins \cup {b} /\ UNCHANGED <<call, past>>
    BY <1>2 DEF Promote
  <2>2. ASSUME NEW c \in Callers, Taking(c)', past = {} PROVE admins' \ {call'[c].user} # {}
    <3>1. CASE Taking(c)
      BY <2>1, <2>2, <3>1 DEF TakersLeaveOne
    <3>2. CASE ~Taking(c)
      BY <2>1, <2>2, <3>2 DEF Taking
    <3>3. QED
      BY <3>1, <3>2
  <2>3. QED
    BY <2>1, <2>2 DEF TakersLeaveOne, AdminRemains
<1>3. ASSUME NEW a \in Users, NEW b \in Users, UpdateRole(a, b)
      PROVE  TakersLeaveOne' /\ AdminRemains'
  BY <1>3 DEF UpdateRole, TakersLeaveOne, AdminRemains
<1>4. ASSUME NEW u \in Users, NEW p \in Projects,
             CreateProject(u, p) \/ AddMember(p, u) \/ RemoveMember(p, u)
      PROVE  UNCHANGED <<call, admins, past>>
  BY <1>4 DEF CreateProject, AddMember, RemoveMember, Same
<1>5. CASE ReapOrphan \/ UNCHANGED vars
  BY <1>1, <1>5 DEF ReapOrphan, rows, vars, Same
<1>6. QED
  BY <1>1, <1>2, <1>3, <1>4, <1>5, AdminsRequest, AdminsContinue DEF Next, AtOnce

-----------------------------------------------------------------------------
(* Entries. *)

LEMMA EntriesInit == Init => NothingLeft /\ VectorsAccounted
BY DEF Init, NothingLeft, VectorsAccounted, Live, Gone

\* An entry that is live stays its user's, and keeps its marks.
LEMMA NothingLeftKept ==
    ASSUME TypeOK, NothingLeft, users \subseteq users',
           \A e \in Entries : mark[e] \subseteq mark'[e],
           \A e \in Entries : Live(e)' =>
              \/ Live(e) /\ entry'[e].user = entry[e].user
              \/ entry'[e].user \in users \/ "late" \in mark'[e]
    PROVE  NothingLeft'
BY DEF NothingLeft

LEMMA MarksGrow ==
    ASSUME TypeOK, NEW es, NEW m, Marked(es, m)
    PROVE  /\ \A e \in Entries : mark[e] \subseteq mark'[e]
           /\ \A e \in Entries : e \in es => m \in mark'[e]
BY DEF TypeOK, Marked

LEMMA NothingLeftNext ==
    ASSUME TypeOK, NothingLeft, [Next]_vars
    PROVE  NothingLeft'
<1>0. \A e \in Entries : entry[e] \in Row
  BY DEF TypeOK
\* Most steps insert nothing and take no account.
<1>1. ASSUME users \subseteq users', \A e \in Entries : mark[e] \subseteq mark'[e],
             \A e \in Entries : \/ entry'[e] = entry[e]
                                \/ entry'[e].st = "gone"
      PROVE  NothingLeft'
  BY <1>1, NothingLeftKept DEF Live
<1>2. ASSUME NEW p, DropProject(p), mark' = mark PROVE NothingLeft'
  <2>1. \A e \in Entries : entry'[e] = entry[e] \/ entry'[e].st = "gone"
    BY <1>0, <1>2 DEF DropProject, TypeOK, Row
  <2>2. users' = users
    BY <1>2 DEF DropProject
  <2>3. QED
    BY <1>1, <1>2, <2>1, <2>2
<1>3. ASSUME NEW c \in Callers, Request(c) PROVE NothingLeft'
  <2>1. ASSUME NEW e \in Entries, Forget(c, e) PROVE NothingLeft'
    <3>1. \A d \in Entries : entry'[d] = entry[d] \/ entry'[d].st = "gone"
      BY <1>0, <2>1 DEF Forget, TypeOK, Row
    <3>2. users' = users /\ mark' = mark
      BY <2>1 DEF Forget, rows, Same
    <3>3. QED
      BY <1>1, <3>1, <3>2
  <2>2. CASE \A e \in Entries : ~Forget(c, e)
    <3>1. entry' = entry /\ users' = users /\ mark' = mark
      BY <1>3, <2>2 DEF Request, Remember, DeleteProject, DeleteUser, Guard, rows, Same
    <3>2. QED
      BY <1>1, <3>1
  <2>3. QED
    BY <2>1, <2>2
<1>4. ASSUME NEW c \in Callers, Insert(c) PROVE NothingLeft'
  <2>1. /\ users' = users
        /\ \/ entry' = entry /\ mark' = mark
           \/ /\ entry' = [e \in Entries |-> IF e \in call[c].entry
                                             THEN [st |-> "live", user |-> call[c].user, in |-> call[c].in]
                                             ELSE entry[e]]
              /\ (call[c].user \in users /\ mark' = mark) \/ Marked(call[c].entry, "late")
    BY <1>4 DEF Insert, rows
  <2>2. CASE entry' = entry /\ mark' = mark
    BY <1>1, <2>1, <2>2
  <2>3. CASE entry' # entry \/ mark' # mark
    <3>1. \A e \in Entries : mark[e] \subseteq mark'[e]
      BY <2>1, <2>3, MarksGrow
    <3>2. ASSUME NEW e \in Entries
          PROVE  \/ entry'[e] = entry[e]
                 \/ entry'[e].user \in users \/ "late" \in mark'[e]
      BY <2>1, <2>3, MarksGrow
    <3>3. QED
      BY <2>1, <3>1, <3>2, NothingLeftKept DEF Live
  <2>4. QED
    BY <2>2, <2>3
<1>5. ASSUME NEW c \in Callers, Commit(c) PROVE NothingLeft'
  <2>1. CASE Owned(call[c].user) = {}
    <3>1. /\ users' = users \ {call[c].user} /\ mark' = mark
          /\ entry' = [e \in Entries |-> IF e \in Of(call[c].user)
                                         THEN [entry[e] EXCEPT !.st = "gone"] ELSE entry[e]]
      BY <1>5, <2>1 DEF Commit, EraseUser, DropUser
    <3>2. ASSUME NEW e \in Entries, Live(e)'
          PROVE  Live(e) /\ entry'[e] = entry[e] /\ entry[e].user # call[c].user
      <4>1. e \notin Of(call[c].user)
        BY <1>0, <3>1, <3>2 DEF Live, Row
      <4>2. entry'[e] = entry[e]
        BY <3>1, <4>1
      <4>3. QED
        BY <3>2, <4>1, <4>2 DEF Live, Of
    <3>3. ASSUME NEW e \in Entries, Live(e)'
          PROVE  entry'[e].user \in users' \/ mark'[e] \cap {"late", "kept"} # {}
      <4>1. entry[e].user \in users \/ mark[e] \cap {"late", "kept"} # {}
        BY <3>2, <3>3 DEF NothingLeft
      <4>2. entry'[e] = entry[e] /\ entry[e].user # call[c].user
        BY <3>2, <3>3
      <4>3. CASE entry[e].user \in users
        BY <3>1, <4>2, <4>3
      <4>4. CASE mark[e] \cap {"late", "kept"} # {}
        BY <3>1, <4>4
      <4>5. QED
        BY <4>1, <4>3, <4>4
    <3>4. QED
      BY <3>3 DEF NothingLeft
  <2>2. CASE Owned(call[c].user) # {}
    BY <1>1, <1>5, <2>2 DEF Commit, Refused, rows
  <2>3. QED
    BY <2>1, <2>2
<1>6. ASSUME NEW c \in Callers, RemoveUser(c) PROVE NothingLeft'
  <2>1. CASE Owned(call[c].user) = {}
    <3>1. /\ users' = users \ {call[c].user} /\ entry' = entry
          /\ Marked({e \in Of(call[c].user) : Live(e)}, "kept")
      BY <1>6, <2>1 DEF RemoveUser, DropUser
    <3>2. \A e \in Entries : /\ mark[e] \subseteq mark'[e]
                             /\ e \in Of(call[c].user) /\ Live(e) => "kept" \in mark'[e]
      BY <3>1, MarksGrow
    <3>3. ASSUME NEW e \in Entries, Live(e)'
          PROVE  entry'[e].user \in users' \/ mark'[e] \cap {"late", "kept"} # {}
      BY <3>1, <3>2, <3>3 DEF NothingLeft, Live, Of
    <3>4. QED
      BY <3>3 DEF NothingLeft
  <2>2. CASE Owned(call[c].user) # {}
    BY <1>1, <1>6, <2>2 DEF RemoveUser, rows
  <2>3. QED
    BY <2>1, <2>2
<1>7. ASSUME NEW c \in Callers, Continue(c), ~Insert(c), ~Commit(c), ~RemoveUser(c)
      PROVE  NothingLeft'
  <2>1. CASE \E p : DropProject(p) /\ mark' = mark
    BY <1>2, <2>1
  <2>2. CASE entry' = entry /\ users' = users /\ (mark' = mark \/ \E es, m : Marked(es, m))
    BY <1>1, <2>2, MarksGrow
  <2>3. QED
    BY <1>7, <2>1, <2>2 DEF Continue, Upsert, ColdForget, Park, ProjectRows, ColdProject,
       NextProject, LastProjectGone, ColdUser, Check, Demote, rows, Same
<1>8. ASSUME NEW c \in Callers, Failure(c) PROVE NothingLeft'
  <2>1. entry' = entry /\ users' = users /\ (mark' = mark \/ \E es, m : Marked(es, m))
    BY <1>8 DEF Failure, ColdForgetFails, ColdProjectFails, ColdUserFails, Abort, rows
  <2>2. QED
    BY <1>1, <2>1, MarksGrow
<1>9. CASE AtOnce \/ ReapOrphan \/ UNCHANGED vars
  <2>1. UNCHANGED <<entry, users, mark>>
    BY <1>9 DEF AtOnce, CreateProject, AddMember, RemoveMember, Promote, UpdateRole, ReapOrphan,
                rows, vars, Same
  <2>2. QED
    BY <1>1, <2>1
<1>10. QED
  BY <1>3, <1>4, <1>5, <1>6, <1>7, <1>8, <1>9 DEF Next

-----------------------------------------------------------------------------
(* Vectors. *)

\* Where the point of a deleted entry is accounted for, by c or by the reaper.
Accounts(c, e) == e \in parked \/ (c \in Callers /\ e \in Cleaning(c))

\* A step of c after which every point it might have lost is accounted for by c or the reaper.
LEMMA AccountedKept ==
    ASSUME TypeOK, TypeOK', VectorsAccounted, NEW c, \A d \in Callers \ {c} : call'[d] = call[d],
           \A e \in vec' : Gone(e)' /\ mark'[e] = {} =>
              /\ e \in vec /\ mark[e] = {} /\ (Gone(e) \/ Live(e))
              /\ entry'[e].user = entry[e].user /\ entry'[e].in = entry[e].in
              /\ Live(e) \/ Accounts(c, e) => Accounts(c, e)'
    PROVE  VectorsAccounted'
<1> SUFFICES ASSUME NEW e \in vec', Gone(e)', mark'[e] = {}
             PROVE  e \in parked' \/ \E d \in Callers : e \in Cleaning(d)'
  BY DEF VectorsAccounted
<1>1. CASE Live(e) \/ Accounts(c, e)
  BY <1>1 DEF Accounts
<1>2. CASE Gone(e) /\ ~Accounts(c, e)
  <2>1. e \in vec /\ e \in Entries /\ e \notin parked /\ mark[e] = {}
    BY <1>2 DEF Accounts, TypeOK
  <2>2. PICK d \in Callers : e \in Cleaning(d)
    BY <1>2, <2>1 DEF VectorsAccounted
  <2>3. d # c /\ call'[d] = call[d]
    BY <1>2, <2>2 DEF Accounts
  <2>4. e \in Cleaning(d)'
    BY <2>1, <2>2, <2>3 DEF Cleaning, In, Of, Gone
  <2>5. QED
    BY <2>4
<1>3. QED
  BY <1>1, <1>2

LEMMA AccountedQuiet ==
    ASSUME TypeOK, TypeOK', VectorsAccounted, NEW c, \A d \in Callers \ {c} : call'[d] = call[d],
           entry' = entry, vec' \subseteq vec, \A e \in Entries : mark[e] \subseteq mark'[e],
           \A e \in vec' : mark'[e] = {} /\ Accounts(c, e) => Accounts(c, e)'
    PROVE  VectorsAccounted'
BY AccountedKept DEF Gone, Live, TypeOK

\* The calls that clean up nothing.
LEMMA CleansNothing ==
    ASSUME NEW c, call[c] = Idle \/ call[c].pc \notin {"cold", "park", "sweep"}
    PROVE  Cleaning(c) = {}
BY DEF Cleaning

LEMMA OneCall ==
    ASSUME TypeOK, NEW c \in Callers, NEW o, call' = [call EXCEPT ![c] = o]
    PROVE  call'[c] = o /\ \A d \in Callers \ {c} : call'[d] = call[d]
BY DEF TypeOK

LEMMA AccountedRequest ==
    ASSUME TypeOK, TypeOK', VectorsAccounted, NEW c \in Callers, Request(c)
    PROVE  VectorsAccounted'
<1>1. call[c] = Idle /\ \E o : call' = [call EXCEPT ![c] = o]
  BY DEF Request, Remember, Forget, DeleteProject, DeleteUser, Guard, Begin
<1>2. Cleaning(c) = {} /\ \A d \in Callers \ {c} : call'[d] = call[d]
  BY <1>1, CleansNothing, OneCall
<1>3. ASSUME NEW e \in Entries, Forget(c, e) PROVE VectorsAccounted'
  <2>1. /\ entry' = [entry EXCEPT ![e].st = "gone"] /\ UNCHANGED <<vec, parked, mark>>
        /\ call'[c] # Idle /\ call'[c].job = "forget" /\ call'[c].pc = "cold"
        /\ call'[c].entry = {e}
    <3> DEFINE o == [job |-> "forget", pc |-> "cold", by |-> entry[e].user, user |-> entry[e].user,
                     in |-> entry[e].in, entry |-> {e}, todo |-> {}]
    <3>1. call' = [call EXCEPT ![c] = o] /\ o.job = "forget" /\ o.pc = "cold"
          /\ o.entry = {e} /\ o # Idle
      BY <1>3 DEF Forget, Begin, Idle
    <3> HIDE DEF o
    <3>2. call'[c] = o
      BY <3>1, OneCall
    <3>3. QED
      BY <1>3, <3>1, <3>2 DEF Forget, Same
  <2>2. e \in Cleaning(c)'
    BY <2>1 DEF Cleaning
  <2>3. \A d \in Entries \ {e} : entry'[d] = entry[d]
    BY <2>1 DEF TypeOK
  <2>4. entry'[e].user = entry[e].user /\ entry'[e].in = entry[e].in /\ Live(e)
    BY <1>3, <2>1 DEF Forget, TypeOK, Row
  <2>5. ASSUME NEW d \in vec', Gone(d)', mark'[d] = {}
        PROVE  /\ d \in vec /\ mark[d] = {} /\ (Gone(d) \/ Live(d))
               /\ entry'[d].user = entry[d].user /\ entry'[d].in = entry[d].in
               /\ Live(d) \/ Accounts(c, d) => Accounts(c, d)'
    <3>1. d \in Entries
      BY <2>5 DEF TypeOK
    <3>2. CASE d = e
      BY <2>1, <2>2, <2>4, <2>5, <3>2 DEF Accounts
    <3>3. CASE d # e
      BY <1>2, <2>1, <2>3, <2>5, <3>1, <3>3 DEF Accounts, Gone, Live
    <3>4. QED
      BY <3>2, <3>3
  <2>6. QED
    BY <1>2, <2>5, AccountedKept
<1>4. CASE \A e \in Entries : ~Forget(c, e)
  <2>1. UNCHANGED <<entry, vec, parked, mark>>
    BY <1>4 DEF Request, Remember, DeleteProject, DeleteUser, Guard, Same
  <2>2. QED
    BY <1>2, <2>1, AccountedQuiet DEF Accounts
<1>5. QED
  BY <1>3, <1>4

LEMMA AccountedRows ==
    ASSUME TypeOK, TypeOK', VectorsAccounted, NEW c \in Callers, NEW es, Cleaning(c) = {},
           \A d \in Callers \ {c} : call'[d] = call[d],
           es \subseteq {e \in Entries : entry[e].st # "new"},
           entry' = [e \in Entries |-> IF e \in es THEN [entry[e] EXCEPT !.st = "gone"] ELSE entry[e]],
           parked' = parked \ es, vec' = vec, mark' = mark, es \subseteq Cleaning(c)'
    PROVE  VectorsAccounted'
<1>1. ASSUME NEW e \in vec', Gone(e)', mark'[e] = {}
      PROVE  /\ e \in vec /\ mark[e] = {} /\ (Gone(e) \/ Live(e))
             /\ entry'[e].user = entry[e].user /\ entry'[e].in = entry[e].in
             /\ Live(e) \/ Accounts(c, e) => Accounts(c, e)'
  <2>1. e \in Entries /\ entry[e] \in Row
    BY <1>1 DEF TypeOK
  <2>2. CASE e \in es
    <3>1. entry'[e].user = entry[e].user /\ entry'[e].in = entry[e].in /\ entry[e].st \in {"live", "gone"}
      BY <2>1, <2>2 DEF Row
    <3>2. QED
      BY <1>1, <2>2, <3>1 DEF Accounts, Gone, Live
  <2>3. CASE e \notin es
    BY <1>1, <2>1, <2>3 DEF Accounts, Gone, Live
  <2>4. QED
    BY <2>2, <2>3
<1>2. QED
  BY <1>1, AccountedKept

LEMMA AccountedContinue ==
    ASSUME TypeOK, TypeOK', VectorsAccounted, NEW c \in Callers, Continue(c) \/ Failure(c)
    PROVE  VectorsAccounted'
<1>0. call[c] # Idle => call[c] \in Call
  BY DEF TypeOK
<1>a. \A d \in Callers \ {c} : call'[d] = call[d]
  <2>1. \E o : call' = [call EXCEPT ![c] = o]
    BY DEF Continue, Failure, Insert, Upsert, ColdForget, Park, ProjectRows, ColdProject,
        NextProject,
       LastProjectGone, Commit, EraseUser, Refused, ColdUser, Check, Demote, RemoveUser,
       ColdForgetFails, ColdProjectFails, ColdUserFails, Abort, Goto, Finish, ProjectDone
  <2>2. QED
    BY <2>1, OneCall
<1>b. ASSUME NEW pc, Goto(c, pc), call[c] # Idle
      PROVE  /\ call'[c] = [call[c] EXCEPT !.pc = pc] /\ call'[c] # Idle
             /\ call'[c].pc = pc /\ call'[c].job = call[c].job /\ call'[c].user = call[c].user
             /\ call'[c].in = call[c].in /\ call'[c].entry = call[c].entry
  <2>1. call' = [call EXCEPT ![c] = [call[c] EXCEPT !.pc = pc]] /\ call[c] \in Call
    BY <1>0, <1>b DEF Goto
  <2>2. call'[c] = [call[c] EXCEPT !.pc = pc]
    BY <2>1, OneCall
  <2>3. QED
    BY <2>1, <2>2 DEF Call, Idle
\* Nothing is cleaned up, and no row, point or mark goes.
<1>1. ASSUME Cleaning(c) = {}, UNCHANGED <<entry, vec, parked>>,
             \A e \in Entries : mark[e] \subseteq mark'[e]
      PROVE  VectorsAccounted'
  BY <1>a, <1>1, AccountedQuiet DEF Accounts
<1>2. CASE LastProjectGone(c) \/ Check(c) \/ Demote(c) \/ RemoveUser(c)
  <2>1. Cleaning(c) = {}
    BY <1>2, CleansNothing DEF LastProjectGone, Check, Demote, RemoveUser, At
  <2>2. UNCHANGED <<entry, vec, parked>> /\ (mark' = mark \/ \E es : Marked(es, "kept"))
    BY <1>2 DEF LastProjectGone, Check, Demote, RemoveUser, Same
  <2>3. QED
    BY <1>1, <2>1, <2>2, MarksGrow
<1>3. CASE Insert(c)
  <2>1. Cleaning(c) = {} /\ UNCHANGED <<vec, parked>>
    BY <1>3, CleansNothing DEF Insert, At
  <2>2. \A e \in Entries : mark[e] \subseteq mark'[e]
    BY <1>3, MarksGrow DEF Insert
  <2>3. \A e \in Entries : Gone(e)' => entry'[e] = entry[e]
    BY <1>3 DEF Insert, Gone
  <2>4. ASSUME NEW e \in vec', Gone(e)', mark'[e] = {}
        PROVE  /\ e \in vec /\ mark[e] = {} /\ (Gone(e) \/ Live(e))
               /\ entry'[e].user = entry[e].user /\ entry'[e].in = entry[e].in
               /\ Live(e) \/ Accounts(c, e) => Accounts(c, e)'
    BY <2>1, <2>2, <2>3, <2>4 DEF TypeOK, Gone, Live, Accounts
  <2>5. QED
    BY <1>a, <2>4, AccountedKept
<1>4. CASE Upsert(c)
  <2>1. Cleaning(c) = {} /\ UNCHANGED <<entry, parked>> /\ vec' = vec \cup call[c].entry
    BY <1>4, CleansNothing DEF Upsert, At
  <2>2. \A e \in Entries : /\ mark[e] \subseteq mark'[e]
                           /\ e \in call[c].entry /\ Gone(e) => mark'[e] # {}
    BY <1>4, MarksGrow DEF Upsert
  <2>3. ASSUME NEW e \in vec', Gone(e)', mark'[e] = {}
        PROVE  /\ e \in vec /\ mark[e] = {} /\ (Gone(e) \/ Live(e))
               /\ entry'[e].user = entry[e].user /\ entry'[e].in = entry[e].in
               /\ Live(e) \/ Accounts(c, e) => Accounts(c, e)'
    BY <2>1, <2>2, <2>3 DEF TypeOK, Gone, Live, Accounts
  <2>4. QED
    BY <1>a, <2>3, AccountedKept
<1>5. CASE ColdForget(c) \/ ColdForgetFails(c) \/ Park(c)
  <2>1. /\ call[c] # Idle /\ call[c].job = "forget" /\ Cleaning(c) = call[c].entry
        /\ UNCHANGED <<entry, mark>>
    <3>1. /\ call[c] # Idle /\ call[c].job = "forget" /\ call[c].pc \in {"cold", "park"}
          /\ UNCHANGED <<entry, mark>>
      BY <1>5 DEF ColdForget, ColdForgetFails, Park, At, Same
    <3>2. call[c].entry \subseteq Entries
      BY <1>0, <3>1 DEF Call
    <3>3. QED
      BY <3>1, <3>2 DEF Cleaning
  <2>2. CASE ColdForget(c)
    BY <1>a, <2>1, <2>2, AccountedQuiet DEF ColdForget, Accounts
  <2>3. CASE ColdForgetFails(c)
    <3>1. Cleaning(c)' = call[c].entry
      <4>1. Goto(c, "park") /\ call[c].entry \subseteq Entries
        BY <1>0, <2>1, <2>3 DEF ColdForgetFails, Call
      <4>2. /\ call'[c] # Idle /\ call'[c].job = "forget" /\ call'[c].pc = "park"
            /\ call'[c].entry = call[c].entry
        BY <1>b, <2>1, <4>1
      <4>3. QED
        BY <4>1, <4>2 DEF Cleaning
    <3>2. QED
      BY <1>a, <2>1, <2>3, <3>1, AccountedQuiet DEF ColdForgetFails, Accounts
  <2>4. CASE Park(c)
    BY <1>a, <2>1, <2>4, AccountedQuiet DEF Park, Accounts
  <2>5. QED
    BY <1>5, <2>2, <2>3, <2>4
<1>6. CASE ColdProject(c) \/ ColdProjectFails(c)
  <2>1. Cleaning(c) = In(call[c].in) /\ UNCHANGED <<entry, parked>>
    <3>1. /\ call[c] # Idle /\ call[c].job # "forget" /\ call[c].pc = "cold"
          /\ UNCHANGED <<entry, parked>>
      BY <1>6 DEF ColdProject, ColdProjectFails
    <3>2. QED
      BY <3>1 DEF Cleaning, In
  <2>2. CASE ColdProject(c)
    BY <1>a, <2>1, <2>2, AccountedQuiet DEF ColdProject, Accounts, Same
  <2>3. CASE ColdProjectFails(c)
    <3>1. /\ vec' = vec /\ \A e \in Entries : mark[e] \subseteq mark'[e]
          /\ \A e \in Cleaning(c) : mark'[e] # {}
      BY <2>1, <2>3, MarksGrow DEF ColdProjectFails, In
    <3>2. QED
      BY <1>a, <2>1, <3>1, AccountedQuiet DEF Accounts
  <2>4. QED
    BY <1>6, <2>2, <2>3
<1>7. CASE ColdUser(c) \/ ColdUserFails(c)
  <2>1. Cleaning(c) = Of(call[c].user) /\ UNCHANGED <<entry, parked>>
    <3>1. /\ call[c] # Idle /\ call[c].job # "forget" /\ call[c].pc = "sweep"
          /\ UNCHANGED <<entry, parked>>
      BY <1>7 DEF ColdUser, ColdUserFails, At
    <3>2. QED
      BY <3>1 DEF Cleaning, Of
  <2>2. /\ vec' \subseteq vec /\ \A e \in Entries : mark[e] \subseteq mark'[e]
        /\ \A e \in Cleaning(c) \cap vec' : mark'[e] # {}
    <3>1. CASE ColdUser(c)
      BY <2>1, <3>1, MarksGrow DEF ColdUser, Of
    <3>2. CASE ColdUserFails(c)
      BY <2>1, <3>2, MarksGrow DEF ColdUserFails, Of
    <3>3. QED
      BY <1>7, <3>1, <3>2
  <2>3. QED
    BY <1>a, <2>1, <2>2, AccountedQuiet DEF Accounts
<1>8. CASE Abort(c)
  <2>1. UNCHANGED <<entry, vec, parked>> /\ Marked(Cleaning(c), "failed")
    BY <1>8 DEF Abort
  <2>2. /\ \A e \in Entries : mark[e] \subseteq mark'[e]
        /\ \A e \in Cleaning(c) \cap Entries : mark'[e] # {}
    BY <2>1, MarksGrow
  <2>3. QED
    BY <1>a, <2>1, <2>2, AccountedQuiet DEF Accounts, TypeOK
<1>9. ASSUME NEW p, DropProject(p), Cleaning(c) = {}, vec' = vec, mark' = mark, Cleaning(c)' = In(p)'
      PROVE  VectorsAccounted'
  <2>1. In(p) \subseteq {e \in Entries : entry[e].st # "new"}
    BY DEF In
  <2>2. In(p) \subseteq In(p)'
    BY <1>9 DEF DropProject, In, TypeOK, Row
  <2>3. /\ entry' = [e \in Entries |-> IF e \in In(p) THEN [entry[e] EXCEPT !.st = "gone"] ELSE entry[e]]
        /\ parked' = parked \ In(p)
    BY <1>9 DEF DropProject
  <2>4. QED
    BY <1>9, <1>a, <2>1, <2>2, <2>3, AccountedRows
<1>10. CASE ProjectRows(c)
  <2>1. Cleaning(c) = {} /\ vec' = vec /\ mark' = mark
    BY <1>10, CleansNothing DEF ProjectRows, At, Same
  <2>2. CASE owner[call[c].in] = Nobody
    BY <1>1, <1>10, <2>1, <2>2 DEF ProjectRows
  <2>3. CASE owner[call[c].in] # Nobody
    <3>1. PICK p : p = call[c].in
      OBVIOUS
    <3>2. /\ call[c] # Idle /\ call[c].job = "deleteProject" /\ DropProject(p) /\ Goto(c, "cold")
      BY <1>10, <2>3, <3>1 DEF ProjectRows, At
    <3>3. call'[c] # Idle /\ call'[c].job = "deleteProject" /\ call'[c].pc = "cold" /\ call'[c].in = p
      BY <1>b, <3>1, <3>2
    <3>4. Cleaning(c)' = In(p)'
      BY <3>3 DEF Cleaning, In
    <3>5. QED
      BY <1>9, <2>1, <3>2, <3>4
  <2>4. QED
    BY <2>2, <2>3
<1>11. ASSUME NEW p \in Projects, NextProject(c, p) PROVE VectorsAccounted'
  <2>1. Cleaning(c) = {} /\ vec' = vec /\ mark' = mark
    BY <1>11, CleansNothing DEF NextProject, At, Same
  <2>2. CASE owner[p] = Nobody
    BY <1>1, <1>11, <2>1, <2>2 DEF NextProject
  <2>3. CASE owner[p] # Nobody
    <3> DEFINE o == [call[c] EXCEPT !.todo = @ \ {p}, !.in = p, !.pc = "cold"]
    <3>1. /\ call[c] \in Call /\ call[c].job = "deleteUser" /\ DropProject(p)
          /\ call' = [call EXCEPT ![c] = o]
      BY <1>0, <1>11, <2>3 DEF NextProject, At
    <3>2. o # Idle /\ o.job = "deleteUser" /\ o.pc = "cold" /\ o.in = p
      BY <3>1 DEF Call, Idle
    <3> HIDE DEF o
    <3>3. call'[c] = o
      BY <3>1, OneCall
    <3>4. Cleaning(c)' = In(p)'
      BY <3>2, <3>3 DEF Cleaning, In
    <3>5. QED
      BY <1>9, <2>1, <3>1, <3>4
  <2>4. QED
    BY <2>2, <2>3
<1>12. CASE Commit(c)
  <2>1. Cleaning(c) = {} /\ vec' = vec /\ mark' = mark
    BY <1>12, CleansNothing DEF Commit, At
  <2>2. CASE Owned(call[c].user) # {}
    BY <1>1, <1>12, <2>1, <2>2 DEF Commit, Refused
  <2>3. CASE Owned(call[c].user) = {}
    <3>1. PICK u : u = call[c].user
      OBVIOUS
    <3>2. /\ call[c] # Idle /\ call[c].job = "deleteUser" /\ Goto(c, "sweep")
          /\ entry' = [e \in Entries |-> IF e \in Of(u) THEN [entry[e] EXCEPT !.st = "gone"] ELSE entry[e]]
          /\ parked' = parked \ Of(u)
      BY <1>12, <2>3, <3>1 DEF Commit, EraseUser, At
    <3>3. call'[c] # Idle /\ call'[c].job = "deleteUser" /\ call'[c].pc = "sweep" /\ call'[c].user = u
      BY <1>b, <3>1, <3>2
    <3>4. Cleaning(c)' = Of(u)'
      BY <3>3 DEF Cleaning, Of
    <3>5. Of(u) \subseteq {e \in Entries : entry[e].st # "new"}
      BY DEF Of
    <3>6. Of(u) \subseteq Of(u)'
      BY <3>2 DEF Of, TypeOK, Row
    <3>7. QED
      BY <1>a, <2>1, <3>2, <3>4, <3>5, <3>6, AccountedRows
  <2>4. QED
    BY <2>2, <2>3
<1>13. QED
  BY <1>2, <1>3, <1>4, <1>5, <1>6, <1>7, <1>8, <1>10, <1>11, <1>12 DEF Continue, Failure

LEMMA AccountedNext ==
    ASSUME TypeOK, TypeOK', VectorsAccounted, [Next]_vars
    PROVE  VectorsAccounted'
<1>1. CASE AtOnce \/ ReapOrphan \/ UNCHANGED vars
  <2>1. UNCHANGED <<entry, call, mark>>
    BY <1>1 DEF AtOnce, CreateProject, AddMember, RemoveMember, Promote, UpdateRole, ReapOrphan,
                rows, vars, Same
  <2>2. vec' \subseteq vec /\ \A e \in vec' : e \in parked => e \in parked'
    BY <1>1
    DEF AtOnce, CreateProject, AddMember, RemoveMember, Promote, UpdateRole, ReapOrphan, vars
  <2>3. PICK c : TRUE
    OBVIOUS
  <2>4. Cleaning(c)' = Cleaning(c)
    BY <2>1 DEF Cleaning, In, Of
  <2>5. QED
    BY <2>1, <2>2, <2>4, AccountedQuiet DEF Accounts
<1>2. QED
  BY <1>1, AccountedRequest, AccountedContinue DEF Next

-----------------------------------------------------------------------------
\* The inductive invariant.
TInv ==
    /\ TypeOK
    /\ OwnerStays
    /\ TakersLeaveOne /\ AdminRemains
    /\ NothingLeft
    /\ VectorsAccounted

\* For every constant: accounts, projects, entries, vectors and the requests under way fit together in
\* every reachable state.
THEOREM TeardownCorrect == Spec => []TInv
<1>1. Init => TInv
  BY TypeInit, OwnersInit, AdminsInit, EntriesInit DEF TInv
<1>2. TInv /\ [Next]_vars => TInv'
  <2> SUFFICES ASSUME TInv, [Next]_vars PROVE TInv'
    OBVIOUS
  <2>1. TypeOK'
    BY TypeNext DEF TInv
  <2>2. OwnerStays'
    BY OwnersNext DEF TInv
  <2>3. TakersLeaveOne' /\ AdminRemains'
    BY AdminsNext DEF TInv
  <2>4. NothingLeft'
    BY NothingLeftNext DEF TInv
  <2>5. VectorsAccounted'
    BY <2>1, AccountedNext DEF TInv
  <2>6. QED
    BY <2>1, <2>2, <2>3, <2>4, <2>5 DEF TInv
<1>3. QED
  BY <1>1, <1>2, PTL DEF Spec

\* Through every order of forgets and teardowns the point of a deleted entry is parked or in the hands
\* of a cleanup, save for the marked accidents: DeleteProject, DeleteUserData, the orphan reaper.
THEOREM EveryVectorIsAccounted == Spec => []VectorsAccounted
<1>1. TInv => VectorsAccounted
  BY DEF TInv
<1>2. QED
  BY <1>1, TeardownCorrect, PTL

\* A deleted user leaves no memory behind in any project: DeleteUserData, DeleteBAUser.
THEOREM NothingOfTheUserIsLeft == Spec => []NothingLeft
<1>1. TInv => NothingLeft
  BY DEF TInv
<1>2. QED
  BY <1>1, TeardownCorrect, PTL

\* Projects keep their owners and the deployment an administrator: the foreign keys of migration 0016,
\* guardLastAdmin.
THEOREM SomebodyIsInCharge == Spec => []Governed
<1>1. TInv => Governed
  BY DEF TInv, Governed
<1>2. QED
  BY <1>1, TeardownCorrect, PTL

=============================================================================
