------------------------------ MODULE Teardown ------------------------------
(***************************************************************************)
(* Users, projects and what is left when one of them goes.  Deleting a     *)
(* user deletes the projects they own one by one (the rows in a            *)
(* transaction, then the vectors in the cold store), then their other rows *)
(* in one transaction, then their other vectors.  Meanwhile requests that  *)
(* were let in before the deletion still insert rows and write vectors,    *)
(* and other administrators change roles or delete users of their own.     *)
(*                                                                         *)
(* A row is deleted with the parked orphans of its owner, so what the cold *)
(* cleanup then leaves is nobody's.  The foreign keys of migration 0016    *)
(* decide what a late statement can still do: a project needs its owner, a *)
(* membership needs both ends, an entry needs its project, and nothing     *)
(* makes an entry need its user.                                           *)
(***************************************************************************)
EXTENDS Naturals, FiniteSets

CONSTANTS
    Users,          \* accounts there are at the start
    Admins,         \* those of role admin
    Projects,       \* project ids, never reused
    Entries,        \* entry ids, never reused
    Callers,        \* request handlers
    Providers,      \* cold stores the run considers
    Nobody,         \* owner of a project that is not there
    Global,         \* the scope of an entry outside any project
    MaxMoves,       \* bound: changes of a role or a membership that are asked for
    MaxFaults       \* bound: failed cold calls and dead handlers

ASSUME TeardownAssumption ==
    /\ Admins \subseteq Users /\ Admins # {}
    /\ Nobody \notin Users
    /\ Global \notin Projects
    /\ Providers \subseteq {"pgvector", "qdrant"}
    /\ MaxMoves \in Nat
    /\ MaxFaults \in Nat

VARIABLES
    users,      \* rows of "user"
    admins,     \* those WHERE role = 'admin'
    owner,      \* projects.owner_user_id
    used,       \* project ids handed out so far
    members,    \* project_members
    entry,      \* memory_entries: status, user and scope
    vec,        \* entries with a point in the cold store
    parked,     \* cold_orphans of kind 'delete'
    call,       \* what each handler is at
    store,      \* COLD_PROVIDER
    past,       \* history: accidents (see Accidents)
    mark,       \* history: accidents of an entry (see Marks)
    moves, faults

rows == <<users, admins, owner, used, members>>
vars == <<users, admins, owner, used, members, entry, vec, parked, call, store,
          past, mark, moves, faults>>

(***************************************************************************)
(*   raced       two calls that each take an administrator away were both  *)
(*               past their check                                          *)
(*   unguarded   update-user took the role away: it has no such check      *)
(***************************************************************************)
Accidents == {"raced", "unguarded"}

(***************************************************************************)
(*   late      its row or its vector was written after the deletion        *)
(*   failed    a cleanup of its scope failed, or its handler died          *)
(*   alien     written into another's project; Qdrant drops by owner       *)
(*   kept      remove-user takes the account and leaves the memories       *)
(***************************************************************************)
Marks == {"late", "failed", "alien", "kept"}

Scopes == Projects \cup {Global}
Jobs == {"remember", "forget", "deleteProject", "deleteUser", "setRole", "removeUser"}
Steps == {"insert", "upsert", "cold", "park", "rows", "list", "commit", "sweep",
          "check", "write"}

Idle == [pc |-> "idle"]
Row == [st : {"new", "live", "gone"}, user : Users \cup {Nobody}, in : Scopes]
Call == [job : Jobs, pc : Steps, by : Users, user : Users, in : Scopes,
         entry : SUBSET Entries, todo : SUBSET Projects]

TypeOK ==
    /\ users \subseteq Users
    /\ admins \subseteq users
    /\ owner \in [Projects -> Users \cup {Nobody}]
    /\ used \subseteq Projects
    /\ members \subseteq Projects \X Users
    /\ entry \in [Entries -> Row]
    /\ vec \subseteq Entries
    /\ parked \subseteq Entries
    /\ call \in [Callers -> Call \cup {Idle}]
    /\ store \in Providers
    /\ past \subseteq Accidents
    /\ mark \in [Entries -> SUBSET Marks]
    /\ moves \in Nat
    /\ faults \in Nat

Live(e) == entry[e].st = "live"
Gone(e) == entry[e].st = "gone"
Owns(u, p) == owner[p] = u
Owned(u) == {p \in Projects : Owns(u, p)}
In(p) == {e \in Entries : entry[e].st # "new" /\ entry[e].in = p}
Of(u) == {e \in Entries : entry[e].st # "new" /\ entry[e].user = u}
At(c, job, pc) == call[c] # Idle /\ call[c].job = job /\ call[c].pc = pc

Init ==
    /\ users = Users
    /\ admins = Admins
    /\ owner = [p \in Projects |-> Nobody]
    /\ used = {}
    /\ members = {}
    /\ entry = [e \in Entries |-> [st |-> "new", user |-> Nobody, in |-> Global]]
    /\ vec = {}
    /\ parked = {}
    /\ call = [c \in Callers |-> Idle]
    /\ store \in Providers
    /\ past = {}
    /\ mark = [e \in Entries |-> {}]
    /\ moves = 0
    /\ faults = 0

-----------------------------------------------------------------------------
Begin(c, job, pc, by, user, in, es) ==
    /\ call[c] = Idle
    /\ call' = [call EXCEPT ![c] = [job |-> job, pc |-> pc, by |-> by, user |-> user,
                                    in |-> in, entry |-> es, todo |-> {}]]
Goto(c, pc) == call' = [call EXCEPT ![c].pc = pc]
Finish(c) == call' = [call EXCEPT ![c] = Idle]
Fail == faults < MaxFaults /\ faults' = faults + 1
Marked(es, m) == mark' = [e \in Entries |-> IF e \in es THEN mark[e] \cup {m} ELSE mark[e]]
Move == moves < MaxMoves /\ moves' = moves + 1
Same == UNCHANGED <<past, mark, moves, faults>>

-----------------------------------------------------------------------------
(* The data plane. *)

\* The session or bearer resolves, and checkProjectAccess finds the membership.
Remember(c, u, in, e) ==
    /\ u \in users
    /\ in = Global \/ <<in, u>> \in members
    /\ entry[e].st = "new"
    /\ \A d \in Callers : call[d] # Idle => e \notin call[d].entry
    /\ Begin(c, "remember", "insert", u, u, in, {e})
    /\ UNCHANGED <<rows, entry, vec, parked, store>> /\ Same

\* InsertEntry: the project must be there still, the user need not.
Insert(c) ==
    LET u == call[c].user
        p == call[c].in
    IN  /\ At(c, "remember", "insert")
        /\ IF p = Global \/ owner[p] # Nobody
           THEN /\ entry' = [e \in Entries |-> IF e \in call[c].entry
                                               THEN [st |-> "live", user |-> u, in |-> p]
                                               ELSE entry[e]]
                /\ IF u \in users THEN UNCHANGED mark ELSE Marked(call[c].entry, "late")
                /\ Goto(c, "upsert")
           ELSE UNCHANGED <<entry, mark>> /\ Finish(c)
        /\ UNCHANGED <<rows, vec, parked, store, past, moves, faults>>

Upsert(c) ==
    /\ At(c, "remember", "upsert")
    /\ vec' = vec \cup call[c].entry
    /\ Marked({e \in call[c].entry : Gone(e)}, "late")
    /\ Finish(c)
    /\ UNCHANGED <<rows, entry, parked, store, past, moves, faults>>

\* Forget: GetEntry and DeleteEntry, then the vector.
Forget(c, e) ==
    /\ Live(e) /\ entry[e].user \in users
    /\ entry' = [entry EXCEPT ![e].st = "gone"]
    /\ Begin(c, "forget", "cold", entry[e].user, entry[e].user, entry[e].in, {e})
    /\ UNCHANGED <<rows, vec, parked, store>> /\ Same

ColdForget(c) ==
    /\ At(c, "forget", "cold")
    /\ vec' = vec \ call[c].entry
    /\ Finish(c)
    /\ UNCHANGED <<rows, entry, parked, store>> /\ Same

ColdForgetFails(c) ==
    /\ At(c, "forget", "cold")
    /\ Fail
    /\ Goto(c, "park")
    /\ UNCHANGED <<rows, entry, vec, parked, store, past, mark, moves>>

\* RecordColdOrphan, without a look at whether user or project are still there.
Park(c) ==
    /\ At(c, "forget", "park")
    /\ parked' = parked \cup call[c].entry
    /\ Finish(c)
    /\ UNCHANGED <<rows, entry, vec, store>> /\ Same

\* ReapOrphans settles one parked point.
ReapOrphan ==
    /\ \E e \in parked : parked' = parked \ {e} /\ vec' = vec \ {e}
    /\ UNCHANGED <<rows, entry, call, store>> /\ Same

-----------------------------------------------------------------------------
(* Projects. *)

\* CreateProject: the project and its owner's membership in one transaction.
CreateProject(u, p) ==
    /\ u \in users /\ p \notin used
    /\ used' = used \cup {p}
    /\ owner' = [owner EXCEPT ![p] = u]
    /\ members' = members \cup {<<p, u>>}
    /\ UNCHANGED <<users, admins, entry, vec, parked, call, store>> /\ Same

\* AddProjectMember by the owner.
AddMember(p, v) ==
    /\ owner[p] # Nobody /\ v \in users
    /\ members' = members \cup {<<p, v>>}
    /\ UNCHANGED <<users, admins, owner, used, entry, vec, parked, call, store>>
    /\ Move /\ UNCHANGED <<past, mark, faults>>

\* "owner cannot leave; delete the project instead"
RemoveMember(p, v) ==
    /\ <<p, v>> \in members /\ v # owner[p]
    /\ members' = members \ {<<p, v>>}
    /\ UNCHANGED <<users, admins, owner, used, entry, vec, parked, call, store>>
    /\ Move /\ UNCHANGED <<past, mark, faults>>

\* The rows of a project, its parked orphans among them, go in one transaction.
DropProject(p) ==
    /\ owner' = [owner EXCEPT ![p] = Nobody]
    /\ members' = {m \in members : m[1] # p}
    /\ entry' = [e \in Entries |-> IF e \in In(p) THEN [entry[e] EXCEPT !.st = "gone"]
                                                  ELSE entry[e]]
    /\ parked' = parked \ In(p)
    /\ UNCHANGED <<users, admins, used>>

\* The owner's request; the project is theirs for as long as it is there.
DeleteProject(c, p) ==
    /\ owner[p] # Nobody
    /\ Begin(c, "deleteProject", "rows", owner[p], owner[p], p, {})
    /\ UNCHANGED <<rows, entry, vec, parked, store>> /\ Same

ProjectRows(c) ==
    /\ At(c, "deleteProject", "rows")
    /\ IF owner[call[c].in] = Nobody
       THEN UNCHANGED <<rows, entry, parked>> /\ Finish(c)
       ELSE DropProject(call[c].in) /\ Goto(c, "cold")
    /\ UNCHANGED <<vec, store>> /\ Same

\* Back from one project: the request is over, or the user's next project follows.
ProjectDone(c) == IF call[c].job = "deleteUser" THEN Goto(c, "list") ELSE Finish(c)

\* Mutant: the cold cleanup of the projects is left to the one of the user.
ColdProjectSkipped(c) ==
    /\ call[c] # Idle /\ call[c].job \in {"deleteProject", "deleteUser"} /\ call[c].pc = "cold"
    /\ IF call[c].job = "deleteUser" THEN UNCHANGED vec ELSE vec' = vec \ In(call[c].in)
    /\ ProjectDone(c)
    /\ UNCHANGED <<rows, entry, parked, store>> /\ Same

\* DeleteAllForProject reaches every point of the project, whoever wrote it.
ColdProject(c) ==
    /\ call[c] # Idle /\ call[c].job \in {"deleteProject", "deleteUser"} /\ call[c].pc = "cold"
    /\ vec' = vec \ In(call[c].in)
    /\ ProjectDone(c)
    /\ UNCHANGED <<rows, entry, parked, store>> /\ Same

\* Logged and not fatal; Qdrant drops some collections and skips others.
ColdProjectFails(c) ==
    /\ call[c] # Idle /\ call[c].job \in {"deleteProject", "deleteUser"} /\ call[c].pc = "cold"
    /\ Fail
    /\ Marked(In(call[c].in), "failed")
    /\ ProjectDone(c)
    /\ UNCHANGED <<rows, entry, vec, parked, store, past, moves>>

-----------------------------------------------------------------------------
(* Users. *)

\* A call that is about to take the role or the account of an administrator away.
Taking(c) ==
    /\ call[c] # Idle /\ call[c].user \in admins
    /\ \/ call[c].job \in {"setRole", "removeUser"}
       \/ call[c].job = "deleteUser" /\ call[c].pc # "sweep"

Lose(c, b) ==
    past' = IF b \in admins /\ \E d \in Callers \ {c} : Taking(d) /\ call[d].user # b
            THEN past \cup {"raced"} ELSE past

\* handleAdminUserDelete refuses only the caller; then ListOwnedProjects.
DeleteUser(c, a, u) ==
    /\ call[c] = Idle
    /\ a \in admins /\ u \in users /\ a # u
    /\ call' = [call EXCEPT ![c] = [job |-> "deleteUser", pc |-> "list", by |-> a, user |-> u,
                                    in |-> Global, entry |-> {}, todo |-> Owned(u)]]
    /\ UNCHANGED <<rows, entry, vec, parked, store>> /\ Same

NextProject(c, p) ==
    /\ At(c, "deleteUser", "list") /\ p \in call[c].todo
    /\ IF owner[p] = Nobody
       THEN UNCHANGED <<rows, entry, parked>>
            /\ call' = [call EXCEPT ![c].todo = @ \ {p}]
       ELSE DropProject(p)
            /\ call' = [call EXCEPT ![c].todo = @ \ {p}, ![c].in = p, ![c].pc = "cold"]
    /\ UNCHANGED <<vec, store>> /\ Same

\* DeleteUserData looks for projects once more, before its transaction: "user still owns".
LastProjectGone(c) ==
    /\ At(c, "deleteUser", "list") /\ call[c].todo = {}
    /\ IF Owned(call[c].user) = {} THEN Goto(c, "commit") ELSE Finish(c)
    /\ UNCHANGED <<rows, entry, vec, parked, store>> /\ Same

\* DELETE FROM "user" with what cascades from it; RESTRICT protects the owner of a project.
DropUser(u) ==
    /\ users' = users \ {u}
    /\ admins' = admins \ {u}
    /\ members' = {m \in members : m[2] # u}
    /\ UNCHANGED <<owner, used>>

\* The account goes, the entries es with their rows, and every parked row of the user.
EraseUser(c, es) ==
    /\ DropUser(call[c].user)
    /\ Lose(c, call[c].user)
    /\ entry' = [e \in Entries |-> IF e \in es THEN [entry[e] EXCEPT !.st = "gone"] ELSE entry[e]]
    /\ parked' = parked \ Of(call[c].user)
    /\ Goto(c, "sweep")

Refused(c) == UNCHANGED <<rows, entry, parked, past>> /\ Finish(c)

\* Mutant: the entries the user wrote into projects are left to their projects.
CommitGlobalOnly(c) ==
    /\ At(c, "deleteUser", "commit")
    /\ IF Owned(call[c].user) = {}
       THEN EraseUser(c, {e \in Of(call[c].user) : entry[e].in = Global}) ELSE Refused(c)
    /\ UNCHANGED <<vec, store, mark, moves, faults>>

\* Mutant: no foreign key; the check before the transaction is trusted.
CommitUnrestricted(c) ==
    /\ At(c, "deleteUser", "commit")
    /\ EraseUser(c, Of(call[c].user))
    /\ UNCHANGED <<vec, store, mark, moves, faults>>

\* The transaction of DeleteUserData.  It parks the vectors the user wrote into projects
\* of others, and then deletes every parked row of the user, those among them.
Commit(c) ==
    /\ At(c, "deleteUser", "commit")
    /\ IF Owned(call[c].user) = {} THEN EraseUser(c, Of(call[c].user)) ELSE Refused(c)
    /\ UNCHANGED <<vec, store, mark, moves, faults>>

\* DeleteAllForUser: pgvector by the user of the row, Qdrant the user's own collections.
Reach(u) == {e \in Of(u) : store = "pgvector" \/ entry[e].in = Global}

ColdUser(c) ==
    /\ At(c, "deleteUser", "sweep")
    /\ vec' = vec \ Reach(call[c].user)
    /\ Marked(Of(call[c].user) \ Reach(call[c].user), "alien")
    /\ Finish(c)
    /\ UNCHANGED <<rows, entry, parked, store, past, moves, faults>>

\* Reported in the answer, and that is all.
ColdUserFails(c) ==
    /\ At(c, "deleteUser", "sweep")
    /\ Fail
    /\ Marked(Of(call[c].user), "failed")
    /\ Finish(c)
    /\ UNCHANGED <<rows, entry, vec, parked, store, past, moves>>

-----------------------------------------------------------------------------
(* Administrators. *)

CountAdminsExcept(b) == Cardinality(admins \ {b})

\* guardLastAdmin comes before the session is even looked at.
Guard(c, job, a, b) ==
    /\ job \in {"setRole", "removeUser"}
    /\ CountAdminsExcept(b) > 0
    /\ Begin(c, job, "check", a, b, Global, {})
    /\ UNCHANGED <<rows, entry, vec, parked, store>>
    /\ Move /\ UNCHANGED <<past, mark, faults>>

\* baAdmin, then GetBAUser; nobody removes themselves.
Check(c) ==
    /\ call[c] # Idle /\ call[c].pc = "check"
    /\ IF /\ call[c].by \in admins /\ call[c].user \in users
          /\ call[c].job = "removeUser" => call[c].by # call[c].user
       THEN Goto(c, "write") ELSE Finish(c)
    /\ UNCHANGED <<rows, entry, vec, parked, store>> /\ Same

Demote(c) ==
    /\ At(c, "setRole", "write")
    /\ admins' = admins \ {call[c].user}
    /\ Lose(c, call[c].user)
    /\ Finish(c)
    /\ UNCHANGED <<users, owner, used, members, entry, vec, parked, store, mark, moves, faults>>

\* DeleteBAUser: fails on the owner of a project, keeps memories.
RemoveUser(c) ==
    LET u == call[c].user
    IN  /\ At(c, "removeUser", "write")
        /\ IF Owned(u) = {}
           THEN DropUser(u) /\ Lose(c, u) /\ Marked({e \in Of(u) : Live(e)}, "kept")
           ELSE UNCHANGED <<rows, past, mark>>
        /\ Finish(c)
        /\ UNCHANGED <<entry, vec, parked, store, moves, faults>>

\* set-role and update-user with role = 'admin'
Promote(a, b) ==
    /\ a \in admins /\ b \in users
    /\ admins' = admins \cup {b}
    /\ UNCHANGED <<users, owner, used, members, entry, vec, parked, call, store>>
    /\ Move /\ UNCHANGED <<past, mark, faults>>

\* handleBAUpdateUser writes data.role without asking who is left.
UpdateRole(a, b) ==
    /\ a \in admins /\ b \in admins
    /\ admins' = admins \ {b}
    /\ past' = past \cup {"unguarded"}
    /\ UNCHANGED <<users, owner, used, members, entry, vec, parked, call, store, mark, faults>>
    /\ Move

-----------------------------------------------------------------------------
\* Whose cold cleanup is still to come.
Cleaning(c) ==
    {e \in Entries :
        /\ call[c] # Idle
        /\ \/ call[c].job = "forget" /\ call[c].pc \in {"cold", "park"} /\ e \in call[c].entry
           \/ call[c].job # "forget" /\ call[c].pc = "cold" /\ e \in In(call[c].in)
           \/ call[c].pc = "sweep" /\ e \in Of(call[c].user)}

\* The handler dies or a warm statement of it fails: the rest never runs.
Abort(c) ==
    /\ call[c] # Idle
    /\ Fail
    /\ Marked(Cleaning(c), "failed")
    /\ Finish(c)
    /\ UNCHANGED <<rows, entry, vec, parked, store, past, moves>>

Request(c) ==
    \/ \E u \in Users, in \in Scopes, e \in Entries : Remember(c, u, in, e)
    \/ \E e \in Entries : Forget(c, e)
    \/ \E p \in Projects : DeleteProject(c, p)
    \/ \E a, u \in Users : DeleteUser(c, a, u)
    \/ \E job \in Jobs : \E a, b \in Users : Guard(c, job, a, b)

Continue(c) ==
    \/ Insert(c) \/ Upsert(c)
    \/ ColdForget(c) \/ Park(c)
    \/ ProjectRows(c) \/ ColdProject(c)
    \/ (\E p \in Projects : NextProject(c, p)) \/ LastProjectGone(c)
    \/ Commit(c) \/ ColdUser(c)
    \/ Check(c) \/ Demote(c) \/ RemoveUser(c)

Failure(c) == ColdForgetFails(c) \/ ColdProjectFails(c) \/ ColdUserFails(c) \/ Abort(c)

AtOnce ==
    \/ \E u \in Users, p \in Projects : CreateProject(u, p) \/ AddMember(p, u)
                                        \/ RemoveMember(p, u)
    \/ \E a, b \in Users : Promote(a, b) \/ UpdateRole(a, b)

Next ==
    \/ \E c \in Callers : Request(c) \/ Continue(c) \/ Failure(c)
    \/ AtOnce
    \/ ReapOrphan

Spec == Init /\ [][Next]_vars

-----------------------------------------------------------------------------
(* Promises. *)

\* The point of a deleted entry is parked for the reaper or in the hands of a cleanup
\* that will get to it, through every order of forgets and teardowns and the orphan rows
\* they delete, unless one of the marked accidents happened to the entry.
VectorsAccounted ==
    \A e \in vec :
        Gone(e) => e \in parked \/ mark[e] # {} \/ \E c \in Callers : e \in Cleaning(c)

\* A deleted user left no memory behind, whatever projects it was in, unless it was let in
\* before the deletion and inserted after it, or remove-user left it on purpose.
NothingLeft ==
    \A e \in Entries : Live(e) => entry[e].user \in users \/ mark[e] \cap {"late", "kept"} # {}

\* A project has its owner for as long as it exists, as an account and as a member,
\* however its creation crosses the deletion of that account.
OwnerStays ==
    \A p \in Projects : owner[p] # Nobody => owner[p] \in users /\ <<p, owner[p]>> \in members

\* The deployment keeps an administrator, unless two removals crossed between the count
\* and the write, or update-user took the role, which does not count at all.
AdminRemains == admins # {} \/ past # {}

\* Nothing that needs somebody in charge is left without: no project without its owner,
\* no deployment without an administrator.
Governed == OwnerStays /\ AdminRemains
=============================================================================
