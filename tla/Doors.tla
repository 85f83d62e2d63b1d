--------------------------------- MODULE Doors ---------------------------------
(***************************************************************************)
(* The two doors to the memory, /v1/* and the tools of /mcp: who may call   *)
(* what, and which shelves a call reaches.  A call of the data plane is a   *)
(* gate over the credential it came with and then a series of autocommit    *)
(* statements (active project, project by id or name, membership) that      *)
(* changes of members, projects and tokens cross; each change is one step,  *)
(* checks included, since owners do not change.                             *)
(* src/go/internal/httpapi/{auth,dataplane,me,mcp,authroutes,admin,         *)
(* servicekeys}.go over src/go/internal/warmstore/{auth,projects}.go.       *)
(*                                                                          *)
(* A shelf is the caller's own store (Own) or a project.  All projects      *)
(* share one name, the hard case of resolving it.                           *)
(***************************************************************************)
EXTENDS Accounts, Integers, FiniteSets

CONSTANTS
    Service,    \* the identity an on-behalf-of token speaks for
    Projects,   \* 1..n: project ids, in the order of their creation
    Tokens,     \* bearer tokens, each minted once
    MaxChanges,  \* bound: changes of projects, members, active projects, tokens and service keys
    Own, Name

\* TokenInfo; root is a history variable, the first token of its line of rotations.
Token == [user: Users, scope: {"full", "read_only"}, project: Projects \cup {None},
          state: {"live", "expired", "revoked", "gone"}, root: Tokens]

\* What the proofs assume of the constants.
Deployment ==
    /\ Admins \subseteq Users
    /\ Service \notin Users
    /\ Projects \subseteq Nat /\ IsFiniteSet(Projects)
    /\ Projects = 1..Cardinality(Projects) /\ 1 \in Projects
    /\ {Own, Name, None} \cap (Users \cup Projects \cup {Service}) = {}
    /\ None \notin Token
    /\ MaxChanges \in Nat

ASSUME DoorsAssumption == Deployment

VARIABLES
    made,      \* projects created so far
    project,   \* project -> its owner and members; no owner, no project
    active,    \* user -> the active project
    token,     \* token -> its row
    key,       \* whether the service's key is registered and not revoked
    call,        \* handler -> the call it serves
    changes

doorsVars == <<made, project, active, token, key, call, changes>>

Refs == Projects \cup {Name}
Scopes == [project: Refs \cup {None}, include: SUBSET Refs]
Unscoped == [project |-> None, include |-> {}]

\* A caller as the gate resolves it, a snapshot for the rest of the call.
Caller == [user: Users \cup {Service}, via: {"session", "token", "obo"},
           scope: {"full", "read_only"}, project: Projects \cup {None}]

\* read: search, recent, context and neighbours; write: remember, capture, recap, update and forget.
DataPlane == {"read", "write"}
WholeStore == {"stats", "hygiene", "evaluate"}
Managed == {"share", "unshare", "delete"}
Account == {"list", "create", "activate", "deactivate"} \cup Managed
Tools == DataPlane \cup WholeStore \cup Account \cup {"admin"}
Kinds == Tools \cup {"leave", "active", "mint", "unmint", "export"}

\* Those that take several statements.
Served == DataPlane \cup {"active"}

NoCall == [kind |-> "idle"]
Call == [door: {"http", "mcp"}, who: Caller, kind: Served, at: Scopes,
         step: {"default", "confirm", "act"},
         shelves: SUBSET (Projects \cup {Own}),
         was: SUBSET Projects]     \* history: the projects it belonged to at some time since it was admitted

DoorsTypeOK ==
    /\ made \in Projects
    /\ project \in [Projects -> [owner: Users \cup {None}, members: SUBSET Users]]
    /\ active \in [Users -> Projects \cup {None}]
    /\ token \in [Tokens -> Token \cup {None}]
    /\ key \in BOOLEAN
    /\ call \in [Handlers -> Call \cup {NoCall}]
    /\ changes \in 0..MaxChanges

\* The first project is shared by all, and a user who is no admin may have a token.
DoorsInit ==
    /\ made = 1
    /\ \E u \in Users :
          project = [p \in Projects |-> IF p = 1 THEN [owner |-> u, members |-> Users]
                                        ELSE [owner |-> None, members |-> {}]]
    /\ active = [u \in Users |-> None]
    /\ \E t \in Tokens :
          \/ token = [s \in Tokens |-> None]
          \/ \E row \in {row \in Token : /\ row.user \notin Admins /\ row.project \in {None, 1}
                                        /\ row.state = "live" /\ row.root = t} :
                token = [s \in Tokens |-> IF s = t THEN row ELSE None]
    /\ key = TRUE
    /\ call = [h \in Handlers |-> NoCall]
    /\ changes = 0

-----------------------------------------------------------------------------
(* Projects and members *)

There(p) == project[p].owner # None
Member(u, p) == u \in project[p].members
Mine(u) == {p \in Projects : Member(u, p)}

\* GetProject by id, else FindProjectByName among the caller's, the oldest first.
Resolve(u, ref) ==
    IF ref \in Projects THEN IF There(ref) THEN ref ELSE None
    ELSE IF Mine(u) = {} THEN None
    ELSE CHOOSE p \in Mine(u) : \A q \in Mine(u) : p <= q

Given(at) == at.include \cup ({at.project} \ {None})

\* The projects a call names, when its caller is a member of them all; otherwise none.
Members(u, at) ==
    LET ids == {Resolve(u, ref) : ref \in Given(at)} IN
    IF None \notin ids /\ \A p \in ids : Member(u, p) THEN ids ELSE {}

\* The engine reads a project alone, or the caller's own store and the projects included.
Shelves(u, at) ==
    IF Given(at) = {} THEN {Own}
    ELSE IF Members(u, at) = {} THEN {}
    ELSE Members(u, at) \cup (IF at.include = {} THEN {} ELSE {Own})

\* The active project as the default scope: reads add it to the caller's own store, writes go to it.
ActiveDefault(u, kind) ==
    IF active[u] = None THEN Unscoped
    ELSE IF kind = "read" THEN [project |-> None, include |-> {active[u]}]
    ELSE [project |-> active[u], include |-> {}]

-----------------------------------------------------------------------------
(* Callers *)

\* The line of t has come to the end of its validity, or an admin, a rotation or its user ended it.
Usable(t) == token[t] # None /\ token[t].state = "live"

Callers ==
    [user: Users, via: {"session"}, scope: {"full"}, project: {None}]
    \cup {[user |-> token[t].user, via |-> "token", scope |-> token[t].scope, project |-> token[t].project] :
            t \in {t \in Tokens : Usable(t)}}
    \cup (IF key THEN [user: {Service}, via: {"obo"}, scope: {"full"}, project: {None}] ELSE {})

Restricted(c) == c.scope = "read_only" \/ c.project # None

\* Mutant: a member when the token was minted is taken for a member.
ConfineScopeUnchecked(c, at) ==
    IF \A ref \in Given(at) : Resolve(c.user, ref) = c.project THEN {c.project} ELSE {}

\* What a project-confined token is held to, whatever it asks for: its project, as long as its user is a
\* member.
ConfineScope(c, at) ==
    IF (\A ref \in Given(at) : Resolve(c.user, ref) = c.project) /\ Member(c.user, c.project)
    THEN {c.project} ELSE {}

-----------------------------------------------------------------------------
(* The /v1 door *)

\* resolveCaller's gates (restrictedDenied, oboDenied), the handlers' projectConfinedDenied, and the role.
HTTPGate(c, k) ==
    /\ Restricted(c) => k \notin {"admin", "mint", "unmint"}
    /\ c.scope = "read_only" => k \in {"read", "stats", "hygiene", "list", "active", "export"}
    /\ c.via = "obo" => k \in DataPlane \cup WholeStore
    /\ c.project # None => k \notin WholeStore
    /\ k = "admin" => c.user \in Admins

HTTPDefault(c, k, at) ==
    IF k \in DataPlane /\ at = Unscoped /\ c.via # "obo" /\ c.project = None
    THEN ActiveDefault(c.user, k) ELSE at

CheckProjectAccess(c, at) ==
    IF c.via = "obo" THEN IF at = Unscoped THEN {Own} ELSE {}
    ELSE IF c.project # None THEN ConfineScope(c, at)
    ELSE Shelves(c.user, at)

\* meProject: a project the caller need not belong to.
MeProject(u, at) == {Resolve(u, ref) : ref \in Given(at)} \ {None}

\* The routes of an account other than these have no scope.
HTTPScope(c, k, at) ==
    CASE k \in DataPlane -> CheckProjectAccess(c, at)
      [] k = "mint"      -> Shelves(c.user, at)
      [] k = "activate"  -> Members(c.user, at)
      [] k \in Managed   -> {p \in MeProject(c.user, at) : project[p].owner = c.user}
      [] k = "leave"     -> {p \in MeProject(c.user, at) : project[p].owner # c.user}
      [] OTHER           -> {Own}

-----------------------------------------------------------------------------
(* The /mcp door *)

\* Mutant: the tools that read across the store are open to a project-confined token.
MCPGateWhole(c, k) ==
    /\ c.scope # "read_only"
    /\ c.via = "obo" => k \notin Account \cup {"admin"}
    /\ c.project # None => k \notin Account
    /\ k = "admin" => ~Restricted(c) /\ c.user \in Admins

\* Every tool call is a POST; callTool's own gates, and requireAdminMCP.
MCPGate(c, k) ==
    /\ c.scope # "read_only"
    /\ c.via = "obo" => k \notin Account \cup {"admin"}
    /\ c.project # None => k \notin Account \cup WholeStore
    /\ k = "admin" => ~Restricted(c) /\ c.user \in Admins

MCPDefault(c, k, at) ==
    IF at = Unscoped /\ k \in DataPlane /\ c.via # "obo" /\ c.project = None
    THEN ActiveDefault(c.user, k) ELSE at

ResolveScopeMCP(c, at) ==
    IF c.via = "obo" THEN IF at = Unscoped THEN {Own} ELSE {}
    ELSE IF c.project # None THEN ConfineScope(c, at)
    ELSE Shelves(c.user, at)

\* requireOwnedProject: a project the caller belongs to, and owns.
MCPScope(c, k, at) ==
    CASE k \in DataPlane \cup {"activate"} -> ResolveScopeMCP(c, at)
      [] k \in Managed -> {p \in ResolveScopeMCP(c, at) : project[p].owner = c.user}
      [] OTHER -> {Own}

-----------------------------------------------------------------------------
Gate(door, c, k) == IF door = "http" THEN HTTPGate(c, k) ELSE k \in Tools /\ MCPGate(c, k)
Default(door, c, k, at) == IF door = "http" THEN HTTPDefault(c, k, at) ELSE MCPDefault(c, k, at)
Scope(door, c, k, at) == IF door = "http" THEN HTTPScope(c, k, at) ELSE MCPScope(c, k, at)

\* The scopes a call of a kind can ask for, one project at a time.
Askable == [k \in Kinds |->
    {at \in Scopes :
        /\ Cardinality(Given(at)) <= 1
        /\ at.include # {} => k = "read"
        /\ at.project # None => k \in DataPlane \cup Managed \cup {"activate", "leave", "mint"}
        /\ at = Unscoped => k \notin Managed \cup {"activate", "leave"}}]

Reach(door, c, k) == UNION {Scope(door, c, k, at) : at \in Askable[k]}

\* What a user may do now with calls of a kind, through some door and with some credential: who, and the
\* shelf.
Grants(k) ==
    UNION {{way[2].user} \X Reach(way[1], way[2], k) :
            way \in {way \in {"http", "mcp"} \X Callers : way[2].user # Service /\ Gate(way[1], way[2], k)}}

\* One of the changes MaxChanges bounds.
Counted == changes < MaxChanges /\ changes' = changes + 1

-----------------------------------------------------------------------------
(* Calls of the data plane, and reads *)

Return(h) == call' = [call EXCEPT ![h] = NoCall]

\* withAuth: the credential is resolved and the call let in.
Arrive(h) ==
    /\ call[h] = NoCall
    /\ \E door \in {"http", "mcp"}, c \in Callers, k \in Served :
          /\ Gate(door, c, k)
          /\ \E at \in Askable[k] :
                call' = [call EXCEPT ![h] =
                    [door |-> door, who |-> c, kind |-> k, at |-> at,
                     step |-> IF at = Unscoped THEN "default" ELSE "confirm", shelves |-> {},
                     was |-> IF c.via = "obo" THEN {} ELSE Mine(c.user)]]
    /\ UNCHANGED <<made, project, active, token, key, changes>>

\* GetActiveProject, where no scope was asked for.
TakeDefault(h) ==
    /\ call[h] # NoCall /\ call[h].step = "default" /\ call[h].kind # "active"
    /\ call' = [call EXCEPT ![h].at = Default(call[h].door, call[h].who, call[h].kind, call[h].at),
                            ![h].step = "confirm"]
    /\ UNCHANGED <<made, project, active, token, key, changes>>

\* The project is looked up and the membership checked: refused, or on to the engine.
Confirm(h) ==
    /\ call[h] # NoCall /\ call[h].step = "confirm" /\ call[h].kind # "active"
    /\ LET shelves == Scope(call[h].door, call[h].who, call[h].kind, call[h].at) IN
       call' = [call EXCEPT ![h] = IF shelves = {} THEN NoCall
                                  ELSE [@ EXCEPT !.at = Unscoped, !.shelves = shelves, !.step = "act"]]
    /\ UNCHANGED <<made, project, active, token, key, changes>>

\* The engine reads or writes the shelves; or the call ended between its statements.
Done(h) ==
    /\ call[h] # NoCall
    /\ Return(h)
    /\ UNCHANGED <<made, project, active, token, key, changes>>

\* GET active-project reads the pointer ...
ReadActive(h) ==
    /\ call[h] # NoCall /\ call[h].kind = "active" /\ call[h].step = "default"
    /\ call' = [call EXCEPT ![h] = IF active[call[h].who.user] = None THEN NoCall
                              ELSE [@ EXCEPT !.at.project = active[call[h].who.user], !.step = "confirm"]]
    /\ UNCHANGED <<made, project, active, token, key, changes>>

\* ... looks for the project and the membership ...
CheckActive(h) ==
    /\ call[h] # NoCall /\ call[h].kind = "active" /\ call[h].step = "confirm"
    /\ call' = [call EXCEPT ![h] = IF Member(call[h].who.user, call[h].at.project) THEN NoCall
                                  ELSE [@ EXCEPT !.step = "act"]]
    /\ UNCHANGED <<made, project, active, token, key, changes>>

\* ... and clears a pointer to one that is gone or left, whatever it points to by then.
ClearActive(h) ==
    /\ call[h] # NoCall /\ call[h].kind = "active" /\ call[h].step = "act"
    /\ active' = [active EXCEPT ![call[h].who.user] = None]
    /\ Return(h)
    /\ UNCHANGED <<made, project, token, key, changes>>

-----------------------------------------------------------------------------
(* Projects, members, active projects *)

\* A user becomes a member: the calls under way may reach the project from now on.
Joins(u, p) ==
    call' = [h \in Handlers |-> IF call[h] # NoCall /\ call[h].who.user = u
                                THEN [call[h] EXCEPT !.was = @ \cup {p}] ELSE call[h]]

CreateProject ==
    /\ Counted /\ made + 1 \in Projects
    /\ made' = made + 1
    /\ \E g \in Grants("create") :
          /\ project' = [project EXCEPT ![made'] = [owner |-> g[1], members |-> {g[1]}]]
          /\ Joins(g[1], made')
    /\ UNCHANGED <<active, token, key>>

AddMember(u) ==
    /\ Counted
    /\ \E g \in Grants("share") :
          /\ project' = [project EXCEPT ![g[2]].members = @ \cup {u}]
          /\ Joins(u, g[2])
    /\ UNCHANGED <<made, active, token, key>>

\* By the owner, or oneself through /v1/me; never the owner.  The active project and the tokens of who is
\* removed stay as they are.
RemoveMember(u) ==
    /\ Counted
    /\ \E g \in Grants("unshare") \cup {g \in Grants("leave") : g[1] = u} :
          /\ u # project[g[2]].owner
          /\ project' = [project EXCEPT ![g[2]].members = @ \ {u}]
    /\ UNCHANGED <<made, active, token, key, call>>

\* The rows of the project, its members and the active projects that name it, in one transaction; not
\* the tokens confined to it.
DeleteProject ==
    /\ Counted
    /\ \E g \in Grants("delete") :
          /\ project' = [project EXCEPT ![g[2]] = [owner |-> None, members |-> {}]]
          /\ active' = [u \in Users |-> IF active[u] = g[2] THEN None ELSE active[u]]
    /\ UNCHANGED <<made, token, key, call>>

Activate ==
    /\ Counted
    /\ \E g \in Grants("activate") : active' = [active EXCEPT ![g[1]] = g[2]]
    /\ UNCHANGED <<made, project, token, key, call>>

Deactivate ==
    /\ Counted
    /\ \E g \in Grants("deactivate") : active' = [active EXCEPT ![g[1]] = None]
    /\ UNCHANGED <<made, project, token, key, call>>

-----------------------------------------------------------------------------
(* Tokens and service keys *)

Fresh(t) == token[t] = None

Mint(t) ==
    /\ Fresh(t)
    /\ Counted
    /\ \E g \in Grants("mint"), scope \in {"full", "read_only"} :
          token' = [token EXCEPT ![t] =
                [user |-> g[1], scope |-> scope, project |-> IF g[2] = Own THEN None ELSE g[2],
                 state |-> "live", root |-> t]]
    /\ UNCHANGED <<made, project, active, key, call>>

DeleteToken(t) ==
    /\ ~Fresh(t)
    /\ Counted
    /\ \E g \in Grants("unmint") : g[1] = token[t].user
    /\ token' = [token EXCEPT ![t].state = "gone"]
    /\ UNCHANGED <<made, project, active, key, call>>

\* Mutant: a token that was revoked is rotated again.
RotateAgain(t) ==
    /\ ~Fresh(t) /\ token[t].state # "gone"
    /\ Counted
    /\ \E heir \in Tokens :
          /\ Fresh(heir)
          /\ token' = [token EXCEPT ![t].state = "revoked",
                                  ![heir] = [token[t] EXCEPT !.state = IF @ = "expired" THEN @ ELSE "live"]]
    /\ UNCHANGED <<made, project, active, key, call>>

\* rotate-token, outside withAuth, in one transaction: the presented token is revoked, unless it was, and
\* the heir gets its restrictions and the end of its validity.  An expired token has an expired heir.
Rotate(t) ==
    /\ ~Fresh(t) /\ token[t].state \in {"live", "expired"}
    /\ Counted
    /\ \E heir \in Tokens :
          /\ Fresh(heir)
          /\ token' = [token EXCEPT ![t].state = "revoked", ![heir] = token[t]]
    /\ UNCHANGED <<made, project, active, key, call>>

\* expires_at passes, for the whole line of rotations; a token without one is a token it never happens to.
Expire(t) ==
    /\ ~Fresh(t)
    /\ Counted
    /\ token' = [s \in Tokens |->
          IF ~Fresh(s) /\ token[s].root = token[t].root /\ token[s].state = "live"
          THEN [token[s] EXCEPT !.state = "expired"] ELSE token[s]]
    /\ UNCHANGED <<made, project, active, key, call>>

RevokeToken(t) ==
    /\ ~Fresh(t) /\ token[t].state \in {"live", "expired"}
    /\ Counted
    /\ Grants("admin") # {}
    /\ token' = [token EXCEPT ![t].state = "revoked"]
    /\ UNCHANGED <<made, project, active, key, call>>

\* A key is registered or revoked.
SetServiceKey ==
    /\ Counted
    /\ Grants("admin") # {}
    /\ key' = ~key
    /\ UNCHANGED <<made, project, active, token, call>>

Advance(h) ==
    \/ Arrive(h) \/ TakeDefault(h) \/ Confirm(h) \/ Done(h)
    \/ ReadActive(h) \/ CheckActive(h) \/ ClearActive(h)

Change ==
    \/ CreateProject \/ DeleteProject \/ Activate \/ Deactivate \/ SetServiceKey
    \/ \E u \in Users : AddMember(u) \/ RemoveMember(u)
    \/ \E t \in Tokens : Mint(t) \/ DeleteToken(t) \/ Rotate(t) \/ Expire(t) \/ RevokeToken(t)

DoorsNext == Change \/ \E h \in Handlers : Advance(h)

DoorsSpec == DoorsInit /\ [][DoorsNext]_doorsVars

-----------------------------------------------------------------------------
\* What a call reaches is within its caller's bounds, through either door and whatever changes while it
\* is under way: shelves of projects its caller belonged to at some time since it was let in; for a
\* project-confined token that project alone; nothing written for a read-only one; no projects for an
\* on-behalf-of caller.  The routes of an account under /v1/me are not the data plane and not confined.
\* checkProjectAccess, resolveScopeMCP, confineScope, restrictedDenied.
InBounds ==
    \A h \in Handlers :
        LET c == call[h].who IN
        call[h] # NoCall /\ call[h].step = "act" /\ call[h].kind \in DataPlane \cup WholeStore =>
            /\ call[h].shelves \subseteq call[h].was \cup {Own}
            /\ c.project # None => call[h].shelves = {c.project}
            /\ c.scope = "read_only" => call[h].kind # "write"

\* A line of rotated tokens keeps to what its first token was allowed, ends when it does, and has one live
\* token at most.  RotateUserToken, restrictedDenied.
LineHeld ==
    \A t \in {t \in Tokens : Usable(t)} :
        LET root == token[t].root IN
        /\ token[t].user = token[root].user
        /\ token[t].scope = token[root].scope /\ token[t].project = token[root].project
        /\ token[root].state # "expired"
        /\ \A s \in Tokens : Usable(s) /\ token[s].root = root => s = t

\* The two doors give the same caller the same shelves for the same question, at any moment.  Except that
\* a read-only token cannot call tools at all, and a project-confined one manages projects and the active
\* project through /v1/me alone.  callTool, resolveScopeMCP; confineScope.
DoorsAgree ==
    (\A h \in Handlers : call[h] = NoCall) =>
    \A c \in Callers, k \in Tools :
        c.scope # "read_only" /\ ~(c.project # None /\ k \in Account) =>
            /\ HTTPGate(c, k) = MCPGate(c, k)
            /\ HTTPGate(c, k) => \A at \in Askable[k] :
                  HTTPScope(c, k, HTTPDefault(c, k, at)) = MCPScope(c, k, MCPDefault(c, k, at))
=============================================================================
