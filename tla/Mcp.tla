---------------------------------- MODULE Mcp ----------------------------------
(***************************************************************************)
(* The streamable HTTP transport of MCP, and the stdio bridge in front of  *)
(* it.  A bridge reads its host's messages line by line, posts each to     *)
(* whatever replica the load balancer picks, and writes what comes back.   *)
(* A legacy host is given a session by its initialize; each replica keeps  *)
(* a registry of the sessions it has seen, from which idle ones are        *)
(* reaped.  With a cookie secret an id says whose it is, and a replica     *)
(* that does not know it adopts it.  A modern message needs no session.    *)
(*                                                                         *)
(* The bridge posts one message at a time until it holds a session, and    *)
(* all it reads at once after that.  A post it gave up on may still be     *)
(* under way at the server.                                                *)
(***************************************************************************)
EXTENDS Naturals, FiniteSets

CONSTANTS
    Bridges, UserOf,    \* bridges, and the user whose token each one has
    Replicas,
    Ids,                \* bound: session ids
    NoId, NoUser,
    Kinds,              \* bound: the kinds of messages hosts send
    MaxPerUser,         \* maxSessionsPerUser
    MaxLines,           \* bound: messages of a host
    MaxBreaks           \* bound: lost connections, restarts

ASSUME McpAssumption ==
    /\ Replicas # {} /\ IsFiniteSet(Ids) /\ NoId \notin Ids
    /\ \A b \in Bridges : UserOf[b] # NoUser
    /\ Kinds \subseteq {"initialize", "legacy", "modern", "future"}
    /\ MaxPerUser \in Nat /\ MaxLines \in Nat /\ MaxBreaks \in Nat

VARIABLES
    signed,     \* whether there is a cookie secret
    owners,     \* the user each id was minted for
    old,        \* ids beyond sessionIDMaxAge
    reg,        \* the registries: for each replica, the state of each id
    post,       \* the posts of each bridge, one for each line, and the DELETE at the end
    session,    \* the session of each bridge
    lines,      \* how many lines each bridge has read
    eof,        \* bridges whose host has closed stdin
    out,        \* what each line was answered with
    breaks

mcpVars == <<signed, owners, old, reg, post, session, lines, eof, out, breaks>>

Users == {UserOf[b] : b \in Bridges}
Final == MaxLines + 1           \* the DELETE goes by this number
Slots == 1..Final

\* initialize, any other legacy method, a modern message this server can serve (a good
\* one or a malformed one), and one of a revision it does not know.
AllKinds == {"initialize", "legacy", "modern", "future", "delete"}
Line == [kind : AllKinds, request : BOOLEAN]

\* Answers: a message with the id of the request, one with a null id, a body that is no
\* JSON-RPC message, nothing, and no answer at all.
Answers == {"pending", "own", "null", "plain404", "plain403", "plain429", "empty", "failed"}
Served == {"arrive", "lookup", "adopt", "mint", "touch", "handle"}
NoPost == [pc |-> "none"]
Made == [pc : {"send", "header", "done"} \cup Served, line : Line, sid : Ids \cup {NoId},
         at : Replicas, answer : Answers, deaf : BOOLEAN, fresh : Ids \cup {NoId}]
Post == Made \cup {NoPost}

McpTypeOK ==
    /\ signed \in BOOLEAN
    /\ owners \in [Ids -> Users \cup {NoUser}]
    /\ old \subseteq Ids
    /\ reg \in [Replicas -> [Ids -> {"none", "live", "idle"}]]
    /\ post \in [Bridges -> [Slots -> Post]]
    /\ session \in [Bridges -> Ids \cup {NoId}]
    /\ lines \in [Bridges -> 0..MaxLines]
    /\ eof \subseteq Bridges
    /\ out \in [Bridges -> [Slots -> [own : Nat, null : Nat]]]
    /\ breaks \in 0..MaxBreaks

McpInit ==
    /\ signed \in BOOLEAN
    /\ owners = [i \in Ids |-> NoUser]
    /\ old = {}
    /\ reg = [r \in Replicas |-> [i \in Ids |-> "none"]]
    /\ post = [b \in Bridges |-> [n \in Slots |-> NoPost]]
    /\ session = [b \in Bridges |-> NoId]
    /\ lines = [b \in Bridges |-> 0]
    /\ eof = {}
    /\ out = [b \in Bridges |-> [n \in Slots |-> [own |-> 0, null |-> 0]]]
    /\ breaks = 0

-----------------------------------------------------------------------------
Under(b, n, pc) == post[b][n].pc = pc
Finished(b, n) == post[b][n].pc \notin {"none", "done"} => post[b][n].deaf
Fault == breaks < MaxBreaks /\ breaks' = breaks + 1
Set(b, n, p) == post' = [post EXCEPT ![b][n] = p]
Answer(b, n, a) == Set(b, n, [post[b][n] EXCEPT !.pc = "header", !.answer = a])

(* The bridge. *)

\* run, one line: without a session, the next one waits until it has been relayed.
ReadLine(b, k, request) ==
    /\ b \notin eof /\ lines[b] < MaxLines
    /\ session[b] = NoId => \A n \in Slots : Finished(b, n)
    /\ lines' = [lines EXCEPT ![b] = @ + 1]
    /\ Set(b, lines[b] + 1, [pc |-> "send", line |-> [kind |-> k, request |-> request], sid |-> NoId,
                             at |-> CHOOSE r \in Replicas : TRUE, answer |-> "pending",
                             deaf |-> FALSE, fresh |-> NoId])
    /\ UNCHANGED <<signed, owners, old, reg, session, eof, out, breaks>>

\* relay, up to the connection: the session is the one the bridge holds by then.
Send(b, n, r) ==
    /\ Under(b, n, "send")
    /\ Set(b, n, [post[b][n] EXCEPT !.pc = "arrive", !.at = r, !.sid = session[b]])
    /\ UNCHANGED <<signed, owners, old, reg, session, lines, eof, out, breaks>>

\* The connection fails or times out.  The bridge answers a request itself; the server may
\* go on with it.
WriteErr(b, n) ==
    out' = IF post[b][n].line.request THEN [out EXCEPT ![b][n].own = @ + 1] ELSE out

GiveUp(b, n) ==
    /\ post[b][n].pc \in Served \cup {"header"} /\ ~post[b][n].deaf /\ Fault
    /\ \E pc \in {post[b][n].pc, "done"} : Set(b, n, [post[b][n] EXCEPT !.deaf = TRUE, !.pc = pc])
    /\ WriteErr(b, n)
    /\ UNCHANGED <<signed, owners, old, reg, session, lines, eof>>

\* Mutant: a body that is no message goes unanswered.
WriteMessageOnly(b, n) ==
    CASE post[b][n].answer = "own" -> out' = [out EXCEPT ![b][n].own = @ + 1]
      [] post[b][n].answer = "null" -> out' = [out EXCEPT ![b][n].null = @ + 1]
      [] OTHER -> UNCHANGED out

\* A message is passed on as it is, nothing becomes of a 202, and anything else is
\* turned into an error.
WriteBody(b, n) ==
    CASE post[b][n].answer = "own" -> out' = [out EXCEPT ![b][n].own = @ + 1]
      [] post[b][n].answer = "null" -> out' = [out EXCEPT ![b][n].null = @ + 1]
      [] post[b][n].answer = "empty" -> UNCHANGED out
      [] OTHER -> WriteErr(b, n)

\* The response: its session header, if there is one, and then its body.
Receive(b, n) ==
    /\ Under(b, n, "header")
    /\ Set(b, n, [post[b][n] EXCEPT !.pc = "done"])
    /\ IF post[b][n].deaf \/ n = Final
       THEN UNCHANGED <<session, out>>
       ELSE /\ session' = IF post[b][n].fresh = NoId THEN session
                          ELSE [session EXCEPT ![b] = post[b][n].fresh]
            /\ WriteBody(b, n)
    /\ UNCHANGED <<signed, owners, old, reg, lines, eof, breaks>>

\* The end of stdin: the bridge waits for its relays, and closes its session.
CloseSession(b) ==
    /\ b \notin eof /\ \A n \in Slots : Finished(b, n)
    /\ eof' = eof \cup {b}
    /\ IF session[b] = NoId
       THEN UNCHANGED post
       ELSE Set(b, Final, [pc |-> "send", line |-> [kind |-> "delete", request |-> FALSE], sid |-> NoId,
                           at |-> CHOOSE r \in Replicas : TRUE, answer |-> "pending",
                           deaf |-> FALSE, fresh |-> NoId])
    /\ UNCHANGED <<signed, owners, old, reg, session, lines, out, breaks>>

-----------------------------------------------------------------------------
(* The server. *)

Count(r, u) == Cardinality({i \in Ids : reg[r][i] # "none" /\ owners[i] = u})

\* applyGuards turns away a revision the server does not know.
Refused(l) == l.kind = "future"

\* classifyEra: the metadata of the message says so, and it is no initialize.
Modern(l) == l.kind = "modern"

\* serveModern: a request gets its result, or an error with its id; a notification nothing,
\* unless its headers disagree with it.
ServeModern(l) == IF l.request THEN {"own"} ELSE {"empty", "null"}

\* ServeStreamable: the guards come before the body is read; a modern message is served on
\* its own; only an initialize may come without a session.
Classify(b, n) ==
    /\ Under(b, n, "arrive")
    /\ LET l == post[b][n].line IN
       CASE Refused(l) -> Answer(b, n, "null")
         [] Modern(l) -> \E a \in ServeModern(l) : Answer(b, n, a)
         [] OTHER -> IF post[b][n].sid = NoId
                     THEN IF l.kind = "initialize" THEN Set(b, n, [post[b][n] EXCEPT !.pc = "mint"])
                                                   ELSE Answer(b, n, "null")
                     ELSE Set(b, n, [post[b][n] EXCEPT !.pc = "lookup"])
    /\ UNCHANGED <<signed, owners, old, reg, session, lines, eof, out, breaks>>

\* handleMessage: a method that does not exist is no error in a notification, and a
\* method that does is answered even then.
Handled(l) == IF l.request THEN {"own"}
              ELSE IF l.kind = "initialize" THEN {"null"} ELSE {"empty", "null"}

\* addOrGet with an id of its own, and then the handshake.
Mint(b, n, i) ==
    /\ Under(b, n, "mint") /\ owners[i] = NoUser
    /\ LET r == post[b][n].at IN
       IF Count(r, UserOf[b]) >= MaxPerUser
       THEN Answer(b, n, "plain429") /\ UNCHANGED <<owners, reg>>
       ELSE /\ owners' = [owners EXCEPT ![i] = UserOf[b]]
            /\ reg' = [reg EXCEPT ![r][i] = "live"]
            /\ \E a \in Handled(post[b][n].line) :
                   Set(b, n, [post[b][n] EXCEPT !.pc = "header", !.answer = a, !.fresh = i])
    /\ UNCHANGED <<signed, old, session, lines, eof, out, breaks>>

Verified(b, n) == signed /\ owners[post[b][n].sid] = UserOf[b] /\ post[b][n].sid \notin old

Lookup(b, n) ==
    /\ Under(b, n, "lookup")
    /\ IF reg[post[b][n].at][post[b][n].sid] # "none"
       THEN Set(b, n, [post[b][n] EXCEPT !.pc = "touch"])
       ELSE IF Verified(b, n)
       THEN Set(b, n, [post[b][n] EXCEPT !.pc = "adopt"])
       ELSE Answer(b, n, "plain404")
    /\ UNCHANGED <<signed, owners, old, reg, session, lines, eof, out, breaks>>

\* addOrGet: another request may have adopted the id since the lookup.
Adopt(b, n) ==
    /\ Under(b, n, "adopt")
    /\ LET r == post[b][n].at
           i == post[b][n].sid
       IN  IF reg[r][i] = "none" /\ Count(r, UserOf[b]) >= MaxPerUser
           THEN Answer(b, n, "plain429") /\ UNCHANGED reg
           ELSE /\ reg' = [reg EXCEPT ![r][i] = "live"]
                /\ Set(b, n, [post[b][n] EXCEPT !.pc = "touch"])
    /\ UNCHANGED <<signed, owners, old, session, lines, eof, out, breaks>>

\* The owner is checked; a session that was removed since the lookup is not touched.
Touch(b, n) ==
    /\ Under(b, n, "touch")
    /\ LET r == post[b][n].at
           i == post[b][n].sid
       IN  IF owners[i] # UserOf[b]
           THEN Answer(b, n, "plain403") /\ UNCHANGED reg
           ELSE /\ reg' = [reg EXCEPT ![r][i] = IF @ = "none" THEN @ ELSE "live"]
                /\ Set(b, n, [post[b][n] EXCEPT !.pc = "handle"])
    /\ UNCHANGED <<signed, owners, old, session, lines, eof, out, breaks>>

HandleMessage(b, n) ==
    /\ Under(b, n, "handle")
    /\ IF post[b][n].line.kind = "delete"
       THEN /\ reg' = [reg EXCEPT ![post[b][n].at][post[b][n].sid] = "none"]
            /\ Answer(b, n, "empty")
       ELSE /\ \E a \in Handled(post[b][n].line) : Answer(b, n, a)
            /\ UNCHANGED reg
    /\ UNCHANGED <<signed, owners, old, session, lines, eof, out, breaks>>

-----------------------------------------------------------------------------
(* Time, the reaper, and the end of a process. *)

\* Thirty minutes pass without a request on the session at this replica.
GrowIdle(r, i) ==
    /\ reg[r][i] = "live"
    /\ reg' = [reg EXCEPT ![r][i] = "idle"]
    /\ UNCHANGED <<signed, owners, old, post, session, lines, eof, out, breaks>>

Age(i) ==
    /\ owners[i] # NoUser /\ i \notin old
    /\ old' = old \cup {i}
    /\ UNCHANGED <<signed, owners, reg, post, session, lines, eof, out, breaks>>

ReapIdle(r) ==
    /\ \E i \in Ids : reg[r][i] = "idle"
    /\ reg' = [reg EXCEPT ![r] = [i \in Ids |-> IF @[i] = "idle" THEN "none" ELSE @[i]]]
    /\ UNCHANGED <<signed, owners, old, post, session, lines, eof, out, breaks>>

\* A replica restarts: its registry and the requests it was working on are gone.
Restart(r) ==
    /\ Fault
    /\ reg' = [reg EXCEPT ![r] = [i \in Ids |-> "none"]]
    /\ post' = [b \in Bridges |-> [n \in Slots |->
                    IF post[b][n].pc \in Served /\ post[b][n].at = r
                    THEN [post[b][n] EXCEPT !.pc = "header", !.answer = "failed"] ELSE post[b][n]]]
    /\ UNCHANGED <<signed, owners, old, session, lines, eof, out>>

Relay(b, n) ==
    \/ \E r \in Replicas : Send(b, n, r)
    \/ Classify(b, n) \/ Lookup(b, n) \/ Adopt(b, n) \/ Touch(b, n) \/ HandleMessage(b, n) \/ Receive(b, n)
    \/ \E i \in Ids : Mint(b, n, i)

McpNext ==
    \/ \E b \in Bridges, k \in Kinds, request \in BOOLEAN : ReadLine(b, k, request)
    \/ \E b \in Bridges, n \in Slots : Relay(b, n) \/ GiveUp(b, n)
    \/ \E b \in Bridges : CloseSession(b)
    \/ \E r \in Replicas, i \in Ids : GrowIdle(r, i)
    \/ \E i \in Ids : Age(i)
    \/ \E r \in Replicas : ReapIdle(r) \/ Restart(r)

McpSpec == McpInit /\ [][McpNext]_mcpVars

\* Posts make progress, time passes, and the reaper ticks.
Fairness ==
    /\ \A b \in Bridges, n \in Slots : WF_mcpVars(Relay(b, n))
    /\ \A r \in Replicas, i \in Ids : WF_mcpVars(GrowIdle(r, i))
    /\ \A r \in Replicas : WF_mcpVars(ReapIdle(r))

-----------------------------------------------------------------------------
(* Every request the bridge has dealt with was answered exactly once, under    *)
(* its own id, whatever the network, the session or a restart made of it, but   *)
(* for the refusals that the server gives without the id.  A notification gets  *)
(* at most one such message, and never an answer.                              *)
Sessionless(l, sid) == l.kind = "future" \/ (l.kind = "legacy" /\ sid = NoId)
AnsweredOnce ==
    \A b \in Bridges, n \in 1..MaxLines : ~Under(b, n, "none") =>
        LET l == post[b][n].line
            o == out[b][n]
        IN  /\ o.own + o.null <= 1
            /\ Finished(b, n) /\ l.request => o.own + o.null = 1
            /\ o.own = 1 => l.request
            /\ o.null = 1 => Sessionless(l, post[b][n].sid) \/ ~l.request

(* A session the deployment gave to a user is known to every replica, whether  *)
(* it was reaped, deleted or lost in a restart, until its id is a day old: the *)
(* only answer a request on it may get instead is that there are too many.     *)
AnyReplicaServes ==
    \A b \in Bridges, n \in Slots :
        ~Under(b, n, "none") /\ post[b][n].answer \in {"plain403", "plain404"} =>
            ~signed \/ post[b][n].sid \in old

(* A user never has more sessions at a replica than allowed, however requests  *)
(* that open, adopt, touch and close sessions cross with the reaper; and every *)
(* session there belongs to somebody.                                          *)
CapHeld ==
    \A r \in Replicas :
        /\ \A u \in Users : Count(r, u) <= MaxPerUser
        /\ \A i \in Ids : reg[r][i] # "none" => owners[i] # NoUser

\* What the hosts and the users of the transport rely on.
RelaySound == AnsweredOnce /\ AnyReplicaServes /\ CapHeld
=============================================================================
