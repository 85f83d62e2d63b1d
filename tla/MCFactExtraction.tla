-------------------------- MODULE MCFactExtraction --------------------------
(* One run for two components that share nothing: a behaviour belongs to the   *)
(* one that part names, and leaves the variables of the other alone.           *)
(*                                                                             *)
(* FactExtraction: two texts that share one fact and differ in another.        *)
(* Mcp: one bridge of one user, two replicas, two lines.  Which replica and    *)
(* which id is which makes no difference: they are used in the order of their  *)
(* names.                                                                      *)
EXTENDS FactExtraction, Mcp

CONSTANTS A, B, f1, f2, f3, u1

VARIABLE part

TwoTexts == [x \in {A, B} |-> IF x = A THEN {f1, f2} ELSE {f2, f3}]

TwoReplicas == 1 .. 2
TwoIds == 1 .. 2
Lines == {"initialize", "legacy", "modern", "future"}
OneUser == [b \in Bridges |-> u1]

InFacts == part = "facts" /\ UNCHANGED <<part, mcpVars>>
FirstPost == \A b \in Bridges, n \in Slots : post[b][n].pc \in {"none", "send"}
FirstId(i) == \A j \in 1 .. (i - 1) : owners[j] # NoUser
InMcp == part = "mcp" /\ UNCHANGED <<part, vars>>

MCInit ==
    /\ part \in {"facts", "mcp"}
    /\ Init /\ McpInit
    /\ part = "facts" => signed
    /\ part = "mcp" => \A c \in Chunks : chunk[c].text = A

MCNext ==
    \/ InFacts /\ Next
    \/ \E b \in Bridges, k \in Lines, request \in BOOLEAN : InMcp /\ ReadLine(b, k, request)
    \/ \E b \in Bridges, n \in Slots, r \in Replicas :
          InMcp /\ (FirstPost => r = 1) /\ Send(b, n, r)
    \/ \E b \in Bridges, n \in Slots : InMcp /\ Classify(b, n)
    \/ \E b \in Bridges, n \in Slots : InMcp /\ Lookup(b, n)
    \/ \E b \in Bridges, n \in Slots : InMcp /\ Adopt(b, n)
    \/ \E b \in Bridges, n \in Slots : InMcp /\ Touch(b, n)
    \/ \E b \in Bridges, n \in Slots : InMcp /\ HandleMessage(b, n)
    \/ \E b \in Bridges, n \in Slots : InMcp /\ Receive(b, n)
    \/ \E b \in Bridges, n \in Slots, i \in Ids : InMcp /\ FirstId(i) /\ Mint(b, n, i)
    \/ \E b \in Bridges, n \in Slots : InMcp /\ GiveUp(b, n)
    \/ \E b \in Bridges : InMcp /\ CloseSession(b)
    \/ \E r \in Replicas, i \in Ids : InMcp /\ GrowIdle(r, i)
    \/ \E i \in Ids : InMcp /\ Age(i)
    \/ \E r \in Replicas : InMcp /\ ReapIdle(r)
    \/ \E r \in Replicas : InMcp /\ Restart(r)

\* The fairness of FactExtraction.
MCSpec ==
    /\ MCInit /\ [][MCNext]_<<vars, part, mcpVars>>
    /\ \A h \in Handlers : WF_vars(InFacts /\ Handle(h))
    /\ \A w \in Workers : WF_vars(InFacts /\ Run(w))
    /\ WF_vars(InFacts /\ Reconcile)
=============================================================================
