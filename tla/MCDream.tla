------------------------------- MODULE MCDream -------------------------------
(* One run for two components that share nothing: a behaviour belongs to the    *)
(* one that part names, and leaves the variables of the other alone.            *)
(*                                                                              *)
(* Dream: two texts that say the same and one that does not.                    *)
(* Limits: three calls, let in by the shared counter, that write at two         *)
(* replicas ("writes"), or pass locks at one: sign-ins and changes of password  *)
(* ("signins"), such changes without a session and rotations of a token         *)
(* ("tokens"), the latter also let in by the replica's own counter.  Which call *)
(* and which replica is which makes no difference: they come in the order of    *)
(* their names.                                                                 *)
EXTENDS Dream, Limits, TLC

CONSTANTS A1, A2, B

VARIABLE part

SameSense == {<<t, t>> : t \in Texts} \cup {<<A1, A2>>, <<A2, A1>>}
TwoAlike == {<<A1, A2, B>>, <<A1, B, A2>>, <<B, A1, A2>>, <<A1, A2, NoText>>,
             <<NoText, NoText, NoText>>}

InDream == part = "dream" /\ UNCHANGED <<part, limitVars>>
InLimits == part # "dream" /\ UNCHANGED <<part, dreamVars>>
Asked == CASE part = "writes" -> {"write"}
           [] part = "signins" -> {"signin", "password"}
           [] OTHER -> {"anonymous", "rotate"}
NextCall(c, r) ==
    /\ request[c].pc = "new" /\ \A d \in 1 .. (c - 1) : request[d].pc # "new"
    /\ r = 2 => part = "writes" /\ c > 1

\* No other part has anything stored for the walk.
MCInit ==
    /\ part \in {"dream", "writes", "signins", "tokens"}
    /\ DreamInit /\ LimitsInit
    /\ (part = "dream") = (\E i \in Ids : Live(i))

MCNext ==
    \/ InDream /\ DreamNext
    \/ \E c \in Calls, r \in Replicas, kind \in Asked : InLimits /\ NextCall(c, r) /\ TakeShared(c, r, kind)
    \/ \E c \in Calls, r \in Replicas : InLimits /\ part = "tokens" /\ NextCall(c, r) /\ TakeLocal(c, r, "rotate")
    \/ \E c \in Calls : InLimits /\ Throttled(c)
    \/ \E c \in Calls : InLimits /\ CheckLock(c)
    \/ \E c \in Calls : InLimits /\ RecordFailure(c)
    \/ \E c \in Calls : InLimits /\ Verified(c)
    \/ \E c \in Calls : InLimits /\ Clear(c)
    \/ \E c \in Calls : InLimits /\ SettlesNothing(c)
    \/ \E c \in Calls : InLimits /\ VerifyErrors(c)
    \/ \E c \in Calls : InLimits /\ EnforceQuota(c)
    \/ \E c \in Calls : InLimits /\ QuotaErrors(c)
    \/ \E c \in Calls : InLimits /\ Store(c)
    \/ \E c \in Calls : InLimits /\ StoreNothing(c)
    \/ \E r \in Replicas : InLimits /\ DropQuotas(r)
    \/ InLimits /\ Outage
    \/ InLimits /\ Recovery
    \/ InLimits /\ Later

\* The fairness of Dream.
MCSpec ==
    /\ MCInit /\ [][MCNext]_<<dreamVars, part, limitVars>>
    /\ \A d \in Dreamers : WF_dreamVars(InDream /\ Tick(d)) /\ WF_dreamVars(InDream /\ Step(d))
    /\ \A i \in Ids : WF_dreamVars(InDream /\ Reindex(i))
=============================================================================
