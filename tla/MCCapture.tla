----------------------------- MODULE MCCapture ------------------------------
(* One run for three components that share nothing: a behaviour belongs to the *)
(* one that part names, and leaves the variables of the others alone.          *)
(*                                                                             *)
(* Capture: one place of residence, the same said in more words, and another.  *)
(* Embedder: three calls, named by the same model values as the memories of    *)
(* Capture, so that one symmetry serves both.                                  *)
(*                                                                             *)
(* Install: three hosts, two of which share a file, and two runs of init over  *)
(* files that are absent or hold a server and a comment of their owner's.      *)
EXTENDS Capture, Embedder, Install, TLC

CONSTANTS
    Paris, ParisMore, Berlin,
    claude, copilot, codex, json, toml

VARIABLE part

SameSubject == Texts \X Texts
OtherPlace == {p \in Texts \X Texts : (p[1] = Berlin) # (p[2] = Berlin)}
SameWords == {<<t, t>> : t \in Texts} \cup ({<<Paris, ParisMore>>} \cap (Texts \X Texts))

HostFile == (claude :> json) @@ (copilot :> json) @@ (codex :> toml)
HostChoices == {{}, {claude, copilot}, {codex}}

InCapture == part = "capture" /\ UNCHANGED <<part, embedderVars, installVars>>
InEmbedder == part = "embedder" /\ UNCHANGED <<part, vars, installVars>>
InInstall == part = "install" /\ UNCHANGED <<part, vars, embedderVars>>

MCInit ==
    /\ part \in {"capture", "embedder", "install"}
    /\ Init /\ EmbedderInit /\ InstallInit
    /\ \A p \in Paths : kept[p] \in {{}, Things}
    /\ part # "install" => \A p \in Paths : kept[p] = {}

MCNext ==
    \/ InCapture /\ Next
    \/ \E c \in Ids : InEmbedder /\ Start(c)
    \/ \E c \in Ids : InEmbedder /\ Followed(c)
    \/ \E c \in Ids : InEmbedder /\ WaitEnds(c)
    \/ \E c \in Ids : InEmbedder /\ Answered(c)
    \/ \E c \in Ids : InEmbedder /\ NonRetryable(c)
    \/ \E c \in Ids : InEmbedder /\ Retryable(c)
    \/ \E c \in Ids : InEmbedder /\ Again(c)
    \/ \E c \in Ids : InEmbedder /\ PauseEnds(c)
    \/ \E c \in Ids : InEmbedder /\ Close(c)
    \/ \E c \in Ids : InEmbedder /\ ReadClock(c)
    \/ \E c \in Ids : InEmbedder /\ NoteOk(c)
    \/ \E c \in Ids : InEmbedder /\ NoteFailed(c)
    \/ \E c \in Ids : InEmbedder /\ Cancel(c)
    \/ InEmbedder /\ Tick
    \/ \E given, dry \in BOOLEAN : InInstall /\ Launch(given, dry)
    \/ InInstall /\ ProbeHealth
    \/ InInstall /\ SignIn
    \/ InInstall /\ MintToken
    \/ InInstall /\ Confirm
    \/ InInstall /\ Stage
    \/ InInstall /\ GiveUp
    \/ \E state \in ShimStates, chosen, skip \in BOOLEAN :
          InInstall /\ Preflight(state, chosen, skip)
    \/ \E T \in HostChoices : InInstall /\ ResolveTools(T)
    \/ \E t \in Tools : InInstall /\ NextTool(t)
    \/ InInstall /\ AllTried
    \/ InInstall /\ HostFails
    \/ InInstall /\ InstallSkill
    \/ InInstall /\ InstallCommands
    \/ InInstall /\ ReadConfig
    \/ InInstall /\ Truncate
    \/ InInstall /\ Fill
    \/ InInstall /\ SaveState
    \/ InInstall /\ Interrupt
    \/ \E p \in Paths, T \in SUBSET Things : InInstall /\ Edit(p, T)

MCSpec == MCInit /\ [][MCNext]_<<vars, part, embedderVars, installVars>>

Symmetry == Permutations(Ids) \cup Permutations(Handlers)
=============================================================================
