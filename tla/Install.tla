------------------------------- MODULE Install -------------------------------
(***************************************************************************)
(* The installer, novamem-init, and the agent hosts it configures.  A run  *)
(* probes the server, signs in and mints a bearer (or is given one),       *)
(* settles which hosts to configure, checks the stdio shim, and then, host *)
(* by host, copies the skill bundle, merges its own entry into the host's  *)
(* configuration and copies the slash commands.  A configuration belongs   *)
(* to the host and its user, who go on editing it; some hosts share one.   *)
(*                                                                         *)
(* A merge is a read, and later a write that first truncates the file, so  *)
(* a run can be overtaken or cut off in between.  A file's text is the set *)
(* of things its owners keep in it, and the installer's entry.  Comments   *)
(* are one of those things: JSON that has them does not parse, and TOML    *)
(* loses them when it is rendered again.                                   *)
(***************************************************************************)
EXTENDS Naturals

CONSTANTS
    Tools,        \* agent hosts
    Stdio,        \* of those, the ones that reach the server through the shim
    Paths,        \* configuration files
    NoPath,
    ConfigPath,   \* the file of each host, NoPath for a skill-only host
    Toml,         \* the files in TOML, the others are JSON
    Selections,   \* bound: the hosts a run may settle on, none included
    Commanded,    \* hosts with a commands directory
    Things,       \* what owners keep in a configuration
    Comments,     \* of those, the one that is written as a comment
    MaxRuns, MaxEdits, MaxMishaps    \* bounds: runs, edits by hosts, failures

\* Hosts that share a configuration reach the server in the same way.
ASSUME InstallAssumption ==
    /\ Tools # {} /\ NoPath \notin Paths
    /\ ConfigPath \in [Tools -> Paths \cup {NoPath}]
    /\ \A t, u \in Tools : ConfigPath[t] = ConfigPath[u] /\ ConfigPath[t] # NoPath =>
                              (t \in Stdio <=> u \in Stdio)
    /\ Selections \subseteq SUBSET Tools
    /\ MaxRuns \in Nat /\ MaxEdits \in Nat /\ MaxMishaps \in Nat

VARIABLES
    file,       \* configuration files
    email,      \* whether the state file remembers an e-mail address
    run,        \* the run in progress
    kept,       \* history: what the owners have put in a file and left there
    excused,    \* history: files left torn by a write that did not finish, edited between
                \* the read and the write of a run, or with text that did not carry over
    runs, edits, mishaps

installVars == <<file, email, run, kept, excused, runs, edits, mishaps>>
ghosts == <<kept, excused>>

\* A bearer goes by the number of the run that minted it.
NoToken == 0
Given == MaxRuns + 1
Bearers == 1..Given

Parts == {"skill", "commands"}
NoServer == [token |-> NoToken, via |-> "none"]
Entry == [token : Bearers, via : {"http", "stdio"}] \cup {NoServer}
File == [st : {"absent", "whole", "torn"}, things : SUBSET Things, entry : Entry]
Absent == [st |-> "absent", things |-> {}, entry |-> NoServer]

Stages == {"probe", "signin", "mint", "tools", "shim", "confirm", "stage", "next",
           "skill", "copying", "read", "write", "fill", "commands", "placing", "save"}
NoRun == [pc |-> "off"]
EndedRun == [pc : {"ended"}, done : BOOLEAN, tools : SUBSET Tools, failed : SUBSET Tools,
          placed : SUBSET (Tools \X Parts), dry : BOOLEAN, token : Bearers \cup {NoToken}]
Run == [pc : Stages, token : Bearers \cup {NoToken}, dry : BOOLEAN,
        tools : SUBSET Tools, left : SUBSET Tools, failed : SUBSET Tools,
        placed : SUBSET (Tools \X Parts), at : Tools, text : File]

InstallTypeOK ==
    /\ file \in [Paths -> File]
    /\ email \in BOOLEAN
    /\ run \in Run \cup EndedRun \cup {NoRun}
    /\ kept \in [Paths -> SUBSET Things]
    /\ excused \subseteq Paths
    /\ runs \in Nat /\ edits \in Nat /\ mishaps \in Nat

InstallInit ==
    /\ kept \in [Paths -> SUBSET Things]
    /\ file = [p \in Paths |-> IF kept[p] = {} THEN Absent
                               ELSE [st |-> "whole", things |-> kept[p], entry |-> NoServer]]
    /\ email = FALSE
    /\ run = NoRun
    /\ excused = {}
    /\ runs = 0 /\ edits = 0 /\ mishaps = 0

-----------------------------------------------------------------------------
Doing(pc) == run.pc = pc
Active == run.pc \in Stages
Proceed(pc) == run' = [run EXCEPT !.pc = pc]
Exit == run' = [pc |-> "ended", done |-> run.pc \in {"next", "save"}, tools |-> run.tools,
                failed |-> run.failed, placed |-> run.placed, dry |-> run.dry, token |-> run.token]
Mishap == mishaps < MaxMishaps /\ mishaps' = mishaps + 1

(* Before anything is written: server, bearer, hosts, shim. *)

Launch(given, dry) ==
    /\ ~Active /\ runs < MaxRuns
    /\ run' = [pc |-> "probe", token |-> IF given THEN Given ELSE NoToken, dry |-> dry,
               tools |-> {}, left |-> {}, failed |-> {}, placed |-> {}, at |-> CHOOSE t \in Tools : TRUE,
               text |-> Absent]
    /\ runs' = runs + 1
    /\ UNCHANGED <<file, email, ghosts, edits, mishaps>>

ProbeHealth ==
    /\ Doing("probe")
    /\ Proceed(IF run.token = NoToken THEN "signin" ELSE "tools")
    /\ UNCHANGED <<file, email, ghosts, runs, edits, mishaps>>

SignIn ==
    /\ Doing("signin") /\ Proceed("mint")
    /\ UNCHANGED <<file, email, ghosts, runs, edits, mishaps>>

\* The server issues a bearer.  If its answer does not come through, the run ends and
\* nobody holds the bearer.
MintToken ==
    /\ Doing("mint")
    /\ \/ run' = [run EXCEPT !.pc = "tools", !.token = runs] /\ UNCHANGED mishaps
       \/ Mishap /\ Exit
    /\ UNCHANGED <<file, email, ghosts, runs, edits>>

ResolveTools(T) ==
    /\ Doing("tools")
    /\ IF T = {} THEN Exit ELSE run' = [run EXCEPT !.pc = "shim", !.tools = T, !.left = T]
    /\ UNCHANGED <<file, email, ghosts, runs, edits, mishaps>>

\* The shim is the one a flag names, or the one next to the installer, or whatever PATH
\* offers: found or not, working or not, and chosen or not.
ShimStates == {"missing", "broken", "good"}

\* A shim that was chosen is started once; one that PATH offers is only looked at.
ShimRefused(state, chosen, skip) ==
    \/ state = "missing"
    \/ state = "broken" /\ chosen /\ ~skip /\ ~run.dry

Preflight(state, chosen, skip) ==
    /\ Doing("shim")
    /\ IF run.tools \cap Stdio # {} /\ ShimRefused(state, chosen, skip)
       THEN Exit
       ELSE Proceed("confirm")
    /\ UNCHANGED <<file, email, ghosts, runs, edits, mishaps>>

Confirm ==
    /\ Doing("confirm")
    /\ \/ Proceed("stage")
       \/ ~run.dry /\ Exit
    /\ UNCHANGED <<file, email, ghosts, runs, edits, mishaps>>

Stage ==
    /\ Doing("stage") /\ Proceed("next")
    /\ UNCHANGED <<file, email, ghosts, runs, edits, mishaps>>

GiveUp ==
    /\ run.pc \in {"probe", "signin", "mint", "tools", "stage"} /\ Mishap /\ Exit
    /\ UNCHANGED <<file, email, ghosts, runs, edits>>

-----------------------------------------------------------------------------
(* Host by host. *)

NextTool(t) ==
    /\ Doing("next") /\ t \in run.left
    /\ run' = [run EXCEPT !.pc = "skill", !.at = t, !.left = @ \ {t}]
    /\ UNCHANGED <<file, email, ghosts, runs, edits, mishaps>>

AllTried ==
    /\ Doing("next") /\ run.left = {}
    /\ IF run.dry THEN Exit ELSE Proceed("save")
    /\ UNCHANGED <<file, email, ghosts, runs, edits, mishaps>>

\* A failure of one step is noted against the host, and its other steps still run.
After(pc) == CASE pc \in {"skill", "copying"} -> "read"
               [] pc \in {"read", "write", "fill"} -> "commands"
               [] pc \in {"commands", "placing"} -> "next"

HostFails ==
    /\ run.pc \in {"skill", "copying", "read", "write", "fill", "commands", "placing"} /\ Mishap
    /\ run' = [run EXCEPT !.pc = After(@), !.failed = @ \cup {run.at}]
    /\ excused' = IF Doing("fill") THEN excused \cup {ConfigPath[run.at]} ELSE excused
    /\ UNCHANGED <<file, email, kept, runs, edits>>

\* A bundle is copied file by file over what is there: it is in place at the end.
Place(part, pc) ==
    run' = [run EXCEPT !.pc = pc, !.placed = @ \cup {<<run.at, part>>}]

InstallSkill ==
    /\ \/ Doing("skill") /\ Proceed(IF run.dry THEN "read" ELSE "copying")
       \/ Doing("copying") /\ Place("skill", "read")
    /\ UNCHANGED <<file, email, ghosts, runs, edits, mishaps>>

InstallCommands ==
    /\ \/ /\ Doing("commands")
          /\ Proceed(IF run.dry \/ run.at \notin Commanded THEN "next" ELSE "placing")
       \/ Doing("placing") /\ Place("commands", "next")
    /\ UNCHANGED <<file, email, ghosts, runs, edits, mishaps>>

Transport(t) == IF t \in Stdio THEN "stdio" ELSE "http"
BuildMcpEntry(t) == [token |-> run.token, via |-> Transport(t)]

\* What the tolerant parsers make of a text: nothing of one that does not parse.
ParseLoose(p, f) ==
    IF f.st # "whole" \/ (p \notin Toml /\ Comments \in f.things)
    THEN Absent
    ELSE [f EXCEPT !.things = @ \ {Comments}]

\* Mutant: the document is rendered from the entry alone.
MergeAlone(p, f, e) == [Absent EXCEPT !.st = "whole", !.entry = e]
MergeEntry(p, f, e) == [ParseLoose(p, f) EXCEPT !.st = "whole", !.entry = e]

\* Mutant: any entry of ours counts as in sync, whatever bearer it holds.
InSyncAny(p, f, e) == ParseLoose(p, f).entry # NoServer
InSync(p, f, e) == ParseLoose(p, f).entry = e

\* InstallMcp up to the write: nothing to do without an adapter, for an entry that is in
\* sync, or in a dry run.
ReadConfig ==
    /\ Doing("read")
    /\ LET p == ConfigPath[run.at] IN
       IF p = NoPath \/ run.dry \/ InSync(p, file[p], BuildMcpEntry(run.at))
       THEN Proceed("commands")
       ELSE run' = [run EXCEPT !.pc = "write", !.text = file[p]]
    /\ UNCHANGED <<file, email, ghosts, runs, edits, mishaps>>

\* os.WriteFile truncates the file, and then fills it.
Truncate ==
    /\ Doing("write")
    /\ LET p == ConfigPath[run.at] IN
       /\ file' = [file EXCEPT ![p] = [Absent EXCEPT !.st = "torn"]]
       /\ excused' = IF file[p] # run.text \/ ParseLoose(p, run.text).things # run.text.things
                     THEN excused \cup {p}
                     ELSE excused
    /\ Proceed("fill")
    /\ UNCHANGED <<email, kept, runs, edits, mishaps>>

Fill ==
    /\ Doing("fill")
    /\ LET p == ConfigPath[run.at] IN
       file' = [file EXCEPT ![p] = MergeEntry(p, run.text, BuildMcpEntry(run.at))]
    /\ run' = [run EXCEPT !.pc = "commands", !.text = Absent]
    /\ UNCHANGED <<email, ghosts, runs, edits, mishaps>>

\* Whatever became of the hosts, the state file is written over, best effort; a run
\* that was given its bearer has no e-mail address to remember.
SaveState ==
    /\ Doing("save")
    /\ \/ email' = (run.token # Given) /\ UNCHANGED mishaps
       \/ Mishap /\ UNCHANGED email
    /\ Exit
    /\ UNCHANGED <<file, ghosts, runs, edits>>

-----------------------------------------------------------------------------
(* The machine around the run. *)

\* The run is interrupted.
Interrupt ==
    /\ Active /\ Mishap
    /\ run' = NoRun
    /\ excused' = IF Doing("fill") THEN excused \cup {ConfigPath[run.at]} ELSE excused
    /\ UNCHANGED <<file, email, kept, runs, edits>>

\* A host or its user edits a configuration it can read, and leaves our entry alone.
Edit(p, T) ==
    /\ file[p].st # "torn" /\ T # file[p].things /\ edits < MaxEdits
    /\ file' = [file EXCEPT ![p] = [@ EXCEPT !.st = "whole", !.things = T]]
    /\ kept' = [kept EXCEPT ![p] = (@ \ (file[p].things \ T)) \cup T]
    /\ edits' = edits + 1
    /\ UNCHANGED <<email, run, excused, runs, mishaps>>

InstallNext ==
    \/ \E given, dry \in BOOLEAN : Launch(given, dry)
    \/ ProbeHealth \/ SignIn \/ MintToken \/ Confirm \/ Stage \/ GiveUp
    \/ \E state \in ShimStates, chosen, skip \in BOOLEAN :
          Preflight(state, chosen, skip)
    \/ \E T \in Selections : ResolveTools(T)
    \/ \E t \in Tools : NextTool(t)
    \/ AllTried \/ HostFails \/ InstallSkill \/ InstallCommands \/ ReadConfig \/ Truncate \/ Fill \/ SaveState
    \/ Interrupt
    \/ \E p \in Paths, T \in SUBSET Things : Edit(p, T)

InstallSpec == InstallInit /\ [][InstallNext]_installVars

-----------------------------------------------------------------------------
(* What owners keep in a configuration is still there, whole, unless the file  *)
(* was left torn by a write that did not finish, was edited between the read   *)
(* and the write of a run, or held a text the tolerant parse does not carry    *)
(* over.  In particular two hosts that share a file, and a second run, do not  *)
(* undo each other.                                                            *)
OwnersKeep ==
    \A p \in Paths \ excused :
        (Active /\ Doing("fill") /\ ConfigPath[run.at] = p) \/ kept[p] \subseteq file[p].things

(* A run that reached its end, whichever hosts it failed at, has served every   *)
(* other host it was asked for: the bundles are complete, and the host's        *)
(* configuration names the bearer of this run, over the transport the host      *)
(* understands, unless a failure at a host of the same file tore it.            *)
HostsServed ==
    Doing("ended") /\ run.done /\ ~run.dry =>
        \A t \in run.tools \ run.failed :
            LET p == ConfigPath[t] IN
            /\ <<t, "skill">> \in run.placed
            /\ t \in Commanded => <<t, "commands">> \in run.placed
            /\ \/ p = NoPath
               \/ file[p].entry = BuildMcpEntry(t)
               \/ file[p].st = "torn" /\ \E u \in run.failed : ConfigPath[u] = p
=============================================================================
