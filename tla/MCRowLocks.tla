----------------------------- MODULE MCRowLocks -----------------------------
(* One run for three components that meet in the database only: a behaviour    *)
(* belongs to the one that part names, and leaves the variables of the others  *)
(* alone.                                                                      *)
(*                                                                             *)
(* RowLocks: two memories and two edges between them, in heap order.           *)
(* Startup: two processes, of one build or the second a build behind, over an  *)
(* empty database or one an old build left; the environment complete, without  *)
(* a bootstrap admin, with a pool of one, and with each feature half set.      *)
(*                                                                             *)
(* Enrichment, "graph": two memories, the reconciler and every failure;        *)
(* "read": three memories, written one after the other, one of them hidden     *)
(* from the reader, no failure and no reconciler; it reads between two writes, *)
(* and meanwhile memories are deleted.                                         *)
EXTENDS RowLocks, Startup, Enrichment, TLC

CONSTANTS t1, t2, a, b, rerank, extract

VARIABLE part

TwoEnds == [e \in {1, 2} |-> {1, 2}]

TwoBuilds == {(a :> 2) @@ (b :> 2), (a :> 2) @@ (b :> 1)}
Complete == [flag |-> [f \in Features |-> "true"], endpoint |-> [f \in Features |-> TRUE],
             secret |-> TRUE, pool |-> 2, admin |-> TRUE]
FiveEnvs == {Complete, [Complete EXCEPT !.admin = FALSE], [Complete EXCEPT !.pool = 1]}
    \cup {[Complete EXCEPT !.flag = [f \in Features |-> "false"], !.endpoint[x] = FALSE] : x \in Features}
Empty == [journal |-> <<0, 0>>, legacy |-> FALSE, users |-> FALSE, fts |-> "none",
          twins |-> FALSE, unique |-> FALSE, boot |-> "none", other |-> FALSE]
Used == [Empty EXCEPT !.journal = <<1, 0>>, !.legacy = TRUE, !.twins = TRUE, !.boot = "user"]

TwoDatabases == {Empty, Used}

ByNearness == [i \in Ids |-> [j \in Ids |-> IF j = i THEN 0 ELSE j]]

InRowLocks == part = "rows" /\ UNCHANGED <<part, startupVars, graphVars>>
InStartup == part = "startup" /\ UNCHANGED <<part, vars, graphVars>>
InGraph == part = "graph" /\ UNCHANGED <<part, vars, startupVars>>
InRead == part = "read" /\ UNCHANGED <<part, vars, startupVars>>
InEither == /\ part = "graph" \/ (part = "read" /\ reader.pc = "idle")
            /\ UNCHANGED <<part, vars, startupVars>>
Quiet == \A w \in Jobs : job[w].pc = "idle"
Here == IF part = "graph" THEN {1, 2} ELSE {i \in Ids : Quiet}

MCInit ==
    /\ part \in {"rows", "startup", "graph", "read"}
    /\ Init /\ StartupInit /\ GraphInit
    /\ part # "startup" => env = Complete /\ db = Empty /\ proc[b].build = 2

MCNext ==
    \/ InRowLocks /\ Next
    \/ \E r \in Replicas : InStartup /\ Start(r)
    \/ \E r \in Replicas : InStartup /\ Load(r)
    \/ \E r \in Replicas : InStartup /\ Connect(r)
    \/ \E r \in Replicas : InStartup /\ Lock(r)
    \/ \E r \in Replicas : InStartup /\ Cleanup(r)
    \/ \E r \in Replicas : InStartup /\ BetterAuth(r)
    \/ \E r \in Replicas : InStartup /\ ReadJournal(r)
    \/ \E r \in Replicas : InStartup /\ Apply(r)
    \/ \E r \in Replicas : InStartup /\ AddColumn(r)
    \/ \E r \in Replicas : InStartup /\ AddIndex(r)
    \/ \E r \in Replicas : InStartup /\ AddUnique(r)
    \/ \E r \in Replicas : InStartup /\ Unlock(r)
    \/ \E r \in Replicas : InStartup /\ Retry(r)
    \/ \E r \in Replicas : InStartup /\ CountAdmins(r)
    \/ \E r \in Replicas : InStartup /\ CreateUser(r)
    \/ \E r \in Replicas : InStartup /\ Promote(r)
    \/ \E r \in Replicas : InStartup /\ JobsDone(r)
    \/ \E r \in Replicas : InStartup /\ StatementFails(r)
    \/ \E r \in Replicas : InStartup /\ UniqueFails(r)
    \/ \E r \in Replicas : InStartup /\ Deadline(r)
    \/ \E r \in Replicas : InStartup /\ LoseLock(r)
    \/ \E r \in Replicas : InStartup /\ SeedFails(r)
    \/ \E r \in Replicas : InStartup /\ Stop(r)
    \/ \E r \in Replicas : InStartup /\ Crash(r)
    \/ \E i \in Here : InEither /\ Remember(i)
    \/ \E i \in Ids : InGraph /\ EmbedFails(i)
    \/ \E i \in Ids : InEither /\ Upsert(i)
    \/ \E i \in Ids : InEither /\ CheckCap(i)
    \/ \E i \in Ids : InEither /\ Schedule(i)
    \/ \E i \in Ids : InGraph /\ Reindex(i)
    \/ \E i \in Ids : (InEither \/ InRead) /\ Forget(i)
    \/ \E i \in Ids : InGraph /\ ReapOrphan(i)
    \/ \E i \in Ids : InGraph /\ Abandon(i)
    \/ \E w \in Jobs : InEither /\ Search(w)
    \/ \E w \in Jobs : InEither /\ Link(w)
    \/ \E w \in Jobs : InEither /\ LinkFails(w)
    \/ \E w \in Jobs : InEither /\ ClearMarker(w)
    \/ \E w \in Jobs : InGraph /\ SearchFails(w)
    \/ \E r \in Reconcilers : InGraph /\ ListPending(r)
    \/ \E r \in Reconcilers : InGraph /\ NextRow(r)
    \/ \E i \in Ids : InRead /\ ReadSeed(i) /\ Quiet
    \/ \E i \in Ids : InRead /\ LoadHit(i)
    \/ InRead /\ WalkEdges
    \/ InRead /\ Answer
    \/ InGraph /\ Restart

\* The fairness of Startup and, in "graph", that of Enrichment.
MCSpec ==
    /\ MCInit /\ [][MCNext]_<<vars, part, startupVars, graphVars>>
    /\ \A r \in Replicas : /\ WF_startupVars(InStartup /\ Proceed(r))
                           /\ SF_startupVars(InStartup /\ Lock(r))
    /\ \A i \in {1, 2} : WF_graphVars(InGraph /\ (Write(i) \/ Run(i)))
    /\ \A r \in Reconcilers : WF_graphVars(InGraph /\ (Reconcile(r) \/ Run(r)))
    /\ WF_graphVars(InGraph /\ \E i \in Ids : ReapOrphan(i))

\* ServesForGood of Startup, of the behaviours that start processes.
EventuallyServes == part = "startup" => ServesForGood

\* Every debt is paid (EveryDebtPaid), of the behaviours with a reconciler.
DebtsPaid ==
    \A i \in {1, 2} :
        (part = "graph" /\ i \in debt) ~> (i \notin debt \/ \E h \in Ids : Lost(h))
=============================================================================
