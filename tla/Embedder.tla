------------------------------ MODULE Embedder ------------------------------
(***************************************************************************)
(* The embeddings client of one process.  A call embeds one text, for a    *)
(* document (always a request of its own) or for a query, where concurrent *)
(* calls for the same text share the request of the first (the leader) and *)
(* an answer serves for ten minutes.  A request is tried three times, with *)
(* pauses in which the caller's context may end.  The engine then notes    *)
(* how the call went, for the health report.                               *)
(*                                                                         *)
(* A queryEntry is made by one call and is named after it: entry[c] is the *)
(* one call c leads, and its vectors are those of c's text.  An answer     *)
(* that parses counts as one, with or without vectors in it.               *)
(***************************************************************************)
EXTENDS Integers, FiniteSets

CONSTANTS
    Calls,          \* calls of Embed, in all
    NoCall,
    Keys,           \* texts queried
    Kinds,          \* subset of {"query", "document"}
    Attempts,       \* embeddingAttempts of the code: 3
    MaxSize,        \* defaultQueryCacheSize of the code: 256
    TTL,            \* defaultQueryCacheTTL, in ticks
    MaxTime,        \* bound: ticks of the clock
    MaxBadAnswers   \* bound: bad answers and contexts that end

ASSUME EmbedderAssumption ==
    /\ Keys # {} /\ NoCall \notin Calls
    /\ Attempts \in Nat \ {0} /\ TTL \in Nat /\ MaxTime \in Nat

VARIABLES
    call,       \* the locals of each call
    entry,      \* the cache entry each call leads
    m,          \* the cache: the call whose entry a text has
    signal,     \* embedSig: when it last went well and last failed
    now,
    recovered,  \* history: a document has been noted as embedded since the
                \* latest failure, both in the order of their times
    badAnswers

embedderVars == <<call, entry, m, signal, now, recovered, badAnswers>>
cache == <<entry, m>>
health == <<signal, recovered>>

NoEntry == [at |-> 0, done |-> FALSE, err |-> FALSE]
Fresh == [pc |-> "idle", kind |-> "query", key |-> CHOOSE k \in Keys : TRUE, lead |-> NoCall,
          tries |-> 0, alive |-> TRUE, from |-> NoCall, began |-> 0, read |-> 0, refused |-> FALSE]

Locals == [pc : {"idle", "wait", "ask", "pause", "close", "ok", "failed", "noteOk", "noteFailed", "done"},
           kind : Kinds \cup {"query"}, key : Keys, lead : Calls \cup {NoCall},
           tries : 0 .. Attempts - 1, alive : BOOLEAN, from : Calls \cup {NoCall},
           began : 0 .. MaxTime, read : 0 .. MaxTime, refused : BOOLEAN]

EmbedderTypeOK ==
    /\ call \in [Calls -> Locals]
    /\ entry \in [Calls -> [at : 0 .. MaxTime, done : BOOLEAN, err : BOOLEAN]]
    /\ m \in [Keys -> Calls \cup {NoCall}]
    /\ signal \in [ok : -1 .. MaxTime, err : -1 .. MaxTime]
    /\ now \in 0 .. MaxTime /\ recovered \in BOOLEAN /\ badAnswers \in Nat

EmbedderInit ==
    /\ call = [c \in Calls |-> Fresh]
    /\ entry = [c \in Calls |-> NoEntry]
    /\ m = [k \in Keys |-> NoCall]
    /\ signal = [ok |-> -1, err |-> -1]
    /\ now = 0
    /\ recovered = TRUE
    /\ badAnswers = 0

Stands(c, pc) == call[c].pc = pc
Goes(c, pc) == call' = [call EXCEPT ![c].pc = pc]

Cached == {k \in Keys : m[k] # NoCall}
InFlight(k) == m[k] # NoCall /\ ~entry[m[k]].done
Serves(k) == m[k] # NoCall /\ entry[m[k]].done /\ ~entry[m[k]].err /\ now - entry[m[k]].at < TTL
Stale(k) == m[k] # NoCall /\ entry[m[k]].done /\ now - entry[m[k]].at >= TTL

-----------------------------------------------------------------------------
(* The shared queries *)

Query(c, k) == [call[c] EXCEPT !.kind = "query", !.key = k, !.began = now]

\* A document goes straight to the endpoint.
Document(c) ==
    /\ Stands(c, "idle")
    /\ call' = [call EXCEPT ![c].kind = "document", ![c].pc = "ask"]
    /\ UNCHANGED <<cache, health, now, badAnswers>>

Hit(c, k) ==
    /\ Stands(c, "idle")
    /\ Serves(k)
    /\ call' = [call EXCEPT ![c] = [Query(c, k) EXCEPT !.pc = "ok", !.from = m[k]]]
    /\ UNCHANGED <<cache, health, now, badAnswers>>

Follow(c, k) ==
    /\ Stands(c, "idle")
    /\ InFlight(k)
    /\ call' = [call EXCEPT ![c] = [Query(c, k) EXCEPT !.pc = "wait", !.lead = m[k]]]
    /\ UNCHANGED <<cache, health, now, badAnswers>>

\* What evictLocked may leave: without what has expired, or else without one
\* finished entry, whichever the map gives first.
Evicted ==
    IF \E k \in Keys : Stale(k)
    THEN {[k \in Keys |-> IF Stale(k) THEN NoCall ELSE m[k]]}
    ELSE LET finished == {k \in Cached : ~InFlight(k)}
         IN IF finished = {} THEN {m} ELSE {[m EXCEPT ![k] = NoCall] : k \in finished}

\* The cache has nothing usable for the text: this call asks for everyone.
\* (The size is compared before the entry of the text is replaced.)
Lead(c, k) ==
    /\ Stands(c, "idle")
    /\ ~Serves(k)
    /\ ~InFlight(k)
    /\ \E kept \in (IF Cardinality(Cached) >= MaxSize THEN Evicted ELSE {m}) :
         m' = [kept EXCEPT ![k] = c]
    /\ call' = [call EXCEPT ![c] = [Query(c, k) EXCEPT !.pc = "ask", !.lead = c]]
    /\ UNCHANGED <<entry, health, now, badAnswers>>

\* Mutant: the leader's failure is everyone's.
FollowedAll(c) ==
    /\ Stands(c, "wait")
    /\ entry[call[c].lead].done
    /\ call' = [call EXCEPT ![c].pc = IF entry[call[c].lead].err THEN "failed" ELSE "ok",
                            ![c].from = call[c].lead]
    /\ UNCHANGED <<cache, health, now, badAnswers>>

\* The leader has finished: its answer, or a request of one's own.
Followed(c) ==
    /\ Stands(c, "wait")
    /\ entry[call[c].lead].done
    /\ call' = IF entry[call[c].lead].err
               THEN [call EXCEPT ![c].pc = "ask"]
               ELSE [call EXCEPT ![c].pc = "ok", ![c].from = call[c].lead]
    /\ UNCHANGED <<cache, health, now, badAnswers>>

WaitEnds(c) ==
    /\ Stands(c, "wait")
    /\ ~call[c].alive
    /\ Goes(c, "failed")
    /\ UNCHANGED <<cache, health, now, badAnswers>>

-----------------------------------------------------------------------------
(* The request *)

Leads(c) == call[c].kind = "query" /\ call[c].lead = c

\* A request has ended.  A leader stores how, and a failure leaves the cache
\* (unless the entry has been replaced) before anyone is told.
Settle(c, pc) ==
    IF Leads(c)
    THEN /\ entry' = [entry EXCEPT ![c].at = now, ![c].err = pc = "failed"]
         /\ m' = IF pc = "failed" /\ m[call[c].key] = c
                 THEN [m EXCEPT ![call[c].key] = NoCall] ELSE m
         /\ call' = [call EXCEPT ![c].pc = "close", ![c].from = IF pc = "ok" THEN c ELSE NoCall,
                                 ![c].refused = pc = "failed"]
    ELSE /\ call' = [call EXCEPT ![c].pc = pc, ![c].from = IF pc = "ok" THEN c ELSE NoCall,
                                 ![c].refused = pc = "failed"]
         /\ UNCHANGED cache

Close(c) ==
    /\ Stands(c, "close")
    /\ entry' = [entry EXCEPT ![c].done = TRUE]
    /\ Goes(c, IF call[c].refused THEN "failed" ELSE "ok")
    /\ UNCHANGED <<m, health, now, badAnswers>>

Answered(c) ==
    /\ Stands(c, "ask")
    /\ call[c].alive
    /\ Settle(c, "ok")
    /\ UNCHANGED <<health, now, badAnswers>>

\* 4xx but 429: no point in trying again.
NonRetryable(c) ==
    /\ Stands(c, "ask")
    /\ call[c].alive
    /\ badAnswers < MaxBadAnswers
    /\ badAnswers' = badAnswers + 1
    /\ Settle(c, "failed")
    /\ UNCHANGED <<health, now>>

\* 5xx, 429, no connection, a time-out, or the context has ended.
Retryable(c) ==
    /\ Stands(c, "ask")
    /\ IF call[c].alive THEN badAnswers < MaxBadAnswers /\ badAnswers' = badAnswers + 1 ELSE UNCHANGED badAnswers
    /\ IF call[c].tries + 1 = Attempts
       THEN Settle(c, "failed")
       ELSE /\ call' = [call EXCEPT ![c].pc = "pause", ![c].tries = @ + 1]
            /\ UNCHANGED cache
    /\ UNCHANGED <<health, now>>

Again(c) ==
    /\ Stands(c, "pause")
    /\ call[c].alive
    /\ Goes(c, "ask")
    /\ UNCHANGED <<cache, health, now, badAnswers>>

PauseEnds(c) ==
    /\ Stands(c, "pause")
    /\ ~call[c].alive
    /\ Settle(c, "failed")
    /\ UNCHANGED <<health, now, badAnswers>>

\* The caller's context ends: it hung up, or ran out of time.
Cancel(c) ==
    /\ call[c].pc \in {"wait", "ask", "pause"}
    /\ call[c].alive
    /\ badAnswers < MaxBadAnswers
    /\ call' = [call EXCEPT ![c].alive = FALSE]
    /\ badAnswers' = badAnswers + 1
    /\ UNCHANGED <<cache, health, now>>

-----------------------------------------------------------------------------
(* The engine's note of it *)

\* What is left of a call that has its answer.
Told(c) == [Fresh EXCEPT !.kind = call[c].kind, !.key = call[c].key, !.lead = call[c].lead,
                         !.refused = call[c].refused]

\* The clock is read before the signal is locked.  A search notes only that
\* the embedder failed, never that it answered.
ReadClock(c) ==
    /\ call[c].pc \in {"ok", "failed"}
    /\ call' = [call EXCEPT ![c] =
                  CASE Stands(c, "failed") -> [Told(c) EXCEPT !.pc = "noteFailed", !.read = now]
                    [] Stands(c, "ok") /\ call[c].kind = "document" ->
                         [Told(c) EXCEPT !.pc = "noteOk", !.read = now]
                    [] OTHER -> [Told(c) EXCEPT !.pc = "done"]]
    /\ UNCHANGED <<cache, health, now, badAnswers>>

\* Mutant: nothing tells the signal that the embedder is back.
NoteNothing(c) ==
    /\ Stands(c, "noteOk")
    /\ recovered' = (call[c].read >= signal.ok /\ call[c].read >= signal.err)
    /\ call' = [call EXCEPT ![c].pc = "done", ![c].read = 0]
    /\ UNCHANGED <<cache, signal, now, badAnswers>>

\* One that read its clock before another's note moves the time back: such
\* notes do not count as a recovery.
NoteOk(c) ==
    /\ Stands(c, "noteOk")
    /\ signal' = [signal EXCEPT !.ok = call[c].read]
    /\ recovered' = (call[c].read >= signal.ok /\ call[c].read >= signal.err)
    /\ call' = [call EXCEPT ![c].pc = "done", ![c].read = 0]
    /\ UNCHANGED <<cache, now, badAnswers>>

NoteFailed(c) ==
    /\ Stands(c, "noteFailed")
    /\ signal' = [signal EXCEPT !.err = call[c].read]
    /\ recovered' = FALSE
    /\ call' = [call EXCEPT ![c].pc = "done", ![c].read = 0]
    /\ UNCHANGED <<cache, now, badAnswers>>

\* What the health report shows.
Failing == signal.err > signal.ok

Tick ==
    /\ now < MaxTime
    /\ now' = now + 1
    /\ UNCHANGED <<call, cache, health, badAnswers>>

Start(c) ==
    \/ "document" \in Kinds /\ Document(c)
    \/ "query" \in Kinds /\ \E k \in Keys : Hit(c, k) \/ Follow(c, k) \/ Lead(c, k)

CallStep(c) ==
    \/ Followed(c) \/ WaitEnds(c)
    \/ Answered(c) \/ NonRetryable(c) \/ Retryable(c) \/ Again(c) \/ PauseEnds(c) \/ Close(c)
    \/ ReadClock(c) \/ NoteOk(c) \/ NoteFailed(c)

EmbedderNext ==
    \/ \E c \in Calls : Start(c) \/ CallStep(c) \/ Cancel(c)
    \/ Tick

EmbedderSpec == EmbedderInit /\ [][EmbedderNext]_embedderVars

-----------------------------------------------------------------------------
\* A call fails only through a request of its own or because its own caller
\* gave up: sharing a request never hands one caller another's failure.
OwnFailureOnly ==
    \A c \in Calls : Stands(c, "failed") => call[c].refused \/ ~call[c].alive

\* A call that shares takes vectors that were really fetched, and fetched
\* less than the TTL before it asked, or by the request it waited for.
FreshAnswers ==
    \A c \in Calls : Stands(c, "ok") =>
        LET f == call[c].from
        IN /\ f # NoCall
           /\ ~call[f].refused
           /\ f # c => /\ call[f].key = call[c].key
                       /\ call[c].lead = f \/ call[c].began - entry[f].at < TTL

\* At most one call at a time asks for everyone about a text; others ask
\* about it on their own only once a leader of theirs has failed.
OneLeader ==
    /\ \A c, d \in Calls :
         Leads(c) /\ Leads(d) /\ call[c].key = call[d].key
         /\ call[c].pc \in {"ask", "pause"} /\ call[d].pc \in {"ask", "pause"} => c = d
    /\ \A c \in Calls : call[c].kind = "query" /\ Stands(c, "ask") /\ ~Leads(c) =>
         entry[call[c].lead].done /\ entry[call[c].lead].err

\* The three together.
SharedSoundly == OwnFailureOnly /\ FreshAnswers /\ OneLeader

\* Once the latest failure of the embedder is followed by a document it
\* embedded, the health report does not call it failing.
HealthRecovers == recovered => ~Failing

\* Sharing a request or an answer harms nobody, and the health report recovers.
EmbedderSound == SharedSoundly /\ HealthRecovers
=============================================================================
