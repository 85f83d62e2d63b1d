--------------------------- MODULE FactExtraction ---------------------------
(***************************************************************************)
(* Facts distilled from memories by an LLM.  A stored chunk carries a debt *)
(* marker (facts_pending_at); a goroutine detached from the request calls  *)
(* the extractor, checks that the chunk still holds the text it was given, *)
(* inserts the facts one by one and clears the marker if the text is still *)
(* the same.  An update rewrites the chunk, deletes its facts, re-arms the *)
(* marker and starts another goroutine; a forget deletes chunk and facts;  *)
(* the reconciler of any replica restarts the extraction of marked chunks. *)
(* All of these interleave statement by statement.                         *)
(***************************************************************************)
EXTENDS Naturals

CONSTANTS
    Chunks,         \* ids of source entries, never reused
    Contents,       \* texts a chunk can hold
    Facts,          \* fact texts; one scope, so at most one row per text
    FactsOf,        \* what the extractor distils from a text
    NoChunk,        \* source of a fact text that has no row
    Handlers,       \* request handlers (remember, update, forget)
    Workers,        \* extraction goroutines, of requests and of reconcilers
    MaxWrites,      \* bound: updates in a run
    MaxFaults       \* bound: failed calls and dead goroutines in a run

ASSUME FactExtractionAssumption ==
    /\ Contents # {}
    /\ FactsOf \in [Contents -> SUBSET Facts]
    /\ NoChunk \notin Chunks
    /\ MaxWrites \in Nat
    /\ MaxFaults \in Nat

VARIABLES
    chunk,    \* the source row: status, text, facts_pending_at IS NOT NULL
    owner,    \* metadata.source_chunk_id of the row of each fact text
    hand,     \* what each handler still has to do
    work,     \* what each extraction is at
    done,     \* history: texts of the chunk some extraction stored all facts of
    mark,     \* history: accidents that happened to the chunk (see Marks)
    writes, faults

vars == <<chunk, owner, hand, work, done, mark, writes, faults>>

(***************************************************************************)
(*   crossed  the chunk was rewritten, forgotten or stripped of its facts  *)
(*            while an extraction of it was past its staleness check       *)
(*   abort    an update or forget of it stopped half way                   *)
(*   shared   one of its facts was already stored for another chunk        *)
(***************************************************************************)
Marks == {"crossed", "abort", "shared"}

Idle == [pc |-> "idle"]
Row == [st : {"new", "live", "gone"}, text : Contents, pending : BOOLEAN]
Hand == [job : {"remember", "update", "forget"}, pc : {"delete", "rearm", "spawn"},
         chunk : Chunks, text : Contents]
Work == [pc : {"extract", "insert", "settle"},
         chunk : Chunks, text : Contents, todo : SUBSET Facts]

TypeOK ==
    /\ chunk \in [Chunks -> Row]
    /\ owner \in [Facts -> Chunks \cup {NoChunk}]
    /\ hand \in [Handlers -> Hand \cup {Idle}]
    /\ work \in [Workers -> Work \cup {Idle}]
    /\ done \in [Chunks -> SUBSET Contents]
    /\ mark \in [Chunks -> SUBSET Marks]
    /\ writes \in Nat
    /\ faults \in Nat

Live(c) == chunk[c].st = "live"
Gone(c) == chunk[c].st = "gone"
HandAt(h, pc) == hand[h] # Idle /\ hand[h].pc = pc
WorkAt(w, pc) == work[w] # Idle /\ work[w].pc = pc

\* An extraction of c that has passed its staleness check and not finished.
PastCheck(c) ==
    \E w \in Workers : work[w] # Idle /\ work[w].chunk = c /\ work[w].pc \in {"insert", "settle"}

Init ==
    /\ chunk \in [Chunks -> {r \in Row : r.st = "new" /\ ~r.pending}]
    /\ \A c, d \in Chunks : chunk[c].text = chunk[d].text
    /\ owner = [f \in Facts |-> NoChunk]
    /\ hand = [h \in Handlers |-> Idle]
    /\ work = [w \in Workers |-> Idle]
    /\ done = [c \in Chunks |-> {}]
    /\ mark = [c \in Chunks |-> {}]
    /\ writes = 0
    /\ faults = 0

-----------------------------------------------------------------------------
Fail == faults < MaxFaults /\ faults' = faults + 1
Marked(c, ms) == mark' = [mark EXCEPT ![c] = @ \cup ms]
Crossing(c) == IF PastCheck(c) THEN {"crossed"} ELSE {}
HandTo(h, pc) == hand' = [hand EXCEPT ![h].pc = pc]
HandDone(h) == hand' = [hand EXCEPT ![h] = Idle]
WorkDone(w) == work' = [work EXCEPT ![w] = Idle]

\* The content-hash index: no two stored chunks of the scope hold the same text.
Unused(x, c) == \A d \in Chunks \ {c} : Live(d) => chunk[d].text # x

\* deleteDerivedFacts: every row whose source_chunk_id is c, in one transaction.
DeleteDerived(c) ==
    /\ owner' = [f \in Facts |-> IF owner[f] = c THEN NoChunk ELSE owner[f]]
    /\ Marked(c, Crossing(c))

-----------------------------------------------------------------------------
(* Request handlers. *)

\* persistRemember inserts the chunk with its debt marker armed.
Remember(h, c, x) ==
    /\ hand[h] = Idle
    /\ chunk[c].st = "new" /\ Unused(x, c)
    /\ chunk' = [chunk EXCEPT ![c] = [st |-> "live", text |-> x, pending |-> TRUE]]
    /\ hand' = [hand EXCEPT ![h] = [job |-> "remember", pc |-> "spawn", chunk |-> c, text |-> x]]
    /\ UNCHANGED <<owner, work, done, mark, writes, faults>>

\* InsertEntry lost the race to a concurrent writer of the same text: the handler
\* goes on with the winner's id, and extracts it once more.
RememberLoses(h, c) ==
    /\ hand[h] = Idle
    /\ Live(c) /\ writes < MaxWrites /\ writes' = writes + 1
    /\ hand' = [hand EXCEPT ![h] = [job |-> "remember", pc |-> "spawn", chunk |-> c,
                                    text |-> chunk[c].text]]
    /\ UNCHANGED <<chunk, owner, work, done, mark, faults>>

\* UpdateEntry commits the new text, and leaves the debt marker as it is.
UpdateText(h, c, x) ==
    /\ hand[h] = Idle
    /\ Live(c) /\ Unused(x, c)
    /\ writes < MaxWrites /\ writes' = writes + 1
    /\ chunk' = [chunk EXCEPT ![c].text = x]
    /\ hand' = [hand EXCEPT ![h] = [job |-> "update", pc |-> "delete", chunk |-> c, text |-> x]]
    /\ Marked(c, Crossing(c))
    /\ UNCHANGED <<owner, work, done, faults>>

\* DeleteEntry commits; the facts go in a transaction of their own.
Forget(h, c) ==
    /\ hand[h] = Idle
    /\ Live(c)
    /\ chunk' = [chunk EXCEPT ![c].st = "gone", ![c].pending = FALSE]
    /\ hand' = [hand EXCEPT ![h] = [job |-> "forget", pc |-> "delete", chunk |-> c,
                                    text |-> chunk[c].text]]
    /\ Marked(c, Crossing(c))
    /\ UNCHANGED <<owner, work, done, writes, faults>>

HandDelete(h) ==
    /\ HandAt(h, "delete")
    /\ DeleteDerived(hand[h].chunk)
    /\ IF hand[h].job = "update" THEN HandTo(h, "rearm") ELSE HandDone(h)
    /\ UNCHANGED <<chunk, work, done, writes, faults>>

\* The update's GetEntry found the row gone: nothing left to do.
UpdateFindsNothing(h) ==
    /\ HandAt(h, "delete") /\ hand[h].job = "update"
    /\ Gone(hand[h].chunk)
    /\ HandDone(h)
    /\ UNCHANGED <<chunk, owner, work, done, mark, writes, faults>>

\* DeleteDerivedFacts failed: logged, and the handler goes on.
HandDeleteFails(h) ==
    /\ HandAt(h, "delete")
    /\ Fail
    /\ Marked(hand[h].chunk, {"abort"})
    /\ IF hand[h].job = "update" THEN HandTo(h, "rearm") ELSE HandDone(h)
    /\ UNCHANGED <<chunk, owner, work, done, writes>>

\* Mutant: the marker of the rewritten chunk is left as it was.
RearmSkipped(h) ==
    /\ HandAt(h, "rearm")
    /\ HandTo(h, "spawn")
    /\ UNCHANGED <<chunk, owner, work, done, mark, writes, faults>>

\* SetFactsPendingAt(now)
Rearm(h) ==
    /\ HandAt(h, "rearm")
    /\ chunk' = IF Live(hand[h].chunk) THEN [chunk EXCEPT ![hand[h].chunk].pending = TRUE] ELSE chunk
    /\ HandTo(h, "spawn")
    /\ UNCHANGED <<owner, work, done, mark, writes, faults>>

\* SetFactsPendingAt failed: logged, and the handler goes on.
RearmFails(h) ==
    /\ HandAt(h, "rearm")
    /\ Fail
    /\ Marked(hand[h].chunk, {"abort"})
    /\ HandTo(h, "spawn")
    /\ UNCHANGED <<chunk, owner, work, done, writes>>

\* scheduleFactExtraction
Spawn(h, w) ==
    /\ HandAt(h, "spawn")
    /\ work[w] = Idle
    /\ work' = [work EXCEPT ![w] = [pc |-> "extract", chunk |-> hand[h].chunk,
                                    text |-> hand[h].text, todo |-> {}]]
    /\ HandDone(h)
    /\ UNCHANGED <<chunk, owner, done, mark, writes, faults>>

\* The handler dies, its request is cancelled or a statement of it fails.
HandAbort(h) ==
    /\ hand[h] # Idle
    /\ Fail
    /\ Marked(hand[h].chunk, IF hand[h].pc = "spawn" THEN {} ELSE {"abort"})
    /\ HandDone(h)
    /\ UNCHANGED <<chunk, owner, work, done, writes>>

-----------------------------------------------------------------------------
(* Extraction. *)

\* ListPendingFacts: the claim re-arms the marker, so the row stays claimable; SKIP
\* LOCKED lasts no longer than the claim's own statement.
Claim(w, c) ==
    /\ work[w] = Idle
    /\ Live(c) /\ chunk[c].pending
    /\ work' = [work EXCEPT ![w] = [pc |-> "extract", chunk |-> c,
                                    text |-> chunk[c].text, todo |-> {}]]
    /\ UNCHANGED <<chunk, owner, hand, done, mark, writes, faults>>

\* sourceMoved: a chunk that is gone, or holds another text, has moved.
SourceMoved(w) == ~Live(work[w].chunk) \/ chunk[work[w].chunk].text # work[w].text

\* Mutant: whatever the extractor answers is stored, no matter where the source is by now.
ExtractUnchecked(w) ==
    /\ WorkAt(w, "extract")
    /\ work' = [work EXCEPT ![w].pc = "insert", ![w].todo = FactsOf[work[w].text]]
    /\ UNCHANGED <<chunk, owner, hand, done, mark, writes, faults>>

\* The extractor has answered; the answer is dropped if the source has moved since.
Extract(w) ==
    /\ WorkAt(w, "extract")
    /\ IF SourceMoved(w) THEN WorkDone(w)
       ELSE work' = [work EXCEPT ![w].pc = "insert", ![w].todo = FactsOf[work[w].text]]
    /\ UNCHANGED <<chunk, owner, hand, done, mark, writes, faults>>

\* One fact: an existing row of the same text, of whatever source, is kept as it is.
StoreFact(w, f) ==
    /\ WorkAt(w, "insert") /\ f \in work[w].todo
    /\ owner' = IF owner[f] = NoChunk THEN [owner EXCEPT ![f] = work[w].chunk] ELSE owner
    /\ Marked(work[w].chunk,
              IF owner[f] \in {NoChunk, work[w].chunk} THEN {} ELSE {"shared"})
    /\ work' = [work EXCEPT ![w].todo = @ \ {f}]
    /\ UNCHANGED <<chunk, hand, done, writes, faults>>

AllStored(w) ==
    /\ WorkAt(w, "insert") /\ work[w].todo = {}
    /\ work' = [work EXCEPT ![w].pc = "settle"]
    /\ done' = [done EXCEPT ![work[w].chunk] = @ \cup {work[w].text}]
    /\ UNCHANGED <<chunk, owner, hand, mark, writes, faults>>

\* Mutant: the marker is cleared without the precondition on the text.
SettleUnconditional(w) ==
    /\ WorkAt(w, "settle")
    /\ chunk' = [chunk EXCEPT ![work[w].chunk].pending = FALSE]
    /\ WorkDone(w)
    /\ UNCHANGED <<owner, hand, done, mark, writes, faults>>

\* settleExtraction: cleared only if the row still holds the extracted text.
Settle(w) ==
    /\ WorkAt(w, "settle")
    /\ chunk' = IF SourceMoved(w) THEN chunk
                ELSE [chunk EXCEPT ![work[w].chunk].pending = FALSE]
    /\ WorkDone(w)
    /\ UNCHANGED <<owner, hand, done, mark, writes, faults>>

\* The extractor, a statement or the process fails: the goroutine ends, the marker stays.
WorkFails(w) ==
    /\ work[w] # Idle
    /\ Fail
    /\ WorkDone(w)
    /\ UNCHANGED <<chunk, owner, hand, done, mark, writes>>

-----------------------------------------------------------------------------
Request(h) ==
    \E c \in Chunks :
        \/ Forget(h, c)
        \/ RememberLoses(h, c)
        \/ \E x \in Contents : Remember(h, c, x) \/ UpdateText(h, c, x)

Handle(h) ==
    \/ HandDelete(h)
    \/ UpdateFindsNothing(h)
    \/ Rearm(h)
    \/ \E w \in Workers : Spawn(h, w)

Run(w) ==
    \/ Extract(w)
    \/ \E f \in Facts : StoreFact(w, f)
    \/ AllStored(w)
    \/ Settle(w)

Reconcile == \E w \in Workers, c \in Chunks : Claim(w, c)

Failure ==
    \/ \E h \in Handlers : HandDeleteFails(h) \/ RearmFails(h) \/ HandAbort(h)
    \/ \E w \in Workers : WorkFails(w)

Next ==
    \/ \E h \in Handlers : Request(h) \/ Handle(h)
    \/ \E w \in Workers : Run(w)
    \/ Reconcile
    \/ Failure

Spec == Init /\ [][Next]_vars

(***************************************************************************)
(* A started handler or goroutine keeps running and the reconciler keeps   *)
(* ticking; nothing obliges a request to arrive.                           *)
(***************************************************************************)
FairSpec ==
    /\ Spec
    /\ \A h \in Handlers : WF_vars(Handle(h))
    /\ \A w \in Workers : WF_vars(Run(w))
    /\ WF_vars(Reconcile)

-----------------------------------------------------------------------------
(* Promises. *)

\* An update or a forget of c whose deletion of the facts is still to come.
Cleaning(c) ==
    \E h \in Handlers : HandAt(h, "delete") /\ hand[h].chunk = c
                        /\ (hand[h].job = "forget" \/ Live(c))

\* An update of c that has yet to re-arm the marker.
Rearming(c) ==
    \E h \in Handlers : hand[h] # Idle /\ hand[h].chunk = c /\ hand[h].job = "update"
                        /\ hand[h].pc \in {"delete", "rearm"}

\* A stored fact says what its source says now: stale or sourceless facts exist only
\* until the running update or forget has removed them, unless an extraction was past its
\* check when the source moved, or that update or forget died.
NoStaleFacts ==
    \A f \in Facts, c \in Chunks :
        owner[f] = c
        => \/ Live(c) /\ f \in FactsOf[chunk[c].text]
           \/ Cleaning(c)
           \/ mark[c] \cap {"crossed", "abort"} # {}

\* A chunk without a debt marker has had its present text extracted to the end at some
\* time, whatever ran in between, unless an update of it died before re-arming.
SettledMeansExtracted ==
    \A c \in Chunks :
        Live(c) /\ ~chunk[c].pending
        => chunk[c].text \in done[c] \/ Rearming(c) \/ "abort" \in mark[c]

\* What a stored text says is eventually stored as facts, unless the chunk changes first
\* or one of the marked accidents happened to it.
FactsEventuallyStored ==
    \A c \in Chunks, f \in Facts :
        (Live(c) /\ f \in FactsOf[chunk[c].text])
        ~> (owner[f] # NoChunk \/ ~Live(c) \/ f \notin FactsOf[chunk[c].text] \/ mark[c] # {})
=============================================================================
