------------------------- MODULE FactExtractionProofs -------------------------
(***************************************************************************)
(* For any number of chunks, facts, handlers and extractions: no stored    *)
(* fact outlives what its source says beyond the accidents named in marks, *)
(* and a chunk without a debt marker has had its text extracted.           *)
(* For any number of bridges, replicas, sessions and lines: what a bridge  *)
(* is asked is answered once, by any replica, within the cap.              *)
(***************************************************************************)
EXTENDS FactExtraction, Mcp, FiniteSetTheorems, TLAPS

\* An extraction only stores facts of its own text.
TodoOfText ==
    \A w \in Workers : work[w] # Idle => work[w].todo \subseteq FactsOf[work[w].text]

\* An extraction past its check works on what its chunk holds, or the chunk is marked.
CheckedIsCurrent ==
    \A w \in Workers :
        work[w] # Idle /\ work[w].pc \in {"insert", "settle"}
        => \/ Live(work[w].chunk) /\ chunk[work[w].chunk].text = work[w].text
           \/ "crossed" \in mark[work[w].chunk]

\* An extraction about to settle has stored all facts of its text.
SettlesAfterStoring ==
    \A w \in Workers :
        work[w] # Idle /\ work[w].pc = "settle" => work[w].text \in done[work[w].chunk]

IInv ==
    /\ TypeOK
    /\ TodoOfText
    /\ CheckedIsCurrent
    /\ SettlesAfterStoring
    /\ NoStaleFacts
    /\ SettledMeansExtracted

-----------------------------------------------------------------------------
(* How a step changes one handler or one extraction. *)

LEMMA HandTyped ==
    ASSUME TypeOK, NEW h \in Handlers, hand[h] # Idle
    PROVE  /\ hand[h] \in Hand
           /\ hand[h].chunk \in Chunks
           /\ hand[h].text \in Contents
BY DEF TypeOK, Hand

LEMMA WorkTyped ==
    ASSUME TypeOK, NEW w \in Workers, work[w] # Idle
    PROVE  /\ work[w] \in Work
           /\ work[w].chunk \in Chunks
           /\ work[w].text \in Contents
           /\ work[w].todo \in SUBSET Facts
BY DEF TypeOK, Work

LEMMA HandToStep ==
    ASSUME TypeOK, NEW h \in Handlers, hand[h] # Idle, NEW pc \in {"delete", "rearm", "spawn"},
           HandTo(h, pc)
    PROVE  /\ hand' \in [Handlers -> Hand \cup {Idle}]
           /\ hand'[h] # Idle
           /\ hand'[h].pc = pc
           /\ hand'[h].job = hand[h].job
           /\ hand'[h].chunk = hand[h].chunk
           /\ \A g \in Handlers : g # h => hand'[g] = hand[g]
<1>1. hand[h] \in Hand
  BY HandTyped
<1>2. [hand[h] EXCEPT !.pc = pc] \in Hand
  BY <1>1 DEF Hand
<1>3. Idle \notin Hand
  BY DEF Hand, Idle
<1>4. hand'[h] = [hand[h] EXCEPT !.pc = pc]
  BY DEF TypeOK, HandTo
<1>5. QED
  BY <1>1, <1>2, <1>3, <1>4 DEF TypeOK, HandTo, Hand

LEMMA HandDoneStep ==
    ASSUME TypeOK, NEW h \in Handlers, HandDone(h)
    PROVE  /\ hand' \in [Handlers -> Hand \cup {Idle}]
           /\ hand'[h] = Idle
           /\ \A g \in Handlers : g # h => hand'[g] = hand[g]
BY DEF TypeOK, HandDone

LEMMA WorkDoneStep ==
    ASSUME TypeOK, NEW w \in Workers, WorkDone(w)
    PROVE  /\ work' \in [Workers -> Work \cup {Idle}]
           /\ work'[w] = Idle
           /\ \A v \in Workers : v # w => work'[v] = work[v]
BY DEF TypeOK, WorkDone

LEMMA MarkedStep ==
    ASSUME TypeOK, NEW c \in Chunks, NEW ms \in SUBSET Marks, Marked(c, ms)
    PROVE  /\ mark' \in [Chunks -> SUBSET Marks]
           /\ mark'[c] = mark[c] \cup ms
           /\ \A d \in Chunks : mark[d] \subseteq mark'[d]
BY DEF TypeOK, Marked

LEMMA CrossingType == ASSUME NEW c PROVE Crossing(c) \in SUBSET Marks
BY DEF Crossing, Marks

-----------------------------------------------------------------------------
(* Preservation of the invariant. *)

LEMMA InvInit == Init => IInv
BY FactExtractionAssumption
DEF Init, IInv, TypeOK, TodoOfText, CheckedIsCurrent, SettlesAfterStoring, NoStaleFacts,
    SettledMeansExtracted, Row, Live

LEMMA InvNext == IInv /\ [Next]_vars => IInv'
<1> SUFFICES ASSUME IInv, [Next]_vars PROVE IInv'
  OBVIOUS
<1> TypeOK
  BY DEF IInv
<1> USE DEF HandAt, WorkAt, Fail
<1>1. ASSUME NEW h \in Handlers, NEW c \in Chunks, NEW x \in Contents, Remember(h, c, x) PROVE IInv'
  <2>1. /\ hand' \in [Handlers -> Hand \cup {Idle}]
        /\ \A g \in Handlers : g # h => hand'[g] = hand[g]
        /\ hand'[h] = [job |-> "remember", pc |-> "spawn", chunk |-> c, text |-> x]
        /\ hand'[h] # Idle
    BY <1>1 DEF Remember, TypeOK, Hand, Idle, Row
  <2>2. TypeOK'
    BY <1>1, <2>1
    DEF Remember, TypeOK, Row
  <2>3. TodoOfText' /\ CheckedIsCurrent' /\ SettlesAfterStoring'
    BY <1>1, <2>1
    DEF Remember, IInv, TodoOfText, CheckedIsCurrent, SettlesAfterStoring, TypeOK, Live, Row
  <2>4. NoStaleFacts'
    BY <1>1, <2>1
    DEF Remember, IInv, NoStaleFacts, Cleaning, TypeOK, Live, Row
  <2>5. SettledMeansExtracted'
    BY <1>1, <2>1
    DEF Remember, IInv, SettledMeansExtracted, Rearming, TypeOK, Live, Row
  <2>6. QED
    BY <2>2, <2>3, <2>4, <2>5 DEF IInv
<1>2. ASSUME NEW h \in Handlers, NEW c \in Chunks, RememberLoses(h, c) PROVE IInv'
  <2>1. /\ hand' \in [Handlers -> Hand \cup {Idle}]
        /\ \A g \in Handlers : g # h => hand'[g] = hand[g]
        /\ hand'[h] = [job |-> "remember", pc |-> "spawn", chunk |-> c, text |-> chunk[c].text]
        /\ hand'[h] # Idle
    BY <1>2 DEF RememberLoses, TypeOK, Hand, Idle, Row
  <2>2. TypeOK'
    BY <1>2, <2>1
    DEF RememberLoses, TypeOK
  <2>3. TodoOfText' /\ CheckedIsCurrent' /\ SettlesAfterStoring'
    BY <1>2, <2>1
    DEF RememberLoses, IInv, TodoOfText, CheckedIsCurrent, SettlesAfterStoring, TypeOK, Live
  <2>4. NoStaleFacts'
    BY <1>2, <2>1
    DEF RememberLoses, IInv, NoStaleFacts, Cleaning, TypeOK, Live
  <2>5. SettledMeansExtracted'
    BY <1>2, <2>1
    DEF RememberLoses, IInv, SettledMeansExtracted, Rearming, TypeOK, Live
  <2>6. QED
    BY <2>2, <2>3, <2>4, <2>5 DEF IInv
<1>3. ASSUME NEW h \in Handlers, NEW c \in Chunks, NEW x \in Contents, UpdateText(h, c, x) PROVE IInv'
  <2>1. /\ hand' \in [Handlers -> Hand \cup {Idle}]
        /\ \A g \in Handlers : g # h => hand'[g] = hand[g]
        /\ hand'[h] = [job |-> "update", pc |-> "delete", chunk |-> c, text |-> x]
        /\ hand'[h] # Idle
    BY <1>3 DEF UpdateText, TypeOK, Hand, Idle, Row
  <2>2. /\ mark' \in [Chunks -> SUBSET Marks]
        /\ mark'[c] = mark[c] \cup Crossing(c)
        /\ \A d \in Chunks : mark[d] \subseteq mark'[d]
    BY <1>3, MarkedStep, CrossingType, HandTyped, WorkTyped DEF UpdateText, Marks
  <2>3. /\ chunk' \in [Chunks -> Row]
        /\ chunk'[c].st = chunk[c].st /\ chunk'[c].text = x /\ chunk'[c].pending = chunk[c].pending
        /\ \A d \in Chunks : d # c => chunk'[d] = chunk[d]
    <3>1. chunk[c] \in Row
      BY DEF TypeOK
    <3>2. [chunk[c] EXCEPT !.text = x] \in Row
      BY <3>1 DEF Row
    <3>3. QED
      BY <1>3, <3>1, <3>2 DEF UpdateText, TypeOK, Row
  <2>4. TypeOK'
    BY <1>3, <2>1, <2>2, <2>3
    DEF UpdateText, TypeOK, Row
  <2>5. TodoOfText' /\ CheckedIsCurrent' /\ SettlesAfterStoring'
    BY <1>3, <2>1, <2>2, <2>3, WorkTyped
    DEF UpdateText, IInv, TodoOfText, CheckedIsCurrent, SettlesAfterStoring, TypeOK, Live, Row,
        Crossing, PastCheck
  <2>6. NoStaleFacts'
    BY <1>3, <2>1, <2>2, <2>3
    DEF UpdateText, IInv, NoStaleFacts, Cleaning, TypeOK, Live, Row
  <2>7. SettledMeansExtracted'
    BY <1>3, <2>1, <2>2, <2>3
    DEF UpdateText, IInv, SettledMeansExtracted, Rearming, TypeOK, Live, Row
  <2>8. QED
    BY <2>4, <2>5, <2>6, <2>7 DEF IInv
<1>4. ASSUME NEW h \in Handlers, NEW c \in Chunks, Forget(h, c) PROVE IInv'
  <2>1. /\ hand' \in [Handlers -> Hand \cup {Idle}]
        /\ \A g \in Handlers : g # h => hand'[g] = hand[g]
        /\ hand'[h] = [job |-> "forget", pc |-> "delete", chunk |-> c, text |-> chunk[c].text]
        /\ hand'[h] # Idle
    BY <1>4 DEF Forget, TypeOK, Hand, Idle, Row
  <2>2. /\ mark' \in [Chunks -> SUBSET Marks]
        /\ mark'[c] = mark[c] \cup Crossing(c)
        /\ \A d \in Chunks : mark[d] \subseteq mark'[d]
    BY <1>4, MarkedStep, CrossingType, HandTyped, WorkTyped DEF Forget, Marks
  <2>3. /\ chunk' \in [Chunks -> Row]
        /\ chunk'[c].st = "gone"
        /\ \A d \in Chunks : d # c => chunk'[d] = chunk[d]
    <3>1. chunk[c] \in Row
      BY DEF TypeOK
    <3>2. [chunk[c] EXCEPT !.st = "gone", !.pending = FALSE] \in Row
      BY <3>1 DEF Row
    <3>3. QED
      BY <1>4, <3>1, <3>2 DEF Forget, TypeOK, Row
  <2>4. TypeOK'
    BY <1>4, <2>1, <2>2, <2>3
    DEF Forget, TypeOK, Row
  <2>5. TodoOfText' /\ CheckedIsCurrent' /\ SettlesAfterStoring'
    BY <1>4, <2>1, <2>2, <2>3, WorkTyped
    DEF Forget, IInv, TodoOfText, CheckedIsCurrent, SettlesAfterStoring, TypeOK, Live, Row,
        Crossing, PastCheck
  <2>6. NoStaleFacts'
    BY <1>4, <2>1, <2>2, <2>3
    DEF Forget, IInv, NoStaleFacts, Cleaning, TypeOK, Live, Row
  <2>7. SettledMeansExtracted'
    BY <1>4, <2>1, <2>2, <2>3
    DEF Forget, IInv, SettledMeansExtracted, Rearming, TypeOK, Live, Row
  <2>8. QED
    BY <2>4, <2>5, <2>6, <2>7 DEF IInv
<1>5. ASSUME NEW h \in Handlers, HandDelete(h) PROVE IInv'
  <2>1. hand[h].chunk \in Chunks
    BY <1>5, HandTyped DEF HandDelete
  <2>2. /\ hand' \in [Handlers -> Hand \cup {Idle}]
        /\ \A g \in Handlers : g # h => hand'[g] = hand[g]
        /\ \/ hand'[h] = Idle /\ hand[h].job # "update"
           \/ hand'[h] # Idle /\ hand'[h].pc = "rearm" /\ hand'[h].job = hand[h].job
              /\ hand'[h].chunk = hand[h].chunk
    BY <1>5, HandToStep, HandDoneStep DEF HandDelete
  <2>3. /\ mark' \in [Chunks -> SUBSET Marks]
        /\ mark'[hand[h].chunk] = mark[hand[h].chunk] \cup Crossing(hand[h].chunk)
        /\ \A d \in Chunks : mark[d] \subseteq mark'[d]
    BY <1>5, MarkedStep, CrossingType, HandTyped, WorkTyped DEF HandDelete, DeleteDerived, Marks
  <2>4. TypeOK'
    BY <1>5, <2>1, <2>2, <2>3, FactExtractionAssumption
    DEF HandDelete, TypeOK, DeleteDerived
  <2>5. TodoOfText' /\ CheckedIsCurrent' /\ SettlesAfterStoring'
    BY <1>5, <2>1, <2>2, <2>3, WorkTyped
    DEF HandDelete, IInv, TodoOfText, CheckedIsCurrent, SettlesAfterStoring, TypeOK, Live,
        DeleteDerived
  <2>6. NoStaleFacts'
    BY <1>5, <2>1, <2>2, <2>3, FactExtractionAssumption
    DEF HandDelete, IInv, NoStaleFacts, Cleaning, TypeOK, Live, DeleteDerived
  <2>7. SettledMeansExtracted'
    BY <1>5, <2>1, <2>2, <2>3
    DEF HandDelete, IInv, SettledMeansExtracted, Rearming, TypeOK, Live, DeleteDerived
  <2>8. QED
    BY <2>4, <2>5, <2>6, <2>7 DEF IInv
<1>6. ASSUME NEW h \in Handlers, UpdateFindsNothing(h) PROVE IInv'
  <2>1. hand[h].chunk \in Chunks
    BY <1>6, HandTyped DEF UpdateFindsNothing
  <2>2. /\ hand' \in [Handlers -> Hand \cup {Idle}]
        /\ \A g \in Handlers : g # h => hand'[g] = hand[g]
        /\ hand'[h] = Idle
    BY <1>6, HandDoneStep DEF UpdateFindsNothing
  <2>3. TypeOK'
    BY <1>6, <2>1, <2>2
    DEF UpdateFindsNothing, TypeOK
  <2>4. TodoOfText' /\ CheckedIsCurrent' /\ SettlesAfterStoring'
    BY <1>6, <2>1, <2>2
    DEF UpdateFindsNothing, IInv, TodoOfText, CheckedIsCurrent, SettlesAfterStoring, TypeOK,
        Live
  <2>5. NoStaleFacts'
    BY <1>6, <2>1, <2>2
    DEF UpdateFindsNothing, IInv, NoStaleFacts, Cleaning, TypeOK, Live, Gone
  <2>6. SettledMeansExtracted'
    BY <1>6, <2>1, <2>2
    DEF UpdateFindsNothing, IInv, SettledMeansExtracted, Rearming, TypeOK, Live, Gone
  <2>7. QED
    BY <2>3, <2>4, <2>5, <2>6 DEF IInv
<1>7. ASSUME NEW h \in Handlers, HandDeleteFails(h) PROVE IInv'
  <2>1. hand[h].chunk \in Chunks
    BY <1>7, HandTyped DEF HandDeleteFails
  <2>2. /\ hand' \in [Handlers -> Hand \cup {Idle}]
        /\ \A g \in Handlers : g # h => hand'[g] = hand[g]
    BY <1>7, HandToStep, HandDoneStep DEF HandDeleteFails
  <2>3. /\ mark' \in [Chunks -> SUBSET Marks]
        /\ mark'[hand[h].chunk] = mark[hand[h].chunk] \cup {"abort"}
        /\ \A d \in Chunks : mark[d] \subseteq mark'[d]
    BY <1>7, MarkedStep, CrossingType, HandTyped, WorkTyped DEF HandDeleteFails, Marks
  <2>4. TypeOK'
    BY <1>7, <2>1, <2>2, <2>3
    DEF HandDeleteFails, TypeOK
  <2>5. TodoOfText' /\ CheckedIsCurrent' /\ SettlesAfterStoring'
    BY <1>7, <2>1, <2>2, <2>3, WorkTyped
    DEF HandDeleteFails, IInv, TodoOfText, CheckedIsCurrent, SettlesAfterStoring, TypeOK, Live
  <2>6. NoStaleFacts'
    BY <1>7, <2>1, <2>2, <2>3
    DEF HandDeleteFails, IInv, NoStaleFacts, Cleaning, TypeOK, Live
  <2>7. SettledMeansExtracted'
    BY <1>7, <2>1, <2>2, <2>3
    DEF HandDeleteFails, IInv, SettledMeansExtracted, Rearming, TypeOK, Live
  <2>8. QED
    BY <2>4, <2>5, <2>6, <2>7 DEF IInv
<1>8. ASSUME NEW h \in Handlers, Rearm(h) PROVE IInv'
  <2>1. hand[h].chunk \in Chunks
    BY <1>8, HandTyped DEF Rearm
  <2>2. /\ hand' \in [Handlers -> Hand \cup {Idle}]
        /\ \A g \in Handlers : g # h => hand'[g] = hand[g]
        /\ hand'[h] # Idle /\ hand'[h].pc = "spawn" /\ hand'[h].job = hand[h].job
        /\ hand'[h].chunk = hand[h].chunk
    BY <1>8, HandToStep DEF Rearm
  <2>3. TypeOK'
    BY <1>8, <2>1, <2>2
    DEF Rearm, TypeOK, Row
  <2>4. TodoOfText' /\ CheckedIsCurrent' /\ SettlesAfterStoring'
    BY <1>8, <2>1, <2>2
    DEF Rearm, IInv, TodoOfText, CheckedIsCurrent, SettlesAfterStoring, TypeOK, Live, Row
  <2>5. NoStaleFacts'
    BY <1>8, <2>1, <2>2
    DEF Rearm, IInv, NoStaleFacts, Cleaning, TypeOK, Live, Row
  <2>6. SettledMeansExtracted'
    BY <1>8, <2>1, <2>2
    DEF Rearm, IInv, SettledMeansExtracted, Rearming, TypeOK, Live, Row
  <2>7. QED
    BY <2>3, <2>4, <2>5, <2>6 DEF IInv
<1>9. ASSUME NEW h \in Handlers, RearmFails(h) PROVE IInv'
  <2>1. hand[h].chunk \in Chunks
    BY <1>9, HandTyped DEF RearmFails
  <2>2. /\ hand' \in [Handlers -> Hand \cup {Idle}]
        /\ \A g \in Handlers : g # h => hand'[g] = hand[g]
        /\ hand'[h] # Idle /\ hand'[h].pc = "spawn" /\ hand'[h].job = hand[h].job
        /\ hand'[h].chunk = hand[h].chunk
    BY <1>9, HandToStep DEF RearmFails
  <2>3. /\ mark' \in [Chunks -> SUBSET Marks]
        /\ mark'[hand[h].chunk] = mark[hand[h].chunk] \cup {"abort"}
        /\ \A d \in Chunks : mark[d] \subseteq mark'[d]
    BY <1>9, MarkedStep, CrossingType, HandTyped, WorkTyped DEF RearmFails, Marks
  <2>4. TypeOK'
    BY <1>9, <2>1, <2>2, <2>3
    DEF RearmFails, TypeOK
  <2>5. TodoOfText' /\ CheckedIsCurrent' /\ SettlesAfterStoring'
    BY <1>9, <2>1, <2>2, <2>3, WorkTyped
    DEF RearmFails, IInv, TodoOfText, CheckedIsCurrent, SettlesAfterStoring, TypeOK, Live
  <2>6. NoStaleFacts'
    BY <1>9, <2>1, <2>2, <2>3
    DEF RearmFails, IInv, NoStaleFacts, Cleaning, TypeOK, Live
  <2>7. SettledMeansExtracted'
    BY <1>9, <2>1, <2>2, <2>3
    DEF RearmFails, IInv, SettledMeansExtracted, Rearming, TypeOK, Live
  <2>8. QED
    BY <2>4, <2>5, <2>6, <2>7 DEF IInv
<1>10. ASSUME NEW h \in Handlers, NEW w \in Workers, Spawn(h, w) PROVE IInv'
  <2>1. /\ hand' \in [Handlers -> Hand \cup {Idle}]
        /\ \A g \in Handlers : g # h => hand'[g] = hand[g]
        /\ hand'[h] = Idle
    BY <1>10, HandDoneStep DEF Spawn
  <2>2. /\ work' \in [Workers -> Work \cup {Idle}]
        /\ \A v \in Workers : v # w => work'[v] = work[v]
        /\ work'[w] = [pc |-> "extract", chunk |-> hand[h].chunk, text |-> hand[h].text, todo |-> {}]
    BY <1>10, HandTyped DEF Spawn, TypeOK, Work, Row
  <2>3. TypeOK'
    BY <1>10, <2>1, <2>2
    DEF Spawn, TypeOK
  <2>4. TodoOfText' /\ CheckedIsCurrent' /\ SettlesAfterStoring'
    BY <1>10, <2>1, <2>2
    DEF Spawn, IInv, TodoOfText, CheckedIsCurrent, SettlesAfterStoring, TypeOK, Live
  <2>5. NoStaleFacts'
    BY <1>10, <2>1, <2>2
    DEF Spawn, IInv, NoStaleFacts, Cleaning, TypeOK, Live
  <2>6. SettledMeansExtracted'
    BY <1>10, <2>1, <2>2
    DEF Spawn, IInv, SettledMeansExtracted, Rearming, TypeOK, Live
  <2>7. QED
    BY <2>3, <2>4, <2>5, <2>6 DEF IInv
<1>11. ASSUME NEW h \in Handlers, HandAbort(h) PROVE IInv'
  <2>1. hand[h].chunk \in Chunks
    BY <1>11, HandTyped DEF HandAbort
  <2>2. /\ hand' \in [Handlers -> Hand \cup {Idle}]
        /\ \A g \in Handlers : g # h => hand'[g] = hand[g]
        /\ hand'[h] = Idle
    BY <1>11, HandDoneStep DEF HandAbort
  <2>3. /\ mark' \in [Chunks -> SUBSET Marks]
        /\ \A d \in Chunks : mark[d] \subseteq mark'[d]
        /\ hand[h].pc # "spawn" => "abort" \in mark'[hand[h].chunk]
    BY <1>11, MarkedStep, HandTyped DEF HandAbort, Marks
  <2>4. TypeOK'
    BY <1>11, <2>1, <2>2, <2>3
    DEF HandAbort, TypeOK
  <2>5. TodoOfText' /\ CheckedIsCurrent' /\ SettlesAfterStoring'
    BY <1>11, <2>1, <2>2, <2>3, WorkTyped
    DEF HandAbort, IInv, TodoOfText, CheckedIsCurrent, SettlesAfterStoring, TypeOK, Live
  <2>6. NoStaleFacts'
    BY <1>11, <2>1, <2>2, <2>3
    DEF HandAbort, IInv, NoStaleFacts, Cleaning, TypeOK, Live
  <2>7. SettledMeansExtracted'
    BY <1>11, <2>1, <2>2, <2>3
    DEF HandAbort, IInv, SettledMeansExtracted, Rearming, TypeOK, Live
  <2>8. QED
    BY <2>4, <2>5, <2>6, <2>7 DEF IInv
<1>12. ASSUME NEW w \in Workers, NEW c \in Chunks, Claim(w, c) PROVE IInv'
  <2>1. /\ work' \in [Workers -> Work \cup {Idle}]
        /\ \A v \in Workers : v # w => work'[v] = work[v]
        /\ work'[w] = [pc |-> "extract", chunk |-> c, text |-> chunk[c].text, todo |-> {}]
    BY <1>12 DEF Claim, TypeOK, Work, Row
  <2>2. TypeOK'
    BY <1>12, <2>1
    DEF Claim, TypeOK
  <2>3. TodoOfText' /\ CheckedIsCurrent' /\ SettlesAfterStoring'
    BY <1>12, <2>1
    DEF Claim, IInv, TodoOfText, CheckedIsCurrent, SettlesAfterStoring, TypeOK, Live
  <2>4. NoStaleFacts'
    BY <1>12, <2>1
    DEF Claim, IInv, NoStaleFacts, Cleaning, TypeOK, Live
  <2>5. SettledMeansExtracted'
    BY <1>12, <2>1
    DEF Claim, IInv, SettledMeansExtracted, Rearming, TypeOK, Live
  <2>6. QED
    BY <2>2, <2>3, <2>4, <2>5 DEF IInv
<1>13. ASSUME NEW w \in Workers, Extract(w) PROVE IInv'
  <2>1. /\ work[w] \in Work /\ work[w].chunk \in Chunks /\ work[w].text \in Contents
    BY <1>13, WorkTyped DEF Extract
  <2>2. /\ work' \in [Workers -> Work \cup {Idle}]
        /\ \A v \in Workers : v # w => work'[v] = work[v]
        /\ \/ work'[w] = Idle
           \/ /\ ~SourceMoved(w)
              /\ work'[w] = [work[w] EXCEPT !.pc = "insert", !.todo = FactsOf[work[w].text]]
    <3>1. CASE SourceMoved(w)
      BY <1>13, <3>1, WorkDoneStep DEF Extract
    <3>2. CASE ~SourceMoved(w)
      <4>1. FactsOf[work[w].text] \in SUBSET Facts
        BY <2>1, FactExtractionAssumption
      <4>2. [work[w] EXCEPT !.pc = "insert", !.todo = FactsOf[work[w].text]] \in Work
        BY <2>1, <4>1 DEF Work
      <4>3. QED
        BY <1>13, <3>2, <4>2 DEF Extract, TypeOK
    <3>3. QED
      BY <3>1, <3>2
  <2>3. TypeOK'
    BY <1>13, <2>1, <2>2
    DEF Extract, TypeOK
  <2>4. TodoOfText' /\ CheckedIsCurrent' /\ SettlesAfterStoring'
    BY <1>13, <2>1, <2>2
    DEF Extract, IInv, TodoOfText, CheckedIsCurrent, SettlesAfterStoring, TypeOK, Live,
        SourceMoved, Work
  <2>5. NoStaleFacts'
    BY <1>13, <2>1, <2>2
    DEF Extract, IInv, NoStaleFacts, Cleaning, TypeOK, Live
  <2>6. SettledMeansExtracted'
    BY <1>13, <2>1, <2>2
    DEF Extract, IInv, SettledMeansExtracted, Rearming, TypeOK, Live
  <2>7. QED
    BY <2>3, <2>4, <2>5, <2>6 DEF IInv
<1>14. ASSUME NEW w \in Workers, NEW f \in Facts, StoreFact(w, f) PROVE IInv'
  <2>1. /\ work[w] \in Work /\ work[w].chunk \in Chunks /\ work[w].todo \in SUBSET Facts
    BY <1>14, WorkTyped DEF StoreFact
  <2>2. /\ work' \in [Workers -> Work \cup {Idle}]
        /\ \A v \in Workers : v # w => work'[v] = work[v]
        /\ work'[w] = [work[w] EXCEPT !.todo = work[w].todo \ {f}]
    BY <1>14, <2>1 DEF StoreFact, TypeOK, Work
  <2>3. /\ mark' \in [Chunks -> SUBSET Marks]
        /\ \A d \in Chunks : mark[d] \subseteq mark'[d]
    BY <1>14, <2>1, MarkedStep DEF StoreFact, Marks
  <2>4. TypeOK'
    BY <1>14, <2>1, <2>2, <2>3
    DEF StoreFact, TypeOK
  <2>5. TodoOfText' /\ CheckedIsCurrent' /\ SettlesAfterStoring'
    BY <1>14, <2>1, <2>2, <2>3
    DEF StoreFact, IInv, TodoOfText, CheckedIsCurrent, SettlesAfterStoring, TypeOK, Live, Work
  <2>6. NoStaleFacts'
    BY <1>14, <2>1, <2>2, <2>3, FactExtractionAssumption
    DEF StoreFact, IInv, NoStaleFacts, Cleaning, TypeOK, Live, TodoOfText, CheckedIsCurrent
  <2>7. SettledMeansExtracted'
    BY <1>14, <2>1, <2>2, <2>3
    DEF StoreFact, IInv, SettledMeansExtracted, Rearming, TypeOK, Live
  <2>8. QED
    BY <2>4, <2>5, <2>6, <2>7 DEF IInv
<1>15. ASSUME NEW w \in Workers, AllStored(w) PROVE IInv'
  <2>1. /\ work[w] \in Work /\ work[w].chunk \in Chunks /\ work[w].text \in Contents
    BY <1>15, WorkTyped DEF AllStored
  <2>2. /\ work' \in [Workers -> Work \cup {Idle}]
        /\ \A v \in Workers : v # w => work'[v] = work[v]
        /\ work'[w] = [work[w] EXCEPT !.pc = "settle"]
    BY <1>15, <2>1 DEF AllStored, TypeOK, Work
  <2>3. /\ done' \in [Chunks -> SUBSET Contents]
        /\ \A d \in Chunks : done[d] \subseteq done'[d]
        /\ work[w].text \in done'[work[w].chunk]
    BY <1>15, <2>1 DEF AllStored, TypeOK
  <2>4. TypeOK'
    BY <1>15, <2>1, <2>2, <2>3
    DEF AllStored, TypeOK
  <2>5. TodoOfText' /\ CheckedIsCurrent' /\ SettlesAfterStoring'
    BY <1>15, <2>1, <2>2, <2>3
    DEF AllStored, IInv, TodoOfText, CheckedIsCurrent, SettlesAfterStoring, TypeOK, Live, Work
  <2>6. NoStaleFacts'
    BY <1>15, <2>1, <2>2, <2>3
    DEF AllStored, IInv, NoStaleFacts, Cleaning, TypeOK, Live
  <2>7. SettledMeansExtracted'
    BY <1>15, <2>1, <2>2, <2>3
    DEF AllStored, IInv, SettledMeansExtracted, Rearming, TypeOK, Live
  <2>8. QED
    BY <2>4, <2>5, <2>6, <2>7 DEF IInv
<1>16. ASSUME NEW w \in Workers, Settle(w) PROVE IInv'
  <2>1. /\ work[w].chunk \in Chunks /\ work[w].text \in done[work[w].chunk]
    BY <1>16, WorkTyped DEF Settle, IInv, SettlesAfterStoring
  <2>2. /\ work' \in [Workers -> Work \cup {Idle}]
        /\ work'[w] = Idle
        /\ \A v \in Workers : v # w => work'[v] = work[v]
    BY <1>16, WorkDoneStep DEF Settle
  <2>3. \A d \in Chunks : chunk'[d].st = chunk[d].st /\ chunk'[d].text = chunk[d].text
    BY <1>16 DEF Settle, TypeOK, Row
  <2>4. TypeOK'
    BY <1>16, <2>1, <2>2, ZenonT(40)
    DEF Settle, TypeOK, Row
  <2>5. /\ UNCHANGED <<done, mark>>
        /\ \A d \in Chunks : Live(d)' = Live(d)
    BY <1>16, <2>3 DEF Settle, Live
  <2>6. TodoOfText' /\ CheckedIsCurrent' /\ SettlesAfterStoring'
    BY <2>1, <2>2, <2>3, <2>5, WorkTyped
    DEF IInv, TodoOfText, CheckedIsCurrent, SettlesAfterStoring, Idle
  <2>7. NoStaleFacts'
    <3>1. UNCHANGED <<owner, hand>> /\ \A d \in Chunks : Cleaning(d)' = Cleaning(d)
      BY <1>16, <2>5 DEF Settle, Cleaning, HandAt
    <3>2. QED
      BY <2>3, <2>5, <3>1 DEF IInv, NoStaleFacts
  <2>8. SettledMeansExtracted'
    BY <1>16, <2>1, <2>2, <2>3
    DEF Settle, IInv, SettledMeansExtracted, Rearming, TypeOK, Live, Row, SourceMoved
  <2>9. QED
    BY <2>4, <2>6, <2>7, <2>8 DEF IInv
<1>17. ASSUME NEW w \in Workers, WorkFails(w) PROVE IInv'
  <2>1. /\ work' \in [Workers -> Work \cup {Idle}]
        /\ work'[w] = Idle
        /\ \A v \in Workers : v # w => work'[v] = work[v]
    BY <1>17, WorkDoneStep DEF WorkFails
  <2>2. TypeOK'
    BY <1>17, <2>1
    DEF WorkFails, TypeOK
  <2>3. TodoOfText' /\ CheckedIsCurrent' /\ SettlesAfterStoring'
    BY <1>17, <2>1
    DEF WorkFails, IInv, TodoOfText, CheckedIsCurrent, SettlesAfterStoring, TypeOK, Live
  <2>4. NoStaleFacts'
    BY <1>17, <2>1
    DEF WorkFails, IInv, NoStaleFacts, Cleaning, TypeOK, Live
  <2>5. SettledMeansExtracted'
    BY <1>17, <2>1
    DEF WorkFails, IInv, SettledMeansExtracted, Rearming, TypeOK, Live
  <2>6. QED
    BY <2>2, <2>3, <2>4, <2>5 DEF IInv
<1>18. CASE UNCHANGED vars
  BY <1>18
  DEF vars, IInv, TypeOK, TodoOfText, CheckedIsCurrent, SettlesAfterStoring, NoStaleFacts,
      SettledMeansExtracted, Cleaning, Rearming, Live
<1>19. QED
  BY <1>1, <1>2, <1>3, <1>4, <1>5, <1>6, <1>7, <1>8, <1>9, <1>10, <1>11, <1>12, <1>13, <1>14,
     <1>15, <1>16, <1>17, <1>18
  DEF Next, Request, Handle, Run, Reconcile, Failure

\* The invariant holds in every reachable state.
THEOREM InvCorrect == Spec => []IInv
BY InvInit, InvNext, PTL DEF Spec

\* Every reachable state is well formed; in particular a fact text has at most one row.
THEOREM TypeCorrect == Spec => []TypeOK
<1>1. IInv => TypeOK
  BY DEF IInv
<1>2. QED
  BY <1>1, InvCorrect, PTL

\* The staleness check and the delete of an update or a forget together keep stale and
\* sourceless facts out (NoStaleFacts), for any number of chunks, texts, handlers,
\* extractions and failures.
THEOREM FactsFollowTheirSource == Spec => []NoStaleFacts
<1>1. IInv => NoStaleFacts
  BY DEF IInv
<1>2. QED
  BY <1>1, InvCorrect, PTL

\* The conditional clearing of the marker keeps the queue honest (SettledMeansExtracted),
\* whatever updates and extractions cross.
THEOREM QueueIsHonest == Spec => []SettledMeansExtracted
<1>1. IInv => SettledMeansExtracted
  BY DEF IInv
<1>2. QED
  BY <1>1, InvCorrect, PTL

-----------------------------------------------------------------------------
(* The transport. *)

\* A session and an id belong to the bridge's user, and what is answered fits the line.
Answerable(b, p) ==
    /\ p.sid # NoId => owners[p.sid] = UserOf[b]
    /\ p.fresh # NoId => owners[p.fresh] = UserOf[b]
    /\ p.pc \in {"lookup", "adopt", "touch", "handle"} => p.sid # NoId
    /\ p.pc \in {"send"} \cup Served => p.answer = "pending"
    /\ p.pc = "send" => ~p.deaf
    /\ p.answer \in {"plain403", "plain404"} => ~signed \/ p.sid \in old
    /\ p.answer \in {"own", "empty"} => p.line.request = (p.answer = "own")
    /\ p.answer = "null" => ~p.line.request \/ Sessionless(p.line, p.sid)

\* What a line has been answered with: nothing yet, an answer of its kind, or an error.
Written(p, o) ==
    IF p = NoPost \/ (p.pc # "done" /\ ~p.deaf)
    THEN o.own = 0 /\ o.null = 0
    ELSE /\ o.own + o.null <= 1
         /\ p.line.request => o.own + o.null = 1
         /\ o.own = 1 => p.line.request
         /\ o.null = 1 => ~p.line.request \/ Sessionless(p.line, p.sid)

PostSound(b, n) ==
    LET p == post[b][n]
    IN  /\ p # NoPost => Answerable(b, p)
        /\ n = Final => p = NoPost \/ (p.line.kind = "delete" /\ ~p.line.request)
        /\ n # Final => Written(p, out[b][n]) /\ (n > lines[b] => p = NoPost)
                        /\ (p # NoPost => p.line.kind # "delete")

PostsSound == \A b \in Bridges, n \in Slots : PostSound(b, n)

SessionsOwned == \A b \in Bridges : session[b] # NoId => owners[session[b]] = UserOf[b]

MInv == McpTypeOK /\ PostsSound /\ SessionsOwned /\ CapHeld

Outs == [Bridges -> [Slots -> [own : Nat, null : Nat]]]
Elsewhere(b, n) == \A c \in Bridges, k \in Slots : c # b \/ k # n => out'[c][k] = out[c][k]

\* What the bridge writes by itself.
LEMMA WriteErrDoes ==
    ASSUME out \in Outs, NEW b \in Bridges, NEW n \in Slots, WriteErr(b, n)
    PROVE  /\ out' \in Outs /\ Elsewhere(b, n) /\ out'[b][n].null = out[b][n].null
           /\ post[b][n].line.request => out'[b][n].own = out[b][n].own + 1
           /\ ~post[b][n].line.request => out'[b][n].own = out[b][n].own
<1>1. CASE post[b][n].line.request
  BY <1>1 DEF WriteErr, Outs, Elsewhere
<1>2. CASE ~post[b][n].line.request
  BY <1>2 DEF WriteErr, Outs, Elsewhere
<1> QED BY <1>1, <1>2

\* What becomes of an answer's body.
LEMMA WriteBodyDoes ==
    ASSUME out \in Outs, NEW b \in Bridges, NEW n \in Slots, WriteBody(b, n)
    PROVE  /\ out' \in Outs /\ Elsewhere(b, n)
           /\ LET a == post[b][n].answer
                  l == post[b][n].line
                  o == out[b][n]
              IN  /\ a = "null" \/ out'[b][n].null = o.null
                  /\ a = "null" => out'[b][n].null = o.null + 1
                  /\ a = "own" \/ (a \notin {"null", "empty"} /\ l.request)
                     => out'[b][n].own = o.own + 1
                  /\ a \in {"null", "empty"} \/ (a # "own" /\ ~l.request)
                     => out'[b][n].own = o.own
<1>1. CASE post[b][n].answer = "own"
  <2>1. out' = [out EXCEPT ![b][n].own = @ + 1] BY <1>1 DEF WriteBody
  <2> QED BY <1>1, <2>1 DEF Outs, Elsewhere
<1>2. CASE post[b][n].answer = "null"
  <2>1. out' = [out EXCEPT ![b][n].null = @ + 1] BY <1>2 DEF WriteBody
  <2> QED BY <1>2, <2>1 DEF Outs, Elsewhere
<1>3. CASE post[b][n].answer = "empty"
  BY <1>3 DEF WriteBody, Outs, Elsewhere
<1>4. CASE post[b][n].answer \notin {"own", "null", "empty"}
  <2>1. WriteErr(b, n) BY <1>4 DEF WriteBody
  <2>2. out[b][n] \in [own : Nat, null : Nat] BY DEF Outs
  <2> QED BY <1>4, <2>1, <2>2, WriteErrDoes
<1> QED BY <1>1, <1>2, <1>3, <1>4

\* One post moves, to where it is sound; the others stay sound meanwhile.
LEMMA PostMoves ==
    ASSUME McpTypeOK, PostsSound, NEW b \in Bridges, NEW n \in Slots, NEW p \in Made, Set(b, n, p),
           \A i \in Ids : owners[i] # NoUser => owners'[i] = owners[i],
           old \subseteq old', signed' = signed, lines' \in [Bridges -> 0..MaxLines],
           \A c \in Bridges : lines[c] <= lines'[c],
           Elsewhere(b, n), PostSound(b, n)'
    PROVE  post' \in [Bridges -> [Slots -> Post]] /\ PostsSound'
<1>1. /\ post' \in [Bridges -> [Slots -> Post]]
      /\ \A c \in Bridges, k \in Slots : c # b \/ k # n => post'[c][k] = post[c][k]
  BY DEF McpTypeOK, Set, Post
<1>2. ASSUME NEW c \in Bridges, NEW k \in Slots, c # b \/ k # n PROVE PostSound(c, k)'
  <2> DEFINE q == post[c][k]
  <2>1. q \in Post /\ post'[c][k] = q /\ out'[c][k] = out[c][k] BY <1>1, <1>2 DEF McpTypeOK, Elsewhere
  <2>2. PostSound(c, k) BY DEF PostsSound
  <2>3. k > lines'[c] => k > lines[c] BY DEF McpTypeOK, Slots, Final
  <2>4. CASE q = NoPost
    BY <2>1, <2>2, <2>3, <2>4 DEF PostSound, Written
  <2>5. CASE q # NoPost
    <3>1. q \in Made BY <2>1, <2>5 DEF Post
    <3>2. Answerable(c, q) BY <2>2, <2>5 DEF PostSound
    <3>3. Answerable(c, q)'
      BY <2>1, <3>1, <3>2, McpAssumption DEF Answerable, Made, Sessionless
    <3> QED BY <2>1, <2>2, <2>3, <3>3 DEF PostSound, Written
  <2> QED BY <2>4, <2>5
<1> QED BY <1>1, <1>2 DEF PostsSound

Moved == post' \in [Bridges -> [Slots -> Post]] /\ PostsSound'

\* A post that is under way goes on to another stage of its way.
LEMMA PostGoesOn ==
    ASSUME McpTypeOK, PostsSound, NEW b \in Bridges, NEW n \in Slots, NEW p \in Made, Set(b, n, p),
           NEW q, q = post[b][n], q \in Made, q.pc # "done", p.pc # "done",
           p.line = q.line, p.deaf = q.deaf, p.sid = q.sid \/ ~p.deaf,
           \A i \in Ids : owners[i] # NoUser => owners'[i] = owners[i],
           UNCHANGED <<signed, old, lines, out>>, Answerable(b, p)'
    PROVE  Moved
<1>1. post'[b][n] = p BY DEF McpTypeOK, Set
<1>2. PostSound(b, n) BY DEF PostsSound
<1>3. PostSound(b, n)'
  <2>1. CASE n = Final BY <1>1, <1>2, <2>1 DEF PostSound, Made, NoPost
  <2>2. CASE n # Final
    <3>1. Written(p, out[b][n]) BY <1>2, <2>2 DEF PostSound, Written, Made, NoPost
    <3> QED BY <1>1, <1>2, <2>2, <3>1 DEF PostSound, Made, NoPost
  <2> QED BY <2>1, <2>2
<1>4. lines' \in [Bridges -> 0..MaxLines] /\ \A c \in Bridges : lines[c] <= lines'[c]
  BY McpAssumption DEF McpTypeOK
<1> QED BY <1>3, <1>4, PostMoves DEF Moved, Elsewhere

\* Whoever is known by its stage was made.
LEMMA Standing ==
    ASSUME McpTypeOK, PostsSound, NEW b \in Bridges, NEW n \in Slots, post[b][n].pc # "none"
    PROVE  post[b][n] \in Made /\ post[b][n] # NoPost /\ Answerable(b, post[b][n])
BY DEF McpTypeOK, Post, NoPost, PostsSound, PostSound

\* The server answers a post, with something that fits its line.
Fits(q, a) ==
    /\ a \in {"own", "empty"} => q.line.request = (a = "own")
    /\ a = "null" => ~q.line.request \/ Sessionless(q.line, q.sid)
    /\ a \in {"plain403", "plain404"} => ~signed \/ q.sid \in old

LEMMA AnswerMoves ==
    ASSUME McpTypeOK, PostsSound, NEW b \in Bridges, NEW n \in Slots, post[b][n].pc \in Served,
           NEW a \in Answers, Answer(b, n, a), Fits(post[b][n], a),
           UNCHANGED <<signed, owners, old, lines, out>>
    PROVE  Moved
<1>1. PICK q \in Made : q = post[b][n] /\ Answerable(b, q) BY Standing DEF Served
<1>2. PICK p \in Made : p = [q EXCEPT !.pc = "header", !.answer = a] BY DEF Made
<1>3. /\ p.pc = "header" /\ p.answer = a /\ p.line = q.line /\ p.deaf = q.deaf
      /\ p.sid = q.sid /\ p.fresh = q.fresh
  BY <1>2 DEF Made
<1>4. Set(b, n, p) BY <1>1, <1>2 DEF Answer
<1>5. Answerable(b, p)' BY <1>1, <1>3 DEF Fits, Answerable, Sessionless, Served
<1>6. q.pc # "done" BY <1>1 DEF Served
<1> QED BY <1>1, <1>3, <1>4, <1>5, <1>6, PostGoesOn

\* The server goes on with a post.
LEMMA ServedOn ==
    ASSUME McpTypeOK, PostsSound, NEW b \in Bridges, NEW n \in Slots, post[b][n].pc \in Served,
           NEW pc \in Served, Set(b, n, [post[b][n] EXCEPT !.pc = pc]),
           pc \in {"lookup", "adopt", "touch", "handle"} => post[b][n].sid # NoId,
           UNCHANGED <<signed, owners, old, lines, out>>
    PROVE  Moved
<1>1. PICK q \in Made : q = post[b][n] /\ Answerable(b, q) BY Standing DEF Served
<1>2. PICK p \in Made : p = [q EXCEPT !.pc = pc] BY DEF Made
<1>3. /\ p.pc = pc /\ p.answer = q.answer /\ p.line = q.line /\ p.deaf = q.deaf
      /\ p.sid = q.sid /\ p.fresh = q.fresh
  BY <1>2 DEF Made
<1>4. Set(b, n, p) BY <1>1, <1>2
<1>5. Answerable(b, p)' BY <1>1, <1>3 DEF Answerable, Sessionless, Served
<1>6. q.pc # "done" /\ pc # "done" BY <1>1 DEF Served
<1> QED BY <1>1, <1>3, <1>4, <1>5, <1>6, PostGoesOn

-----------------------------------------------------------------------------
(* The number of sessions. *)

Known(r, u) == {i \in Ids : reg[r][i] # "none" /\ owners[i] = u}

\* The part of a finite set.
LEMMA Counted ==
    ASSUME NEW S, IsFiniteSet(S), NEW T \in SUBSET S
    PROVE  IsFiniteSet(T) /\ Cardinality(T) \in Nat /\ Cardinality(T) <= Cardinality(S)
BY FS_Subset, FS_CardinalityType

\* No session comes: reaping, restarts, deletions and time.
LEMMA CapShrinks ==
    ASSUME CapHeld, UNCHANGED owners,
           \A r \in Replicas, i \in Ids : reg'[r][i] # "none" => reg[r][i] # "none"
    PROVE  CapHeld'
<1>1. ASSUME NEW r \in Replicas, NEW u \in Users PROVE Count(r, u)' <= MaxPerUser
  <2>1. Known(r, u)' \subseteq Known(r, u) BY DEF Known
  <2>2. IsFiniteSet(Known(r, u)) BY McpAssumption, Counted DEF Known
  <2>3. Cardinality(Known(r, u)') <= Cardinality(Known(r, u)) /\ Cardinality(Known(r, u)') \in Nat
    BY <2>1, <2>2, Counted
  <2>4. Cardinality(Known(r, u)) \in Nat BY <2>2, FS_CardinalityType
  <2>5. Cardinality(Known(r, u)) <= MaxPerUser BY DEF CapHeld, Count, Known
  <2> QED BY <2>3, <2>4, <2>5, McpAssumption DEF Count, Known
<1> QED BY <1>1 DEF CapHeld, Users

\* One session of u comes, where there is room or it was there.
LEMMA CapGrows ==
    ASSUME McpTypeOK, CapHeld, NEW r \in Replicas, NEW i \in Ids, NEW u \in Users, u # NoUser,
           reg' = [reg EXCEPT ![r][i] = "live"], reg[r][i] # "none" \/ Count(r, u) < MaxPerUser,
           owners[i] \in {u, NoUser}, owners' = [owners EXCEPT ![i] = u]
    PROVE  CapHeld'
<1>1. /\ \A s \in Replicas, j \in Ids : s # r \/ j # i => reg'[s][j] = reg[s][j]
      /\ reg'[r][i] # "none"
      /\ \A j \in Ids : j # i => owners'[j] = owners[j]
      /\ owners'[i] = u
  BY DEF McpTypeOK
<1>2. owners[i] = NoUser => \A s \in Replicas : reg[s][i] = "none" BY DEF CapHeld
<1>3. ASSUME NEW s \in Replicas, NEW v \in Users PROVE Count(s, v)' <= MaxPerUser
  <2>1. IsFiniteSet(Known(s, v)) /\ Cardinality(Known(s, v)) <= MaxPerUser
    BY McpAssumption, Counted DEF Known, CapHeld, Count
  <2>2. Cardinality(Known(s, v)) \in Nat BY <2>1, FS_CardinalityType
  <2>3. CASE s = r /\ v = u /\ reg[r][i] = "none"
    <3>1. Known(s, v)' = Known(s, v) \cup {i} BY <1>1, <2>3 DEF Known
    <3>2. Cardinality(Known(s, v)) < MaxPerUser BY <2>3 DEF Known, Count
    <3>3. Cardinality(Known(s, v)') = Cardinality(Known(s, v) \cup {i}) BY <3>1
    <3>4. i \notin Known(s, v) BY <2>3 DEF Known
    <3>5. Cardinality(Known(s, v) \cup {i}) = Cardinality(Known(s, v)) + 1 BY <2>1, <3>4, FS_AddElement
    <3> QED BY <2>2, <3>2, <3>3, <3>5, McpAssumption DEF Known, Count
  <2>4. CASE ~(s = r /\ v = u /\ reg[r][i] = "none")
    <3>1. Known(s, v)' \subseteq Known(s, v)
      BY <1>1, <1>2, <2>4 DEF Known
    <3>2. Cardinality(Known(s, v)') <= Cardinality(Known(s, v)) /\ Cardinality(Known(s, v)') \in Nat
      BY <3>1, <2>1, Counted
    <3> QED BY <2>1, <2>2, <3>2, McpAssumption DEF Known, Count
  <2> QED BY <2>3, <2>4
<1>4. \A s \in Replicas, j \in Ids : reg'[s][j] # "none" => owners'[j] # NoUser
  BY <1>1 DEF CapHeld
<1> QED BY <1>3, <1>4 DEF CapHeld, Users

-----------------------------------------------------------------------------
(* The steps. *)

\* A deployment starts with nothing under way.
LEMMA McpStart == McpInit => MInv
<1> SUFFICES ASSUME McpInit PROVE MInv
  OBVIOUS
<1>1. McpTypeOK /\ PostsSound /\ SessionsOwned
  BY McpAssumption
  DEF McpInit, McpTypeOK, Post, NoPost, Slots, Final, PostsSound, PostSound, Written,
      SessionsOwned
<1>2. CapHeld
  <2>1. ASSUME NEW r \in Replicas, NEW u \in Users PROVE Count(r, u) = 0
    <3>1. {i \in Ids : reg[r][i] # "none" /\ owners[i] = u} = {} BY DEF McpInit
    <3> QED BY <3>1, FS_EmptySet DEF Count
  <2> QED BY <2>1, McpAssumption DEF McpInit, CapHeld
<1> QED BY <1>1, <1>2 DEF MInv

\* What the server does with a post leaves the bridge alone.
Aside == UNCHANGED <<signed, owners, old, session, lines, eof, out, breaks>>

\* What is left to show of a step of the server.
LEMMA ServerKeeps ==
    ASSUME MInv, Moved, Aside, reg' \in [Replicas -> [Ids -> {"none", "live", "idle"}]], CapHeld'
    PROVE  MInv'
BY DEF MInv, Moved, Aside, McpTypeOK, SessionsOwned

\* Nothing happens to the posts.
LEMMA PostsStay ==
    ASSUME McpTypeOK, PostsSound, UNCHANGED <<signed, owners, post, out, lines>>, old \subseteq old'
    PROVE  Moved
<1>1. ASSUME NEW b \in Bridges, NEW n \in Slots PROVE PostSound(b, n)'
  <2>1. PICK q \in Post : q = post[b][n] BY DEF McpTypeOK
  <2>2. PostSound(b, n) BY DEF PostsSound
  <2>3. q # NoPost => Answerable(b, q) /\ q \in Made BY <2>1, <2>2 DEF PostSound, Post
  <2>4. q # NoPost => Answerable(b, q)' BY <2>3 DEF Answerable
  <2> QED BY <2>1, <2>2, <2>4 DEF PostSound
<1> QED BY <1>1 DEF Moved, PostsSound, McpTypeOK

\* No step of a bridge, of a replica or of time breaks the invariant.
LEMMA McpSteps == MInv /\ [McpNext]_mcpVars => MInv'
<1> SUFFICES ASSUME MInv, [McpNext]_mcpVars PROVE MInv'
  OBVIOUS
<1> USE McpAssumption
<1>t. McpTypeOK /\ PostsSound /\ SessionsOwned /\ CapHeld BY DEF MInv
<1>r. reg \in [Replicas -> [Ids -> {"none", "live", "idle"}]] BY <1>t DEF McpTypeOK
<1>c. owners' = owners /\ reg' = reg => CapHeld' BY <1>t, CapShrinks
<1>1. ASSUME NEW b \in Bridges, NEW n \in Slots, Classify(b, n) PROVE MInv'
  <2> DEFINE l == post[b][n].line
  <2>1. post[b][n].pc = "arrive" /\ post[b][n] \in Made /\ l \in Line /\ Aside /\ reg' = reg
    BY <1>1, <1>t, Standing DEF Classify, Under, Made, Aside
  <2>2. l.kind = "delete" => ~l.request
    BY <1>t, <2>1 DEF PostsSound, PostSound, NoPost
  <2>3. CASE Refused(l)
    <3>1. Answer(b, n, "null") BY <1>1, <2>3 DEF Classify, Refused, Modern
    <3>2. Fits(post[b][n], "null") BY <2>3 DEF Fits, Refused, Sessionless
    <3>3. Moved BY <3>1, <3>2, <1>t, <2>1, AnswerMoves DEF Answers, Served, Aside
    <3> QED BY <3>3, <2>1, <1>c, <1>r, ServerKeeps DEF Aside
  <2>4. CASE ~Refused(l) /\ Modern(l)
    <3>1. PICK a \in ServeModern(l) : Answer(b, n, a) BY <1>1, <2>4 DEF Classify
    <3>2. Fits(post[b][n], a) /\ a \in Answers BY <3>1, <2>1 DEF Fits, ServeModern, Answers, Line
    <3>3. Moved BY <3>1, <3>2, <1>t, <2>1, AnswerMoves DEF Served, Aside
    <3> QED BY <3>3, <2>1, <1>c, <1>r, ServerKeeps DEF Aside
  <2>5. CASE ~Refused(l) /\ ~Modern(l) /\ post[b][n].sid = NoId /\ l.kind = "initialize"
    <3>1. Set(b, n, [post[b][n] EXCEPT !.pc = "mint"]) BY <1>1, <2>5 DEF Classify
    <3>2. Moved BY <3>1, <1>t, <2>1, ServedOn DEF Served, Aside
    <3> QED BY <3>2, <2>1, <1>c, <1>r, ServerKeeps DEF Aside
  <2>6. CASE ~Refused(l) /\ ~Modern(l) /\ post[b][n].sid = NoId /\ l.kind # "initialize"
    <3>1. Answer(b, n, "null") BY <1>1, <2>6 DEF Classify
    <3>2. Fits(post[b][n], "null") BY <2>1, <2>2, <2>6 DEF Fits, Refused, Modern, Sessionless, Line, AllKinds
    <3>3. Moved BY <3>1, <3>2, <1>t, <2>1, AnswerMoves DEF Answers, Served, Aside
    <3> QED BY <3>3, <2>1, <1>c, <1>r, ServerKeeps DEF Aside
  <2>7. CASE ~Refused(l) /\ ~Modern(l) /\ post[b][n].sid # NoId
    <3>1. Set(b, n, [post[b][n] EXCEPT !.pc = "lookup"]) BY <1>1, <2>7 DEF Classify
    <3>2. Moved BY <3>1, <1>t, <2>1, <2>7, ServedOn DEF Served, Aside
    <3> QED BY <3>2, <2>1, <1>c, <1>r, ServerKeeps DEF Aside
  <2> QED BY <2>3, <2>4, <2>5, <2>6, <2>7
<1>2. ASSUME NEW b \in Bridges, NEW n \in Slots, NEW i \in Ids, Mint(b, n, i) PROVE MInv'
  <2> DEFINE r == post[b][n].at
  <2>1. PICK q \in Made : q = post[b][n] /\ q.pc = "mint" /\ Answerable(b, q) /\ q.at \in Replicas
    <3>1. post[b][n].pc = "mint" BY <1>2 DEF Mint, Under
    <3>2. post[b][n] \in Made /\ Answerable(b, post[b][n]) BY <3>1, <1>t, Standing
    <3> QED BY <3>1, <3>2 DEF Made
  <2>2. owners[i] = NoUser BY <1>2 DEF Mint
  <2>3. CASE Count(r, UserOf[b]) >= MaxPerUser
    <3>1. Answer(b, n, "plain429") /\ Aside /\ reg' = reg BY <1>2, <2>3 DEF Mint, Aside
    <3>2. Fits(post[b][n], "plain429") BY DEF Fits
    <3>3. Moved BY <3>1, <3>2, <1>t, <2>1, AnswerMoves DEF Answers, Served, Aside
    <3> QED BY <3>3, <3>1, <1>c, <1>r, ServerKeeps DEF Aside
  <2>4. CASE ~(Count(r, UserOf[b]) >= MaxPerUser)
    <3>1. /\ owners' = [owners EXCEPT ![i] = UserOf[b]] /\ reg' = [reg EXCEPT ![r][i] = "live"]
          /\ UNCHANGED <<signed, old, session, lines, eof, out, breaks>>
      BY <1>2, <2>4 DEF Mint
    <3>2. PICK a \in Handled(q.line) :
             Set(b, n, [q EXCEPT !.pc = "header", !.answer = a, !.fresh = i])
      BY <1>2, <2>1, <2>4 DEF Mint
    <3>3. q.line \in Line /\ a \in Answers /\ a # "pending" /\ Fits(q, a)
      BY <3>2 DEF Made, Line, Handled, Answers, Fits
    <3>4. PICK p \in Made : p = [q EXCEPT !.pc = "header", !.answer = a, !.fresh = i] BY <3>3 DEF Made
    <3>5. /\ p.pc = "header" /\ p.answer = a /\ p.line = q.line /\ p.deaf = q.deaf
          /\ p.sid = q.sid /\ p.fresh = i
      BY <3>4 DEF Made
    <3>6. owners'[i] = UserOf[b] /\ \A j \in Ids : owners[j] # NoUser => owners'[j] = owners[j]
      BY <3>1, <2>2, <1>t DEF McpTypeOK
    <3>7. Answerable(b, p)'
      <4>1. p.sid # NoId => owners'[p.sid] = UserOf[b] BY <2>1, <3>5, <3>6 DEF Answerable, Made
      <4> QED BY <3>1, <3>3, <3>5, <3>6, <4>1 DEF Answerable, Fits, Sessionless, Served
    <3>8. Moved
      <4>1. Set(b, n, p) /\ q.pc # "done" /\ p.pc # "done" /\ UNCHANGED <<signed, old, lines, out>>
        BY <2>1, <3>1, <3>2, <3>4, <3>5
      <4> QED BY <1>t, <2>1, <3>5, <3>6, <3>7, <4>1, PostGoesOn
    <3>9. CapHeld'
      <4>1. UserOf[b] \in Users /\ UserOf[b] # NoUser /\ r \in Replicas BY <2>1 DEF Users
      <4>2. Count(r, UserOf[b]) < MaxPerUser
        <5>1. Count(r, UserOf[b]) \in Nat
          BY Counted, FS_CardinalityType DEF Count
        <5> QED BY <5>1, <2>4
      <4> QED BY <1>t, <2>2, <3>1, <4>1, <4>2, CapGrows
    <3>10. McpTypeOK'
      <4>1. owners' \in [Ids -> Users \cup {NoUser}] BY <3>1, <1>t DEF McpTypeOK, Users
      <4>2. reg' \in [Replicas -> [Ids -> {"none", "live", "idle"}]] BY <3>1, <1>r
      <4> QED BY <4>1, <4>2, <3>1, <3>8, <1>t DEF McpTypeOK, Moved
    <3>11. SessionsOwned' BY <3>1, <3>6, <1>t DEF SessionsOwned, McpTypeOK
    <3> QED BY <3>8, <3>9, <3>10, <3>11 DEF MInv, Moved
  <2> QED BY <2>3, <2>4
<1>3. ASSUME NEW b \in Bridges, NEW n \in Slots, Lookup(b, n) PROVE MInv'
  <2>1. /\ post[b][n].pc = "lookup" /\ post[b][n] \in Made /\ Aside /\ reg' = reg
        /\ post[b][n].sid # NoId /\ owners[post[b][n].sid] = UserOf[b]
    BY <1>3, <1>t, Standing DEF Lookup, Under, Aside, Answerable
  <2>2. CASE Answer(b, n, "plain404") /\ ~Verified(b, n)
    <3>1. Fits(post[b][n], "plain404") BY <2>1, <2>2 DEF Fits, Verified
    <3>2. Moved BY <2>2, <3>1, <1>t, <2>1, AnswerMoves DEF Answers, Served, Aside
    <3> QED BY <3>2, <2>1, <1>c, <1>r, ServerKeeps DEF Aside
  <2>3. CASE \E pc \in {"touch", "adopt"} : Set(b, n, [post[b][n] EXCEPT !.pc = pc])
    <3>1. Moved BY <2>3, <1>t, <2>1, ServedOn DEF Served, Aside
    <3> QED BY <3>1, <2>1, <1>c, <1>r, ServerKeeps DEF Aside
  <2> QED BY <1>3, <2>2, <2>3 DEF Lookup
<1>4. ASSUME NEW b \in Bridges, NEW n \in Slots, Adopt(b, n) PROVE MInv'
  <2> DEFINE r == post[b][n].at
             i == post[b][n].sid
  <2>1. /\ post[b][n].pc = "adopt" /\ post[b][n] \in Made /\ Aside /\ r \in Replicas /\ i \in Ids
        /\ owners[i] = UserOf[b]
    BY <1>4, <1>t, Standing DEF Adopt, Under, Aside, Answerable, Made
  <2>2. CASE reg[r][i] = "none" /\ Count(r, UserOf[b]) >= MaxPerUser
    <3>1. Answer(b, n, "plain429") /\ reg' = reg BY <1>4, <2>2 DEF Adopt
    <3>2. Fits(post[b][n], "plain429") BY DEF Fits
    <3>3. Moved BY <3>1, <3>2, <1>t, <2>1, AnswerMoves DEF Answers, Served, Aside
    <3> QED BY <3>3, <3>1, <2>1, <1>c, <1>r, ServerKeeps DEF Aside
  <2>3. CASE ~(reg[r][i] = "none" /\ Count(r, UserOf[b]) >= MaxPerUser)
    <3>1. reg' = [reg EXCEPT ![r][i] = "live"] /\ Set(b, n, [post[b][n] EXCEPT !.pc = "touch"])
      BY <1>4, <2>3 DEF Adopt
    <3>2. Moved BY <3>1, <1>t, <2>1, ServedOn DEF Served, Aside
    <3>3. CapHeld'
      <4>1. UserOf[b] \in Users /\ UserOf[b] # NoUser BY DEF Users
      <4>2. reg[r][i] # "none" \/ Count(r, UserOf[b]) < MaxPerUser
        <5>1. Count(r, UserOf[b]) \in Nat BY Counted, FS_CardinalityType DEF Count
        <5> QED BY <5>1, <2>3
      <4>3. owners' = [owners EXCEPT ![i] = UserOf[b]] BY <2>1, <1>t DEF Aside, McpTypeOK
      <4> QED BY <1>t, <2>1, <3>1, <4>1, <4>2, <4>3, CapGrows
    <3>4. reg' \in [Replicas -> [Ids -> {"none", "live", "idle"}]] BY <3>1, <1>r
    <3> QED BY <3>2, <3>3, <3>4, <2>1, ServerKeeps
  <2> QED BY <2>2, <2>3
<1>5. ASSUME NEW b \in Bridges, NEW n \in Slots, Touch(b, n) PROVE MInv'
  <2> DEFINE r == post[b][n].at
             i == post[b][n].sid
  <2>1. /\ post[b][n].pc = "touch" /\ post[b][n] \in Made /\ Aside /\ r \in Replicas /\ i \in Ids
        /\ owners[i] = UserOf[b]
    BY <1>5, <1>t, Standing DEF Touch, Under, Aside, Answerable, Made
  <2>2. /\ reg' = [reg EXCEPT ![r][i] = IF @ = "none" THEN @ ELSE "live"]
        /\ Set(b, n, [post[b][n] EXCEPT !.pc = "handle"])
    BY <1>5, <2>1 DEF Touch
  <2>3. Moved BY <2>1, <2>2, <1>t, ServedOn DEF Served, Aside, Made
  <2>4. /\ reg' \in [Replicas -> [Ids -> {"none", "live", "idle"}]]
        /\ \A s \in Replicas, j \in Ids : reg'[s][j] # "none" => reg[s][j] # "none"
    BY <2>1, <2>2, <1>r
  <2>5. CapHeld' BY <2>1, <2>4, <1>t, CapShrinks DEF Aside
  <2> QED BY <2>1, <2>3, <2>4, <2>5, ServerKeeps
<1>6. ASSUME NEW b \in Bridges, NEW n \in Slots, HandleMessage(b, n) PROVE MInv'
  <2>1. /\ post[b][n].pc = "handle" /\ post[b][n] \in Made /\ Aside
    BY <1>6, <1>t, Standing DEF HandleMessage, Under, Aside
  <2>2. post[b][n].line \in Line /\ post[b][n].at \in Replicas BY <2>1 DEF Made
  <2>3. post[b][n].line.kind = "delete" => ~post[b][n].line.request
    BY <1>t, <2>1 DEF PostsSound, PostSound, NoPost
  <2>4. PICK a \in Answers : Answer(b, n, a) /\ Fits(post[b][n], a)
    <3>1. CASE post[b][n].line.kind = "delete"
      <4>1. Answer(b, n, "empty") BY <1>6, <3>1 DEF HandleMessage
      <4>2. "empty" \in Answers /\ Fits(post[b][n], "empty") BY <2>2, <2>3, <3>1 DEF Answers, Fits, Line
      <4> QED BY <4>1, <4>2
    <3>2. CASE post[b][n].line.kind # "delete"
      <4>1. PICK a \in Handled(post[b][n].line) : Answer(b, n, a) BY <1>6, <3>2 DEF HandleMessage
      <4>2. a \in Answers /\ Fits(post[b][n], a) BY <4>1, <2>2 DEF Handled, Answers, Fits, Line
      <4> QED BY <4>1, <4>2
    <3> QED BY <3>1, <3>2
  <2>5. Moved BY <2>1, <2>4, <1>t, AnswerMoves DEF Served, Aside
  <2>6. reg' \in [Replicas -> [Ids -> {"none", "live", "idle"}]]
        /\ \A s \in Replicas, j \in Ids : reg'[s][j] # "none" => reg[s][j] # "none"
    BY <1>6, <1>r, <2>2 DEF HandleMessage
  <2>7. CapHeld' BY <2>1, <2>6, <1>t, CapShrinks DEF Aside
  <2> QED BY <2>1, <2>5, <2>6, <2>7, ServerKeeps
<1>7. ASSUME NEW b \in Bridges, NEW n \in Slots, NEW r \in Replicas, Send(b, n, r) PROVE MInv'
  <2>1. PICK q \in Made : q = post[b][n] /\ q.pc = "send" /\ Answerable(b, q)
    BY <1>7, <1>t, Standing DEF Send, Under
  <2>2. session[b] \in Ids \cup {NoId} BY <1>t DEF McpTypeOK
  <2>3. PICK p \in Made : p = [q EXCEPT !.pc = "arrive", !.at = r, !.sid = session[b]]
    BY <2>2 DEF Made, Served
  <2>4. /\ p.pc = "arrive" /\ p.answer = q.answer /\ p.line = q.line /\ p.deaf = q.deaf
        /\ p.sid = session[b] /\ p.fresh = q.fresh
    BY <2>3 DEF Made
  <2>5. Set(b, n, p) /\ UNCHANGED <<signed, owners, old, reg, session, lines, eof, out, breaks>>
    BY <1>7, <2>1, <2>3 DEF Send
  <2>6. q.answer = "pending" /\ ~q.deaf BY <2>1 DEF Answerable
  <2>7. Answerable(b, p)' BY <1>t, <2>1, <2>4, <2>5, <2>6 DEF Answerable, SessionsOwned, Served
  <2>8. Moved
    <3>1. q.pc # "done" /\ p.pc # "done" /\ ~p.deaf BY <2>1, <2>4, <2>6
    <3> QED BY <1>t, <2>1, <2>4, <2>5, <2>7, <3>1, PostGoesOn
  <2> QED BY <2>5, <2>8, <1>c, <1>r, ServerKeeps DEF Aside
<1>8. ASSUME NEW b \in Bridges, NEW n \in Slots, Receive(b, n) PROVE MInv'
  <2>1. PICK q \in Made : q = post[b][n] /\ q.pc = "header" /\ Answerable(b, q)
    BY <1>8, <1>t, Standing DEF Receive, Under
  <2>2. PICK p \in Made : p = [q EXCEPT !.pc = "done"] BY DEF Made
  <2>3. /\ p.pc = "done" /\ p.answer = q.answer /\ p.line = q.line /\ p.deaf = q.deaf
        /\ p.sid = q.sid /\ p.fresh = q.fresh
    BY <2>2 DEF Made
  <2>4. Set(b, n, p) /\ UNCHANGED <<signed, owners, old, reg, lines, eof, breaks>>
    BY <1>8, <2>1, <2>2 DEF Receive
  <2>5. post'[b][n] = p BY <2>4, <1>t DEF Set, McpTypeOK
  <2>6. Answerable(b, p)' BY <2>1, <2>3, <2>4 DEF Answerable, Served, Sessionless
  <2>7. PostSound(b, n) /\ p # NoPost /\ q # NoPost BY <1>t, <2>1, <2>3 DEF PostsSound, NoPost
  <2>8. out \in Outs BY <1>t DEF McpTypeOK, Outs
  <2>9. PostSound(b, n)' /\ Elsewhere(b, n) /\ out' \in Outs
    <3>1. CASE n = Final
      <4>1. out' = out BY <1>8, <3>1 DEF Receive
      <4> QED BY <2>3, <2>5, <2>6, <2>7, <2>1, <2>8, <3>1, <4>1 DEF PostSound, Elsewhere
    <3>2. CASE q.deaf /\ n # Final
      <4>1. out' = out BY <1>8, <2>1, <3>2 DEF Receive
      <4>2. Written(q, out[b][n]) BY <2>1, <2>7, <3>2 DEF PostSound
      <4>3. Written(p, out[b][n]) BY <2>3, <2>7, <3>2, <4>2 DEF Written, Sessionless
      <4> QED BY <2>1, <2>3, <2>4, <2>5, <2>6, <2>7, <2>8, <3>2, <4>1, <4>3
              DEF PostSound, Elsewhere
    <3>3. CASE ~q.deaf /\ n # Final
      <4>1. WriteBody(b, n) BY <1>8, <2>1, <3>3 DEF Receive
      <4>2. out[b][n].own = 0 /\ out[b][n].null = 0 BY <2>1, <2>7, <3>3 DEF PostSound, Written
      <4>3. Written(p, out'[b][n])
        <5>1. /\ q.answer = "null" \/ out'[b][n].null = 0
              /\ q.answer = "null" => out'[b][n].null = 1
              /\ q.answer = "own" \/ (q.answer \notin {"null", "empty"} /\ q.line.request)
                  => out'[b][n].own = 1
              /\ q.answer \in {"null", "empty"} \/ (q.answer # "own" /\ ~q.line.request)
                  => out'[b][n].own = 0
          BY <2>1, <2>8, <4>1, <4>2, WriteBodyDoes
        <5>2. /\ q.answer \in {"own", "empty"} => q.line.request = (q.answer = "own")
              /\ q.answer = "null" => ~q.line.request \/ Sessionless(q.line, q.sid)
              /\ q.line.request \in BOOLEAN
          BY <2>1 DEF Answerable, Made, Line
        <5> QED BY <2>3, <2>7, <5>1, <5>2 DEF Written
      <4>4. out' \in Outs /\ Elsewhere(b, n) BY <2>8, <4>1, WriteBodyDoes
      <4> QED BY <2>1, <2>3, <2>4, <2>5, <2>6, <2>7, <3>3, <4>3, <4>4 DEF PostSound, Written
    <3> QED BY <3>1, <3>2, <3>3
  <2>10. Moved
    <3>1. /\ lines' \in [Bridges -> 0..MaxLines] /\ \A c \in Bridges : lines[c] <= lines'[c]
          /\ old \subseteq old' /\ signed' = signed /\ owners' = owners
      BY <1>t, <2>4 DEF McpTypeOK
    <3> QED BY <1>t, <2>4, <2>9, <3>1, PostMoves DEF Moved
  <2>11. session' = session \/ (q.fresh # NoId /\ session' = [session EXCEPT ![b] = q.fresh])
    BY <1>8, <2>1 DEF Receive
  <2>12. SessionsOwned' /\ session' \in [Bridges -> Ids \cup {NoId}]
    <3>1. session \in [Bridges -> Ids \cup {NoId}] BY <1>t DEF McpTypeOK
    <3>2. q.fresh # NoId => owners[q.fresh] = UserOf[b] BY <2>1 DEF Answerable
    <3>3. CASE session' = session BY <1>t, <2>4, <3>1, <3>3 DEF SessionsOwned
    <3>4. CASE q.fresh # NoId /\ session' = [session EXCEPT ![b] = q.fresh]
      BY <1>t, <2>4, <3>1, <3>2, <3>4 DEF SessionsOwned, Made
    <3> QED BY <2>11, <3>3, <3>4
  <2>13. CapHeld' BY <2>4, <1>c
  <2>14. McpTypeOK' BY <2>4, <2>9, <2>10, <2>12, <1>t DEF McpTypeOK, Moved, Outs
  <2> QED BY <2>10, <2>12, <2>13, <2>14 DEF MInv, Moved
<1>9. ASSUME NEW b \in Bridges, NEW n \in Slots, GiveUp(b, n) PROVE MInv'
  <2>1. PICK q \in Made : q = post[b][n] /\ q.pc \in Served \cup {"header"} /\ ~q.deaf /\ Answerable(b, q)
    BY <1>9, <1>t, Standing DEF GiveUp, Served
  <2>2. PICK pc \in {q.pc, "done"} : Set(b, n, [q EXCEPT !.deaf = TRUE, !.pc = pc])
    BY <1>9, <2>1 DEF GiveUp
  <2>3. PICK p \in Made : p = [q EXCEPT !.deaf = TRUE, !.pc = pc] BY DEF Made
  <2>4. /\ p.pc = pc /\ p.deaf /\ p.answer = q.answer /\ p.line = q.line
        /\ p.sid = q.sid /\ p.fresh = q.fresh
    BY <2>3 DEF Made
  <2>5. /\ Set(b, n, p) /\ WriteErr(b, n)
        /\ breaks' \in 0..MaxBreaks /\ UNCHANGED <<signed, owners, old, reg, session, lines, eof>>
    BY <1>9, <1>t, <2>2, <2>3 DEF GiveUp, Fault, McpTypeOK
  <2>6. post'[b][n] = p BY <2>5, <1>t DEF Set, McpTypeOK
  <2>7. Answerable(b, p)' BY <2>1, <2>4, <2>5 DEF Answerable, Served, Sessionless
  <2>8. PostSound(b, n) /\ p # NoPost /\ q # NoPost /\ q.pc # "done"
    BY <1>t, <2>1, <2>4 DEF PostsSound, NoPost, Served
  <2>9. out' \in Outs /\ Elsewhere(b, n) /\ out'[b][n].null = out[b][n].null
        /\ (q.line.request => out'[b][n].own = out[b][n].own + 1)
        /\ (~q.line.request => out'[b][n].own = out[b][n].own)
    BY <1>t, <2>1, <2>5, WriteErrDoes DEF McpTypeOK, Outs
  <2>10. PostSound(b, n)'
    <3>1. CASE n = Final BY <2>1, <2>4, <2>6, <2>7, <2>8, <3>1 DEF PostSound
    <3>2. CASE n # Final
      <4>1. out[b][n].own = 0 /\ out[b][n].null = 0 BY <2>1, <2>8, <3>2 DEF PostSound, Written
      <4>2. q.line.request \in BOOLEAN BY DEF Made, Line
      <4>3. Written(p, out'[b][n]) BY <2>4, <2>8, <2>9, <4>1, <4>2 DEF Written
      <4> QED BY <2>1, <2>4, <2>5, <2>6, <2>7, <2>8, <3>2, <4>3
              DEF PostSound, Written, Sessionless
    <3> QED BY <3>1, <3>2
  <2>11. Moved
    <3>1. /\ lines' \in [Bridges -> 0..MaxLines] /\ \A c \in Bridges : lines[c] <= lines'[c]
          /\ old \subseteq old' /\ signed' = signed /\ owners' = owners
      BY <1>t, <2>5 DEF McpTypeOK
    <3> QED BY <1>t, <2>5, <2>9, <2>10, <3>1, PostMoves DEF Moved
  <2>12. McpTypeOK' /\ SessionsOwned' BY <2>5, <2>9, <2>11, <1>t DEF McpTypeOK, Moved, Outs, SessionsOwned
  <2>13. CapHeld' BY <2>5, <1>c
  <2> QED BY <2>11, <2>12, <2>13 DEF MInv, Moved
<1>10. ASSUME NEW b \in Bridges, NEW k \in Kinds, NEW request \in BOOLEAN, ReadLine(b, k, request)
       PROVE  MInv'
  <2>1. lines[b] \in 0..MaxLines /\ lines[b] < MaxLines BY <1>10, <1>t DEF ReadLine, McpTypeOK
  <2>2. PICK n \in Slots : n = lines[b] + 1 /\ n # Final /\ n > lines[b] BY <2>1 DEF Slots, Final
  <2>3. /\ lines' = [lines EXCEPT ![b] = @ + 1]
        /\ UNCHANGED <<signed, owners, old, reg, session, eof, out, breaks>>
    BY <1>10 DEF ReadLine
  <2>4. PICK p \in Made :
           /\ Set(b, n, p) /\ p.pc = "send" /\ p.line = [kind |-> k, request |-> request] /\ p.sid = NoId
           /\ p.answer = "pending" /\ ~p.deaf /\ p.fresh = NoId
    <3>1. (CHOOSE r \in Replicas : TRUE) \in Replicas OBVIOUS
    <3>2. [kind |-> k, request |-> request] \in Line BY DEF Line, AllKinds
    <3> DEFINE p == [pc |-> "send", line |-> [kind |-> k, request |-> request], sid |-> NoId,
                     at |-> CHOOSE r \in Replicas : TRUE, answer |-> "pending", deaf |-> FALSE, fresh |-> NoId]
    <3>3. p \in Made BY <3>1, <3>2 DEF Made, Answers
    <3>4. Set(b, n, p) BY <1>10, <2>2 DEF ReadLine
    <3> QED BY <3>3, <3>4
  <2>5. post'[b][n] = p BY <2>2, <2>4, <1>t DEF Set, McpTypeOK
  <2>6. /\ lines' \in [Bridges -> 0..MaxLines] /\ \A c \in Bridges : lines[c] <= lines'[c]
        /\ lines'[b] = n
    BY <2>1, <2>2, <2>3, <1>t DEF McpTypeOK
  <2>7. out[b][n].own = 0 /\ out[b][n].null = 0
    <3>1. PostSound(b, n) BY <2>2, <1>t DEF PostsSound
    <3> QED BY <2>2, <3>1 DEF PostSound, Written
  <2>8. Answerable(b, p)' BY <2>4 DEF Answerable, Served
  <2>9. PostSound(b, n)'
    <3>1. p.line.kind # "delete" BY <2>4
    <3>2. out'[b][n] = out[b][n] /\ lines'[b] = n BY <2>3, <2>6
    <3>3. Written(p, out'[b][n]) BY <2>4, <2>7, <3>2 DEF Written
    <3>4. ~(n > lines'[b]) BY <2>1, <2>2, <3>2
    <3>5. p # NoPost BY <2>4 DEF NoPost
    <3> QED BY <2>2, <2>5, <2>8, <3>1, <3>3, <3>4, <3>5 DEF PostSound
  <2>10. Moved
    <3>1. Elsewhere(b, n) /\ old \subseteq old' /\ signed' = signed /\ owners' = owners BY <2>3 DEF Elsewhere
    <3> QED BY <1>t, <2>2, <2>4, <2>6, <2>9, <3>1, PostMoves DEF Moved
  <2>11. McpTypeOK' /\ SessionsOwned' BY <2>3, <2>6, <2>10, <1>t DEF McpTypeOK, Moved, SessionsOwned
  <2>12. CapHeld' BY <2>3, <1>c
  <2> QED BY <2>10, <2>11, <2>12 DEF MInv, Moved
<1>11. ASSUME NEW b \in Bridges, CloseSession(b) PROVE MInv'
  <2>1. /\ eof' = eof \cup {b}
        /\ UNCHANGED <<signed, owners, old, reg, session, lines, out, breaks>>
    BY <1>11 DEF CloseSession
  <2>2. Moved
    <3>1. CASE session[b] = NoId
      <4>1. post' = post BY <1>11, <3>1 DEF CloseSession
      <4> QED BY <2>1, <4>1, <1>t, PostsStay
    <3>2. CASE session[b] # NoId
      <4>1. Final \in Slots BY DEF Final, Slots
      <4>2. PICK p \in Made :
               /\ Set(b, Final, p) /\ p.pc = "send" /\ p.line = [kind |-> "delete", request |-> FALSE]
               /\ p.sid = NoId /\ p.answer = "pending" /\ ~p.deaf /\ p.fresh = NoId
        <5>1. (CHOOSE r \in Replicas : TRUE) \in Replicas OBVIOUS
        <5>2. [kind |-> "delete", request |-> FALSE] \in Line BY DEF Line, AllKinds
        <5> DEFINE p == [pc |-> "send", line |-> [kind |-> "delete", request |-> FALSE], sid |-> NoId,
                         at |-> CHOOSE r \in Replicas : TRUE, answer |-> "pending", deaf |-> FALSE,
                         fresh |-> NoId]
        <5>3. p \in Made BY <5>1, <5>2 DEF Made, Answers
        <5>4. Set(b, Final, p) BY <1>11, <3>2 DEF CloseSession
        <5> QED BY <5>3, <5>4
      <4>3. post'[b][Final] = p BY <4>1, <4>2, <1>t DEF Set, McpTypeOK
      <4>4. Answerable(b, p)' BY <4>2 DEF Answerable, Served
      <4>5. PostSound(b, Final)' BY <4>2, <4>3, <4>4 DEF PostSound
      <4>6. /\ lines' \in [Bridges -> 0..MaxLines] /\ \A c \in Bridges : lines[c] <= lines'[c]
            /\ old \subseteq old' /\ signed' = signed /\ owners' = owners /\ Elsewhere(b, Final)
        BY <2>1, <1>t DEF McpTypeOK, Elsewhere
      <4> QED BY <1>t, <4>1, <4>2, <4>5, <4>6, PostMoves DEF Moved
    <3> QED BY <3>1, <3>2
  <2>3. McpTypeOK' /\ SessionsOwned' BY <2>1, <2>2, <1>t DEF McpTypeOK, Moved, SessionsOwned
  <2> QED BY <2>1, <2>2, <2>3, <1>c DEF MInv, Moved
<1>12. ASSUME NEW r \in Replicas, NEW i \in Ids, GrowIdle(r, i) PROVE MInv'
  <2>1. /\ reg' = [reg EXCEPT ![r][i] = "idle"] /\ reg[r][i] = "live" /\ Aside /\ post' = post
    BY <1>12 DEF GrowIdle, Aside
  <2>2. /\ reg' \in [Replicas -> [Ids -> {"none", "live", "idle"}]]
        /\ \A s \in Replicas, j \in Ids : reg'[s][j] # "none" => reg[s][j] # "none"
    BY <2>1, <1>r
  <2>3. CapHeld' BY <2>1, <2>2, <1>t, CapShrinks DEF Aside
  <2>4. Moved BY <2>1, <1>t, PostsStay DEF Aside
  <2> QED BY <2>1, <2>2, <2>3, <2>4, ServerKeeps
<1>13. ASSUME NEW r \in Replicas, ReapIdle(r) PROVE MInv'
  <2>1. /\ reg' = [reg EXCEPT ![r] = [i \in Ids |-> IF @[i] = "idle" THEN "none" ELSE @[i]]]
        /\ Aside /\ post' = post
    BY <1>13 DEF ReapIdle, Aside
  <2>2. /\ reg' \in [Replicas -> [Ids -> {"none", "live", "idle"}]]
        /\ \A s \in Replicas, j \in Ids : reg'[s][j] # "none" => reg[s][j] # "none"
    BY <2>1, <1>r
  <2>3. CapHeld' BY <2>1, <2>2, <1>t, CapShrinks DEF Aside
  <2>4. Moved BY <2>1, <1>t, PostsStay DEF Aside
  <2> QED BY <2>1, <2>2, <2>3, <2>4, ServerKeeps
<1>14. ASSUME NEW i \in Ids, Age(i) PROVE MInv'
  <2>1. old' = old \cup {i} /\ UNCHANGED <<signed, owners, reg, post, session, lines, eof, out, breaks>>
    BY <1>14 DEF Age
  <2>2. Moved BY <2>1, <1>t, PostsStay
  <2>3. McpTypeOK' /\ SessionsOwned' BY <2>1, <2>2, <1>t DEF McpTypeOK, Moved, SessionsOwned
  <2> QED BY <2>1, <2>2, <2>3, <1>c DEF MInv, Moved
<1>15. ASSUME NEW r \in Replicas, Restart(r) PROVE MInv'
  <2> DEFINE lost(b, n) == post[b][n].pc \in Served /\ post[b][n].at = r
  <2>0. breaks' \in 0..MaxBreaks
    <3>1. Fault BY <1>15 DEF Restart
    <3> QED BY <3>1, <1>t DEF Fault, McpTypeOK
  <2>1. /\ reg' = [reg EXCEPT ![r] = [i \in Ids |-> "none"]]
        /\ UNCHANGED <<signed, owners, old, session, lines, eof, out>>
        /\ post' = [b \in Bridges |-> [n \in Slots |->
                       IF lost(b, n) THEN [post[b][n] EXCEPT !.pc = "header", !.answer = "failed"]
                       ELSE post[b][n]]]
    BY <1>15 DEF Restart
  <2>2. /\ reg' \in [Replicas -> [Ids -> {"none", "live", "idle"}]]
        /\ \A s \in Replicas, j \in Ids : reg'[s][j] # "none" => reg[s][j] # "none"
    BY <2>1, <1>r
  <2>3. CapHeld' BY <2>1, <2>2, <1>t, CapShrinks
  <2>4. ASSUME NEW b \in Bridges, NEW n \in Slots PROVE post'[b][n] \in Post /\ PostSound(b, n)'
    <3>1. PICK q \in Post : q = post[b][n] BY <1>t DEF McpTypeOK
    <3>2. PostSound(b, n) BY <1>t DEF PostsSound
    <3>3. CASE lost(b, n)
      <4>1. q \in Made /\ Answerable(b, q) /\ q # NoPost /\ q.pc # "done"
        BY <1>t, <3>1, <3>3, Standing DEF Served
      <4>2. PICK p \in Made : p = [q EXCEPT !.pc = "header", !.answer = "failed"] BY <4>1 DEF Made, Answers
      <4>3. /\ p.pc = "header" /\ p.answer = "failed" /\ p.line = q.line /\ p.deaf = q.deaf
            /\ p.sid = q.sid /\ p.fresh = q.fresh
        BY <4>1, <4>2 DEF Made
      <4>4. post'[b][n] = p BY <2>1, <3>1, <3>3, <4>2
      <4>5. Answerable(b, p)' BY <2>1, <4>1, <4>3 DEF Answerable, Served
      <4>6. p # NoPost BY <4>3 DEF NoPost
      <4>7. CASE n = Final BY <3>1, <3>2, <4>1, <4>3, <4>4, <4>5, <4>6, <4>7 DEF PostSound, Post
      <4>8. CASE n # Final
        <5>1. Written(q, out[b][n]) BY <3>1, <3>2, <4>8 DEF PostSound
        <5>2. Written(p, out[b][n]) BY <4>1, <4>3, <4>6, <5>1 DEF Written, Sessionless
        <5>3. n > lines[b] => q = NoPost BY <3>1, <3>2, <4>8 DEF PostSound
        <5>4. p.line.kind # "delete" BY <3>1, <3>2, <4>1, <4>3, <4>8 DEF PostSound
        <5>5. out'[b][n] = out[b][n] /\ lines'[b] = lines[b] BY <2>1
        <5> QED BY <4>1, <4>4, <4>5, <4>6, <4>8, <5>2, <5>3, <5>4, <5>5 DEF PostSound, Post
      <4> QED BY <4>7, <4>8
    <3>4. CASE ~lost(b, n)
      <4>1. post'[b][n] = q BY <2>1, <3>1, <3>4
      <4>2. q # NoPost => Answerable(b, q)' BY <2>1, <3>1, <3>2 DEF PostSound, Answerable
      <4> QED BY <2>1, <3>1, <3>2, <4>1, <4>2 DEF PostSound
    <3> QED BY <3>3, <3>4
  <2>5. Moved
    <3>1. post' = [b \in Bridges |-> [n \in Slots |-> post'[b][n]]] BY <2>1
    <3> QED BY <2>4, <3>1 DEF Moved, PostsSound
  <2>6. McpTypeOK' /\ SessionsOwned' BY <2>0, <2>1, <2>2, <2>5, <1>t DEF McpTypeOK, Moved, SessionsOwned
  <2> QED BY <2>3, <2>5, <2>6 DEF MInv, Moved
<1>16. CASE UNCHANGED mcpVars
  <2>1. UNCHANGED <<signed, owners, old, reg, post, session, lines, eof, out, breaks>> BY <1>16 DEF mcpVars
  <2>2. Moved BY <2>1, <1>t, PostsStay
  <2> QED BY <2>1, <2>2, <1>c, <1>r, ServerKeeps DEF Aside
<1> QED
  <2>1. ASSUME NEW b \in Bridges, NEW n \in Slots, Relay(b, n) PROVE MInv'
    BY <2>1, <1>1, <1>2, <1>3, <1>4, <1>5, <1>6, <1>7, <1>8 DEF Relay
  <2> QED BY <2>1, <1>9, <1>10, <1>11, <1>12, <1>13, <1>14, <1>15, <1>16 DEF McpNext

-----------------------------------------------------------------------------
\* The invariant says what hosts and users rely on.
LEMMA MInvSays == MInv => RelaySound
<1> SUFFICES ASSUME MInv PROVE RelaySound
  OBVIOUS
<1>1. AnsweredOnce
  <2> SUFFICES ASSUME NEW b \in Bridges, NEW n \in 1..MaxLines, ~Under(b, n, "none")
               PROVE  LET l == post[b][n].line
                          o == out[b][n]
                      IN  /\ o.own + o.null <= 1
                          /\ Finished(b, n) /\ l.request => o.own + o.null = 1
                          /\ o.own = 1 => l.request
                          /\ o.null = 1 => Sessionless(l, post[b][n].sid) \/ ~l.request
    BY DEF AnsweredOnce
  <2>1. n \in Slots /\ n # Final BY McpAssumption DEF Slots, Final
  <2>2. PICK q \in Made : q = post[b][n] /\ q # NoPost /\ q.pc # "none"
    BY <2>1, Standing DEF MInv, Under
  <2>3. Written(q, out[b][n]) BY <2>1, <2>2 DEF MInv, PostsSound, PostSound
  <2>4. Finished(b, n) => q.pc = "done" \/ q.deaf BY <2>2 DEF Finished
  <2>5. out[b][n] \in [own : Nat, null : Nat] BY <2>1 DEF MInv, McpTypeOK
  <2> QED BY <2>2, <2>3, <2>4, <2>5 DEF Written
<1>2. AnyReplicaServes
  <2> SUFFICES ASSUME NEW b \in Bridges, NEW n \in Slots, ~Under(b, n, "none"),
                      post[b][n].answer \in {"plain403", "plain404"}
               PROVE  ~signed \/ post[b][n].sid \in old
    BY DEF AnyReplicaServes
  <2>1. Answerable(b, post[b][n]) BY Standing DEF MInv, Under
  <2> QED BY <2>1 DEF Answerable
<1> QED BY <1>1, <1>2 DEF MInv, RelaySound

\* The inductive invariant of the transport: types, posts whose session and answer fit
\* their line and their user, what the bridge wrote for them, and counted sessions.
THEOREM McpCorrect == McpSpec => []MInv
<1> QED BY McpStart, McpSteps, PTL DEF McpSpec

\* Every request is answered once (AnsweredOnce), a session is served by every replica
\* until its id is old (AnyReplicaServes), and no user has more than the cap at one
\* (CapHeld), for any bridges, replicas, ids and lines, whatever connections break.
THEOREM RelaysSoundly == McpSpec => []RelaySound
<1> QED BY McpCorrect, MInvSays, PTL

=============================================================================
