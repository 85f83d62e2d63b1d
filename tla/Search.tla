------------------------------- MODULE Search -------------------------------
(***************************************************************************)
(* Hybrid search (engine/search.go).  One search of one scope reads the     *)
(* keyword tier, then the vector tier shelf by shelf, then the entries      *)
(* behind the hits, each in a statement of its own, while other requests    *)
(* supersede, forget, rewrite and move entries.  What the tiers return is   *)
(* fused, cut at OverfetchFactor * k, filtered, reranked and selected.      *)
(* Scores are integers: the renormalisation of the weights multiplies all   *)
(* of them alike and is left out, as are the recency and entity signals.    *)
(* The order of equal scores is left open.                                  *)
(***************************************************************************)
EXTENDS Integers, FiniteSets, Sequences, FiniteSetsExt

CONSTANTS
    Entries, Shelves, Agents, Texts,
    Author,             \* the agent that wrote an entry
    Queries,            \* the query as asked, and its sub-queries
    Strict,             \* per query: the texts all its terms match
    Rank,               \* per query and text: ts_rank_cd, 0 when not a term matches
    Cosine,             \* per query and text: similarity, on a scale of 0 .. One
    One,
    Restates,           \* pairs of texts with a token overlap of 0.75 or more
    Boost, Prior,       \* per entry: importance boost, rank prior
    Sensitivity,        \* per entry: public 0, internal 1, private 2, sensitive 3
    Relevance,          \* per text: the cross-encoder's score, or Unscored
    Cost,               \* per text: EstimateTokens
    KeywordWeight, VectorWeight, MinVectorScore, RerankPoolMult,
    OverfetchFactor,
    Requests,           \* what is asked: k, maxTokens (0: none), shelves, author, the
                        \* greatest sensitivity, and the queries it is decomposed into
    StartText,          \* what the store holds at first
    StartShelf,
    MaxEdits, MaxFailures   \* bounds on the writes of other requests, on failures

Unscored == -1
NoVector == "none"
AnyAgent == "any"

ASSUME SearchAssumption ==
    /\ IsFiniteSet(Entries)
    /\ OverfetchFactor \in Nat \ {0} /\ RerankPoolMult \in Nat \ {0}
    /\ Requests \subseteq [k : Nat \ {0}, budget : Nat, shelves : (SUBSET Shelves) \ {{}},
                           agent : Agents \cup {AnyAgent}, level : 0 .. 3,
                           queries : (SUBSET Queries) \ {{}}]
    /\ Sensitivity \in [Entries -> 0 .. 3]
    /\ NoVector \notin Texts
    /\ StartText \in [Entries -> Texts] /\ StartShelf \in [Entries -> Shelves]
    /\ Strict \in [Queries -> SUBSET Texts]
    /\ Rank \in [Queries -> [Texts -> Nat]]
    /\ \A q \in Queries : \A text \in Strict[q] : Rank[q][text] > 0
    /\ Cosine \in [Queries -> [Texts -> 0 .. One]] /\ One \in Nat /\ MinVectorScore \in Int
    /\ \A pair \in Restates : <<pair[2], pair[1]>> \in Restates

VARIABLES
    stored,     \* memory_entries with its keyword row, per id
    vectors,    \* per id and shelf: the text the stored vector was made from
    pending,    \* entries whose embedded_at is NULL
    cold,       \* entries the decay sweep has demoted
    search,     \* the running search
    edits, failures

searchVars == <<stored, vectors, pending, cold, search, edits, failures>>
store == <<stored, vectors, pending, cold>>

Visible(id) == stored[id].st = "active"
Written(id) == stored[id].st # "gone"

NoSearch == [pc |-> "idle"]
asked == search.asked

\* isSensitivityVisible, beside isInactiveMemory.
Shown(id) == Visible(id) /\ Sensitivity[id] <= asked.level

\* The hits of a tier, with the best score any query gave them; an answered item.
Scores == UNION {{Rank[q][text], Cosine[q][text]} : q \in Queries, text \in Texts}
Hits == UNION {[S -> Scores] : S \in SUBSET Entries}
Answer == [id : Entries, text : Texts]

SearchTypeOK ==
    /\ stored \in [Entries -> [text : Texts, shelf : Shelves, st : {"active", "superseded", "gone"}]]
    /\ vectors \in [Entries -> [Shelves -> Texts \cup {NoVector}]]
    /\ pending \subseteq Entries /\ cold \subseteq Entries
    /\ search \in {NoSearch} \cup
            [pc : {"keyword", "vector", "load", "done"}, asked : Requests, degraded : BOOLEAN,
             toRead : SUBSET Queries, toScan : SUBSET (Queries \X Shelves),
             kw : Hits, vec : Hits,
             touched : SUBSET Entries, overlooked : SUBSET Entries,
             answer : Seq(Answer), left : SUBSET Answer]
    /\ edits \in Nat /\ failures \in Nat

SearchInit ==
    /\ \E hidden, unindexed \in SUBSET Entries :
        /\ stored = [id \in Entries |-> [text |-> StartText[id], shelf |-> StartShelf[id],
                                       st |-> IF id \in hidden THEN "superseded" ELSE "active"]]
        /\ vectors = [id \in Entries |-> [s \in Shelves |->
                    IF s = StartShelf[id] /\ id \notin unindexed THEN StartText[id] ELSE NoVector]]
        /\ pending = unindexed
    /\ cold = {}
    /\ search = NoSearch
    /\ edits = 0 /\ failures = 0

(***************************************************************************)
(* The tiers.                                                              *)
(***************************************************************************)
\* The n best of a set under a preference, ties broken either way.
Best(S, n, Prefer(_, _)) ==
    {T \in SUBSET S : /\ Cardinality(T) = IF Cardinality(S) < n THEN Cardinality(S) ELSE n
                      /\ \A a \in T, b \in S \ T : ~Prefer(b, a)}

Merge(f, g) ==
    [id \in DOMAIN f \cup DOMAIN g |->
        IF id \in DOMAIN f /\ (id \in DOMAIN g => f[id] > g[id]) THEN f[id] ELSE g[id]]

\* FtsSearch for one query over the asked shelves: every row one term matches, those
\* all terms match first; the others are kept only when there is no such row. The rows
\* are not asked whether they are superseded.
InScope(id) == stored[id].shelf \in asked.shelves /\ asked.agent \in {AnyAgent, Author[id]}
AllTerms(q, id) == stored[id].text \in Strict[q]
SomeTerm(q, id) == Rank[q][stored[id].text] > 0

FtsMatches(q) == {id \in Entries : Written(id) /\ InScope(id) /\ SomeTerm(q, id)}

FtsPrefers(q, a, b) ==
    \/ AllTerms(q, a) /\ ~AllTerms(q, b)
    \/ /\ AllTerms(q, a) <=> AllTerms(q, b)
       /\ Rank[q][stored[a].text] > Rank[q][stored[b].text]

FtsKept(q, top) ==
    LET strict == {id \in top : AllTerms(q, id)} IN IF strict = {} THEN top ELSE strict

FtsSearch(q) ==
    {[id \in FtsKept(q, top) |-> Rank[q][stored[id].text]] :
        top \in Best(FtsMatches(q), asked.k * OverfetchFactor, LAMBDA a, b : FtsPrefers(q, a, b))}

Stored(s) == {id \in Entries : vectors[id][s] # NoVector}

Nearest(q, s, S) ==
    {[id \in top |-> Cosine[q][vectors[id][s]]] :
        top \in Best(S, asked.k * OverfetchFactor,
                     LAMBDA a, b : Cosine[q][vectors[a][s]] > Cosine[q][vectors[b][s]])}

\* Mutant: the scan is not held to the shelf that was asked for.
ColdSearchAnyShelf(q, s, missed) == UNION {Nearest(q, x, Stored(x) \ missed) : x \in Shelves}

\* cold.Search for one query on one shelf: the nearest vectors, near or not, but for
\* those the approximate index of the store overlooks.
ColdSearch(q, s, missed) == Nearest(q, s, Stored(s) \ missed)

(***************************************************************************)
(* What becomes of the hits.                                               *)
(***************************************************************************)
\* Fuse: a candidate only the vector tier proposes, below the floor, is noise. The rank
\* is normalised by the best rank, the similarity is used as it is.
Near == {id \in DOMAIN search.vec : search.vec[id] >= MinVectorScore}
Candidates == DOMAIN search.kw \cup Near

Fused(id) ==
    LET best == Max({1} \cup {search.kw[i] : i \in DOMAIN search.kw})
        kw == IF id \in DOMAIN search.kw THEN search.kw[id] ELSE 0
        similarity == IF id \in DOMAIN search.vec THEN search.vec[id] ELSE 0
    IN  Boost[id] * (KeywordWeight * kw * One + VectorWeight * similarity * best)

\* Mutant: the candidates are cut to k before the hidden ones are dropped.
CutToK == Best(Candidates, asked.k, LAMBDA a, b : Fused(a) > Fused(b))

\* The cut: the first OverfetchFactor * k candidates, visible or not.
Cut == Best(Candidates, asked.k * OverfetchFactor, LAMBDA a, b : Fused(a) > Fused(b))

\* The ways to list a set by falling score.
Lists(S) ==
    {o \in [1 .. Cardinality(S) -> S] : \A i, j \in DOMAIN o : i # j => o[i] # o[j]}

Orders(S, score) == {o \in Lists(S) : \A i, j \in DOMAIN o : i < j => score[o[i]] >= score[o[j]]}

\* applyVisibility: entries that are gone, inactive or more sensitive than asked for drop
\* out; the others are sorted by their score under the rank prior, whatever order the
\* coherence pass gave them.
Score == [id \in Candidates |-> Fused(id) * Prior[id]]

ApplyVisibility(cut) ==
    {[order |-> o, score |-> Score] : o \in Orders({id \in cut : Shown(id)}, Score)}

\* The score an item carries once it is reranked: the unscored share the lowest score.
Scored(id) == Relevance[stored[id].text]

RankScore(scored) ==
    [id \in Candidates |->
        IF id \in scored THEN Scored(id) ELSE Min({Scored(other) : other \in scored})]

\* rerankVisible, when the cross-encoder answers: the scored items of the pool first,
\* by its score; the others keep their order.
Rerank(visible) ==
    LET items == {visible.order[i] : i \in DOMAIN visible.order}
        place(id) == CHOOSE i \in DOMAIN visible.order : visible.order[i] = id
        pool == {id \in items : place(id) <= asked.k * RerankPoolMult}
        scored == {id \in pool : Scored(id) # Unscored}
        before(a, b) == \/ a \in scored /\ (b \in scored => Scored(a) >= Scored(b))
                        \/ a \notin scored /\ b \notin scored /\ place(a) < place(b)
    IN  IF Cardinality(items) < 2 \/ scored = {} THEN {visible}
        ELSE {[order |-> o, score |-> RankScore(scored)] :
                o \in {l \in Lists(items) : \A i, j \in DOMAIN l : i < j => before(l[i], l[j])}}

\* selectSearchResults: first what does not restate an item already selected, until k
\* items or the budget is reached; without a budget the rest is filled up. The places
\* of the selected items in the list are told by which of them came before.
Earlier(P, i) == {j \in P : j < i}

Repeats(order, P, i) ==
    \E j \in Earlier(P, i) : <<stored[order[j]].text, stored[order[i]].text>> \in Restates

OverBudget(order, P, i) ==
    LET cost(j) == Cost[stored[order[j]].text]
    IN  /\ asked.budget > 0 /\ Earlier(P, i) # {} /\ ~Repeats(order, P, i)
        /\ MapThenSumSet(cost, Earlier(P, i)) + cost(i) > asked.budget

Picks(order) ==
    {P \in SUBSET DOMAIN order : \A i \in DOMAIN order :
        i \in P <=> /\ Cardinality(Earlier(P, i)) < asked.k /\ ~Repeats(order, P, i)
                    /\ \A j \in 1 .. i : ~OverBudget(order, P, j)}

Fills(order, P) ==
    IF asked.budget > 0 THEN {{}}
    ELSE Best(DOMAIN order \ P, asked.k - Cardinality(P), LAMBDA i, j : i < j)

SelectResults(order) == UNION {{P \cup F : F \in Fills(order, P)} : P \in Picks(order)}

(***************************************************************************)
(* The search.                                                             *)
(***************************************************************************)
\* handleSearch: the request, its decomposition and its embedding. A dead embedder
\* leaves the vector tier out and degrades the search; without a cold store, or with an
\* empty embedding, the tier is left out and nothing is said of it.
Begin ==
    /\ search.pc = "idle"
    /\ \E request \in Requests, tier \in {"asked", "absent", "dead"} :
        /\ tier = "dead" => failures < MaxFailures
        /\ failures' = IF tier = "dead" THEN failures + 1 ELSE failures
        /\ search' =
              [pc |-> "keyword", asked |-> request, degraded |-> tier = "dead",
               toRead |-> request.queries,
               toScan |-> IF tier = "asked" THEN request.queries \X request.shelves ELSE {},
               kw |-> [id \in {} |-> 0], vec |-> [id \in {} |-> 0], touched |-> {},
               overlooked |-> IF tier = "asked" THEN {} ELSE Entries,
               answer |-> <<>>, left |-> {}]
    /\ UNCHANGED <<store, edits>>

Keyword ==
    /\ search.pc = "keyword" /\ search.toRead # {}
    /\ LET q == CHOOSE x \in search.toRead : TRUE
       IN  \E hits \in FtsSearch(q) :
            search' = [search EXCEPT !.kw = Merge(@, hits), !.toRead = @ \ {q}]
    /\ UNCHANGED <<store, edits, failures>>

\* One failure empties the tier.
KeywordFails ==
    /\ search.pc = "keyword" /\ search.toRead # {} /\ failures < MaxFailures
    /\ search' = [search EXCEPT !.kw = [id \in {} |-> 0], !.toRead = {}, !.degraded = TRUE]
    /\ failures' = failures + 1
    /\ UNCHANGED <<store, edits>>

KeywordDone ==
    /\ search.pc = "keyword" /\ search.toRead = {}
    /\ search' = [search EXCEPT !.pc = "vector"]
    /\ UNCHANGED <<store, edits, failures>>

\* What a scan overlooks counts among the failures.
Vector ==
    /\ search.pc = "vector" /\ search.toScan # {}
    /\ LET scan == CHOOSE x \in search.toScan : TRUE
       IN  \E missed \in SUBSET Stored(scan[2]) :
           /\ missed # {} => failures < MaxFailures
           /\ failures' = IF missed # {} THEN failures + 1 ELSE failures
           /\ \E hits \in ColdSearch(scan[1], scan[2], missed) :
                search' = [search EXCEPT !.vec = Merge(@, hits), !.toScan = @ \ {scan},
                                         !.overlooked = @ \cup missed]
    /\ UNCHANGED <<store, edits>>

VectorFails ==
    /\ search.pc = "vector" /\ search.toScan # {} /\ failures < MaxFailures
    /\ search' = [search EXCEPT !.vec = [id \in {} |-> 0], !.toScan = {}, !.degraded = TRUE]
    /\ failures' = failures + 1
    /\ UNCHANGED <<store, edits>>

VectorDone ==
    /\ search.pc = "vector" /\ search.toScan = {}
    /\ search' = [search EXCEPT !.pc = "load"]
    /\ UNCHANGED <<store, edits, failures>>

\* GetEntries, and everything that is computed from it. The cross-encoder may be left
\* out or fail: the fused order stands then.
Answered(id) == [id |-> id, text |-> stored[id].text]

Load ==
    /\ search.pc = "load"
    /\ \E cut \in Cut : \E visible \in ApplyVisibility(cut) :
       \E ranked \in {visible} \cup Rerank(visible) :
       \E chosen \in SelectResults(ranked.order) :
       \E answer \in Orders({ranked.order[i] : i \in chosen}, ranked.score) :
        search' = [search EXCEPT
            !.pc = "done",
            !.answer = [i \in DOMAIN answer |-> Answered(answer[i])],
            !.left = {Answered(ranked.order[i]) : i \in DOMAIN ranked.order \ chosen}]
    /\ UNCHANGED <<store, edits, failures>>

\* Only Postgres being down fails the request.
LoadFails ==
    /\ search.pc = "load" /\ failures < MaxFailures
    /\ search' = NoSearch
    /\ failures' = failures + 1
    /\ UNCHANGED <<store, edits>>

\* formatSearchResults: cold entries that have earned it become warm, one statement
\* each, which may fail; then the answer goes out.
Promote ==
    /\ search.pc = "done"
    /\ \E earned \in SUBSET (cold \cap {search.answer[i].id : i \in DOMAIN search.answer}) :
        cold' = cold \ earned
    /\ search' = NoSearch
    /\ UNCHANGED <<stored, vectors, pending, edits, failures>>

(***************************************************************************)
(* Other requests and jobs.                                                *)
(***************************************************************************)
\* The entries written during a search, for the properties only.
Noted(id) ==
    search' = IF search.pc \in {"idle", "done"} THEN search
              ELSE [search EXCEPT !.touched = @ \cup {id}]

Write(id, r) ==
    /\ edits < MaxEdits
    /\ stored' = [stored EXCEPT ![id] = r]
    /\ Noted(id)
    /\ edits' = edits + 1
    /\ UNCHANGED failures

\* A supersession marks the row; its keyword row and its vector stay.
Supersede(id) ==
    /\ Visible(id)
    /\ Write(id, [stored[id] EXCEPT !.st = "superseded"])
    /\ UNCHANGED <<vectors, pending, cold>>

\* A forget deletes the row first and the vector, on the row's shelf, later.
ForgetEntry(id) ==
    /\ Written(id)
    /\ Write(id, [stored[id] EXCEPT !.st = "gone"])
    /\ pending' = pending \ {id} /\ cold' = cold \ {id}
    /\ UNCHANGED vectors

DropVector(id) ==
    /\ ~Written(id)
    /\ vectors' = [vectors EXCEPT ![id][stored[id].shelf] = NoVector]
    /\ UNCHANGED <<stored, pending, cold, search, edits, failures>>

\* Update with content: the text at once, the vector when it is embedded again.
Rewrite(id, text) ==
    /\ Written(id) /\ text # stored[id].text
    /\ Write(id, [stored[id] EXCEPT !.text = text])
    /\ pending' = pending \cup {id}
    /\ UNCHANGED <<vectors, cold>>

\* Update of the namespace alone: the entry and its keyword row move, embedded_at and
\* the vector stay as they are.
Move(id, s) ==
    /\ Written(id) /\ s # stored[id].shelf
    /\ Write(id, [stored[id] EXCEPT !.shelf = s])
    /\ UNCHANGED <<vectors, pending, cold>>

\* The vector of an entry that has none, or not the one of its text, is written on the
\* shelf the entry stands on.
Reindex(id) ==
    /\ id \in pending /\ Written(id)
    /\ vectors' = [vectors EXCEPT ![id][stored[id].shelf] = stored[id].text]
    /\ pending' = pending \ {id}
    /\ Noted(id)
    /\ UNCHANGED <<stored, cold, edits, failures>>

MarkCold(id) ==
    /\ Written(id) /\ id \notin cold /\ edits < MaxEdits
    /\ cold' = cold \cup {id}
    /\ edits' = edits + 1
    /\ UNCHANGED <<stored, vectors, pending, search, failures>>

SearchNext ==
    \/ Begin \/ Keyword \/ KeywordFails \/ KeywordDone
    \/ Vector \/ VectorFails \/ VectorDone
    \/ Load \/ LoadFails \/ Promote
    \/ \E id \in Entries :
        \/ Supersede(id) \/ ForgetEntry(id) \/ DropVector(id) \/ Reindex(id) \/ MarkCold(id)
        \/ \E text \in Texts : Rewrite(id, text)
        \/ \E s \in Shelves : Move(id, s)

SearchSpec == SearchInit /\ [][SearchNext]_searchVars

(***************************************************************************)
(* Properties.                                                             *)
(***************************************************************************)
Answers == search.pc = "load" /\ search'.pc = "done"
AnsweredIds == {search'.answer[i].id : i \in DOMAIN search'.answer}

\* What the search was asked for and the tiers can tell: an entry nobody wrote to during
\* the search, on an asked shelf, whose every term matches, whose vector is near enough
\* and not overlooked, or of which a term matches when nothing matches better.
ByTerms(q, id) ==
    /\ InScope(id)
    /\ \/ AllTerms(q, id)
       \/ /\ SomeTerm(q, id) /\ search.touched = {}
          /\ ~ \E other \in Entries : Written(other) /\ InScope(other) /\ AllTerms(q, other)

ByVector(q, id, s) ==
    /\ stored[id].shelf = s /\ vectors[id][s] # NoVector /\ id \notin search.overlooked
    /\ Cosine[q][vectors[id][s]] >= MinVectorScore

Findable(id) ==
    /\ Shown(id) /\ id \notin search.touched
    /\ \E q \in asked.queries :
        ByTerms(q, id) \/ \E s \in asked.shelves : ByVector(q, id, s)

\* A search that says it read both tiers and answers less than k entries has left out
\* a matching one only if more than (OverfetchFactor - 1) * k entries are superseded,
\* gone or too sensitive (the over-fetch of search.go: entries are hidden after the cut).
NothingMissed ==
    Answers /\ ~search.degraded /\ asked.budget = 0 /\ Len(search'.answer) < asked.k
        => \/ {id \in Entries : Findable(id)} \subseteq AnsweredIds
           \/ Cardinality({id \in Entries : ~Shown(id)}) > (OverfetchFactor - 1) * asked.k

\* Nothing is answered that was superseded or gone when the entries were read, or is more
\* sensitive than asked for, whatever its keyword row or a vector left behind says; and
\* only entries of the asked shelves, but for one that was moved and is found by the
\* vector it left on its old shelf.
AnswersAsAsked ==
    [][Answers => \A id \in AnsweredIds :
        /\ Shown(id)
        /\ \/ stored[id].shelf \in asked.shelves
           \/ id \in search.touched
           \/ \E s \in asked.shelves : vectors[id][s] # NoVector]_searchVars

\* Two answered entries restate each other only where nothing else could be answered:
\* every visible candidate left out then restates an answered one too, and there was no
\* budget (selectSearchResults; the overlap of texts is not transitive).
NoNeedlessRestatement ==
    search.pc = "done" =>
        LET answer == search.answer
            repeated == \E i, j \in DOMAIN answer :
                            i # j /\ <<answer[i].text, answer[j].text>> \in Restates
        IN  repeated => /\ asked.budget = 0
                        /\ \A item \in search.left : \E i \in DOMAIN answer :
                                <<answer[i].text, item.text>> \in Restates

\* What is answered is what there is to answer: nothing is missed, and nothing is said
\* twice while something else is left.
AnswersFully == [][NothingMissed /\ NoNeedlessRestatement']_searchVars

=============================================================================
