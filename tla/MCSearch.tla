------------------------------ MODULE MCSearch ------------------------------
EXTENDS Search

\* e1 and e2 restate each other; e3 is about something else: only a term of the query
\* matches it, and all of its sub-query.
MCTexts == {"fact", "same", "other"}
MCStartText == [e1 |-> "fact", e2 |-> "same", e3 |-> "other"]
MCStartShelf == [e1 |-> "work", e2 |-> "work", e3 |-> "home"]
MCAuthor == [e1 |-> "a", e2 |-> "b", e3 |-> "a"]
MCEntries == DOMAIN MCStartText
MCStrict == [q |-> {"fact", "same"}, sub |-> {"other"}]
MCRank == [q |-> [fact |-> 3, same |-> 2, other |-> 1],
           sub |-> [fact |-> 0, same |-> 0, other |-> 1]]
MCCosine == [q |-> [fact |-> 3, same |-> 4, other |-> 1],
             sub |-> [fact |-> 1, same |-> 0, other |-> 4]]
MCRestates == {<<"fact", "same">>, <<"same", "fact">>} \cup {<<text, text>> : text \in MCTexts}
MCBoost == [e1 |-> 3, e2 |-> 3, e3 |-> 5]
MCPrior == [e1 |-> 8, e2 |-> 10, e3 |-> 11]
MCSensitivity == [e1 |-> 2, e2 |-> 0, e3 |-> 3]
MCRelevance == [fact |-> 5, same |-> Unscored, other |-> 7]
MCRequests ==
    LET ask(k, budget, shelves, agent, level, queries) ==
            [k |-> k, budget |-> budget, shelves |-> shelves, agent |-> agent,
             level |-> level, queries |-> queries]
        both == {"work", "home"}
    IN  {ask(1, 0, both, "any", 1, {"q"}), ask(2, 0, both, "any", 3, {"q"}),
         ask(2, 3, both, "any", 3, {"q"}), ask(1, 0, {"work"}, "a", 3, {"q"}),
         ask(2, 0, both, "any", 2, {"q", "sub"}), ask(1, 0, {"home"}, "any", 3, {"q", "sub"})}
MCCost == [fact |-> 2, same |-> 2, other |-> 1]
=============================================================================
