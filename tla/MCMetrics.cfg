\* Two replicas that share the totals, room for one slot, and an identity without an account.
SPECIFICATION FairSpec
CONSTANTS
    Replicas = {r1, r2}
    Users = {u1, anon}
    Accounts = {u1}
    MaxTracked = 1
    MaxServed <- TwoAndOne
    MaxFaults = 1
INVARIANTS
    SamplesConserved
    CountersConserved
PROPERTIES
    TotalsFallOnlyAfterEviction
    SamplesEventuallyStored
