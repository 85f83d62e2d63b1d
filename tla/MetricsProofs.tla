--------------------------- MODULE MetricsProofs ---------------------------
(***************************************************************************)
(* Two background loops.  The flush of the metrics: the conservation of    *)
(* samples and of counters, and what lets a lifetime total fall, for any   *)
(* number of replicas, users and slots and any number of faults; totals    *)
(* over sets are reasoned about by induction over the set.  The dream      *)
(* cycle, at the end: what a merge must keep.                              *)
(***************************************************************************)
EXTENDS Metrics, Dream, FiniteSetTheorems, WellFoundedInduction, TLAPS

-----------------------------------------------------------------------------
(* Induction, over an interval and over a finite set. *)

LEMMA SmallestOf == ASSUME NEW T, T \subseteq Nat, T # {} PROVE \E n \in T : \A m \in T : n <= m
<1>1. PICK n \in T : \A m \in T : ~(<<m, n>> \in OpToRel(<, Nat))
  BY NatLessThanWellFounded, WFMin
<1>2. ASSUME NEW m \in T PROVE n <= m
  <2>1. n \in Nat /\ m \in Nat
    BY <1>1, <1>2
  <2>2. SUFFICES ASSUME m < n PROVE FALSE
    BY <2>1
  <2>3. <<m, n>> \in OpToRel(<, Nat)
    BY <2>1, <2>2 DEF OpToRel
  <2>4. QED
    BY <1>1, <1>2, <2>3
<1>3. QED
  BY <1>2

\* Induction over an interval that starts at a, with a set in place of a predicate.
LEMMA Upwards ==
    ASSUME NEW a \in Nat, NEW b \in Nat, NEW S,
           a \in S, \A n \in a..b : n \in S /\ n < b => n + 1 \in S
    PROVE  \A n \in a..b : n \in S
<1>1. SUFFICES ASSUME (a..b) \ S # {} PROVE FALSE
  OBVIOUS
<1>2. PICK n \in (a..b) \ S : \A m \in (a..b) \ S : n <= m
  <2>1. (a..b) \ S \subseteq Nat
    OBVIOUS
  <2>2. QED
    BY <1>1, <2>1, SmallestOf
<1>3. n # a /\ n - 1 \in a..b /\ n - 1 < b
  BY <1>2
<1>4. n - 1 \in S
  BY <1>2, <1>3
<1>5. QED
  BY <1>2, <1>3, <1>4


-----------------------------------------------------------------------------
(* Totals over finite sets. *)

\* Induction over a finite set, with a set in place of a predicate.
LEMMA SubsetInduction ==
    ASSUME NEW D, IsFiniteSet(D), NEW Q,
           \A S \in SUBSET D : (\A x \in S : S \ {x} \in Q) => S \in Q
    PROVE  D \in Q
<1>1. SUFFICES ASSUME D \notin Q PROVE FALSE
  OBVIOUS
<1> DEFINE B == {n \in Nat : \E S \in SUBSET D : S \notin Q /\ Cardinality(S) = n}
<1>2. B \subseteq Nat /\ Cardinality(D) \in B
  BY <1>1, FS_CardinalityType
<1>3. PICK n \in B : \A m \in B : n <= m
  <2> HIDE DEF B
  <2>1. QED
    BY <1>2, SmallestOf
<1>4. PICK S \in SUBSET D : S \notin Q /\ Cardinality(S) = n
  BY <1>3
<1>5. PICK x \in S : S \ {x} \notin Q
  BY <1>4
<1>6. IsFiniteSet(S) /\ IsFiniteSet(S \ {x}) /\ Cardinality(S \ {x}) = n - 1
  BY <1>4, <1>5, FS_Subset, FS_RemoveElement
<1>7. n - 1 \in B
  <2>1. Cardinality(S \ {x}) \in Nat
    BY <1>6, FS_CardinalityType
  <2>2. QED
    BY <1>5, <1>6, <2>1
<1>8. QED
  BY <1>2, <1>3, <1>7

\* The recursion of MapThenSumSet.
OneOf(s) == CHOOSE x \in s : TRUE
SumStep(f, g, s) == IF s = {} THEN 0 ELSE f[OneOf(s)] + g[s \ {OneOf(s)}]
Sums(f, S) == CHOOSE iter : iter = [s \in SUBSET S |-> SumStep(f, iter, s)]

LEMMA TotalIs == ASSUME NEW f, NEW S PROVE Total(f, S) = Sums(f, S)[S]
BY DEF Total, MapThenSumSet, MapThenFoldSet, Sums, SumStep, OneOf

LEMMA SumsDefined ==
    ASSUME NEW f, NEW S, IsFiniteSet(S)
    PROVE  \A s \in SUBSET S : Sums(f, S)[s] = SumStep(f, Sums(f, S), s)
<1>1. PICK size \in Nat : \A s \in SUBSET S : IsFiniteSet(s) /\ Cardinality(s) \in 0..size
  BY FS_Subset, FS_CardinalityType
<1> DEFINE Until(g, n) == /\ g = [s \in SUBSET S |-> g[s]]
                          /\ \A s \in SUBSET S : Cardinality(s) <= n => g[s] = SumStep(f, g, s)
           N == {n \in 0..size : \E g : Until(g, n)}
<1>2. 0 \in N
  <2> DEFINE g == [s \in SUBSET S |-> 0]
  <2>1. g = [s \in SUBSET S |-> g[s]]
    OBVIOUS
  <2>2. ASSUME NEW s \in SUBSET S, Cardinality(s) <= 0 PROVE g[s] = SumStep(f, g, s)
    <3>1. Cardinality(s) = 0
      BY <1>1, <2>2
    <3>2. s = {}
      BY <1>1, <3>1, FS_EmptySet
    <3>3. QED
      BY <3>2 DEF SumStep
  <2> HIDE DEF g
  <2>3. Until(g, 0)
    BY <2>1, <2>2
  <2> HIDE DEF Until
  <2>4. QED
    BY <1>1, <2>3
<1>3. ASSUME NEW n \in 0..size, n \in N, n < size PROVE n + 1 \in N
  <2>1. PICK g : Until(g, n)
    BY <1>3
  <2> DEFINE h == [s \in SUBSET S |-> IF Cardinality(s) <= n THEN g[s] ELSE SumStep(f, g, s)]
  <2>2. \A s \in SUBSET S : h[s] = SumStep(f, g, s)
    BY <2>1
  <2>3. ASSUME NEW s \in SUBSET S, Cardinality(s) <= n + 1 PROVE h[s] = SumStep(f, h, s)
    <3>1. CASE s = {}
      BY <2>2, <3>1 DEF SumStep
    <3>2. CASE s # {}
      <4>1. OneOf(s) \in s
        BY <3>2 DEF OneOf
      <4>2. Cardinality(s \ {OneOf(s)}) = Cardinality(s) - 1
        BY <1>1, <4>1, FS_RemoveElement
      <4>3. s \ {OneOf(s)} \in SUBSET S /\ Cardinality(s \ {OneOf(s)}) <= n
        BY <1>1, <1>3, <2>3, <4>2
      <4>4. h[s \ {OneOf(s)}] = g[s \ {OneOf(s)}]
        BY <4>3
      <4> HIDE DEF h
      <4>5. QED
        BY <2>2, <4>4 DEF SumStep
    <3>3. QED
      BY <3>1, <3>2
  <2>4. h = [s \in SUBSET S |-> h[s]]
    OBVIOUS
  <2> HIDE DEF h
  <2>5. Until(h, n + 1)
    BY <2>3, <2>4
  <2> HIDE DEF Until
  <2>6. n + 1 \in 0..size
    BY <1>3
  <2>7. QED
    BY <2>5, <2>6
<1>4. size \in N
  <2> HIDE DEF N
  <2>1. \A n \in 0..size : n \in N
    BY <1>2, <1>3, Upwards
  <2>2. size \in 0..size
    BY <1>1
  <2>3. QED
    BY <2>1, <2>2
<1>5. PICK g : Until(g, size)
  BY <1>4
<1> DEFINE Is(iter) == iter = [s \in SUBSET S |-> SumStep(f, iter, s)]
<1>6. Is(g)
  <2>1. \A s \in SUBSET S : Cardinality(s) <= size
    BY <1>1
  <2>2. \A s \in SUBSET S : g[s] = SumStep(f, g, s)
    BY <1>5, <2>1
  <2>3. QED
    BY <1>5, <2>2
<1>7. Is(Sums(f, S))
  BY <1>6 DEF Sums
<1>8. QED
  BY <1>7

LEMMA SumsAgree ==
    ASSUME NEW f, NEW S, IsFiniteSet(S), NEW T \in SUBSET S
    PROVE  Sums(f, S)[T] = Total(f, T)
<1> DEFINE Q == {s \in SUBSET T : Sums(f, S)[s] = Sums(f, T)[s]}
<1>1. IsFiniteSet(T)
  BY FS_Subset
<1>2. ASSUME NEW s \in SUBSET T, \A x \in s : s \ {x} \in Q PROVE s \in Q
  <2>1. Sums(f, S)[s] = SumStep(f, Sums(f, S), s) /\ Sums(f, T)[s] = SumStep(f, Sums(f, T), s)
    BY <1>1, SumsDefined
  <2>2. s # {} => OneOf(s) \in s
    BY DEF OneOf
  <2>3. QED
    BY <1>2, <2>1, <2>2 DEF SumStep
<1>3. T \in Q
  <2> HIDE DEF Q
  <2>1. QED
    BY <1>1, <1>2, SubsetInduction
<1>4. QED
  BY <1>3, TotalIs

LEMMA TotalStep ==
    ASSUME NEW f, NEW S, IsFiniteSet(S)
    PROVE  Total(f, S) = IF S = {} THEN 0 ELSE f[OneOf(S)] + Total(f, S \ {OneOf(S)})
<1>1. Total(f, S) = SumStep(f, Sums(f, S), S)
  BY TotalIs, SumsDefined
<1>2. Sums(f, S)[S \ {OneOf(S)}] = Total(f, S \ {OneOf(S)})
  BY SumsAgree
<1>3. QED
  BY <1>1, <1>2 DEF SumStep

\* The total of integers is one.
LEMMA TotalInt ==
    ASSUME NEW f, NEW S, IsFiniteSet(S), \A x \in S : f[x] \in Int
    PROVE  Total(f, S) \in Int
<1> DEFINE Q == {s \in SUBSET S : Total(f, s) \in Int}
<1>1. ASSUME NEW s \in SUBSET S, \A x \in s : s \ {x} \in Q PROVE s \in Q
  <2>1. Total(f, s) = IF s = {} THEN 0 ELSE f[OneOf(s)] + Total(f, s \ {OneOf(s)})
    BY FS_Subset, TotalStep
  <2>2. s # {} => OneOf(s) \in s
    BY DEF OneOf
  <2>3. s # {} => f[OneOf(s)] \in Int /\ Total(f, s \ {OneOf(s)}) \in Int
    BY <1>1, <2>2
  <2>4. QED
    BY <2>1, <2>3
<1>2. S \in Q
  <2> HIDE DEF Q
  <2>1. QED
    BY <1>1, SubsetInduction
<1>3. QED
  BY <1>2

\* Whichever element is taken out first.
LEMMA TotalWithout ==
    ASSUME NEW f, NEW S, IsFiniteSet(S), \A x \in S : f[x] \in Int, NEW y \in S
    PROVE  Total(f, S) = f[y] + Total(f, S \ {y})
<1> DEFINE Q == {s \in SUBSET S : \A x \in s : Total(f, s) = f[x] + Total(f, s \ {x})}
<1>1. ASSUME NEW s \in SUBSET S, \A x \in s : s \ {x} \in Q PROVE s \in Q
  <2>1. SUFFICES ASSUME NEW x \in s PROVE Total(f, s) = f[x] + Total(f, s \ {x})
    OBVIOUS
  <2> DEFINE c == OneOf(s)
  <2>2. c \in s
    BY <2>1 DEF OneOf
  <2>3. Total(f, s) = f[c] + Total(f, s \ {c})
    BY <2>1, FS_Subset, TotalStep
  <2>4. CASE c = x
    BY <2>3, <2>4
  <2>5. CASE c # x
    <3>1. x \in s \ {c} /\ c \in s \ {x}
      BY <2>1, <2>2, <2>5
    <3>2. Total(f, s \ {c}) = f[x] + Total(f, (s \ {c}) \ {x})
      BY <1>1, <2>2, <3>1
    <3>3. Total(f, s \ {x}) = f[c] + Total(f, (s \ {x}) \ {c})
      BY <1>1, <2>1, <3>1
    <3>4. (s \ {x}) \ {c} = (s \ {c}) \ {x}
      OBVIOUS
    <3>5. f[c] \in Int /\ f[x] \in Int /\ Total(f, (s \ {c}) \ {x}) \in Int
      <4>1. IsFiniteSet((s \ {c}) \ {x})
        BY FS_Subset
      <4>2. QED
        BY <2>1, <2>2, <4>1, TotalInt
    <3>6. Total(f, s) = f[c] + (f[x] + Total(f, (s \ {c}) \ {x}))
      BY <2>3, <3>2
    <3>7. f[x] + Total(f, s \ {x}) = f[x] + (f[c] + Total(f, (s \ {c}) \ {x}))
      BY <3>3, <3>4
    <3>8. \A i, j, k \in Int : i + (j + k) = j + (i + k)
      OBVIOUS
    <3> HIDE DEF c
    <3>9. QED
      BY <3>5, <3>6, <3>7, <3>8
  <2>6. QED
    BY <2>4, <2>5
<1>2. S \in Q
  <2> HIDE DEF Q
  <2>1. QED
    BY <1>1, SubsetInduction
<1>3. QED
  BY <1>2

\* Greater numbers have a greater total, and so have more numbers that are not negative.
LEMMA TotalGrows ==
    ASSUME NEW f, NEW g, NEW S, NEW T, S \subseteq T, IsFiniteSet(T),
           \A x \in S : f[x] \in Int /\ f[x] <= g[x],
           \A x \in T : g[x] \in Int /\ (x \notin S => 0 <= g[x])
    PROVE  Total(f, S) <= Total(g, T)
<1> DEFINE Q == {s \in SUBSET T : Total(f, S \cap s) <= Total(g, s)}
<1>1. ASSUME NEW s \in SUBSET T, \A x \in s : s \ {x} \in Q PROVE s \in Q
  <2>1. IsFiniteSet(s) /\ IsFiniteSet(S \cap s)
    BY FS_Subset
  <2>2. CASE s = {}
    <3>1. Total(f, {}) = 0 /\ Total(g, {}) = 0
      BY FS_EmptySet, TotalStep
    <3>2. S \cap s = {}
      BY <2>2
    <3>3. QED
      BY <2>2, <3>1, <3>2
  <2>3. CASE s # {}
    <3>1. PICK y \in s : TRUE
      BY <2>3
    <3>2. Total(g, s) = g[y] + Total(g, s \ {y}) /\ g[y] \in Int /\ Total(g, s \ {y}) \in Int
      <4>1. IsFiniteSet(s \ {y})
        BY FS_Subset
      <4>2. QED
        BY <2>1, <4>1, TotalWithout, TotalInt
    <3>3. Total(f, S \cap (s \ {y})) <= Total(g, s \ {y})
      BY <1>1
    <3>4. Total(f, S \cap (s \ {y})) \in Int
      <4>1. IsFiniteSet(S \cap (s \ {y}))
        BY FS_Subset
      <4>2. QED
        BY <4>1, TotalInt
    <3>5. CASE y \in S
      <4>1. (S \cap s) \ {y} = S \cap (s \ {y}) /\ y \in S \cap s
        BY <3>5
      <4>2. Total(f, S \cap s) = f[y] + Total(f, S \cap (s \ {y}))
        BY <2>1, <4>1, TotalWithout
      <4>3. f[y] \in Int /\ f[y] <= g[y]
        BY <3>5
      <4>4. QED
        BY <3>2, <3>3, <3>4, <4>2, <4>3
    <3>6. CASE y \notin S
      <4>1. S \cap s = S \cap (s \ {y}) /\ 0 <= g[y]
        BY <3>6
      <4>2. QED
        BY <3>2, <3>3, <3>4, <4>1
    <3>7. QED
      BY <3>5, <3>6
  <2>4. QED
    BY <2>2, <2>3
<1>2. T \in Q
  <2> HIDE DEF Q
  <2>1. QED
    BY <1>1, SubsetInduction
<1>3. S \cap T = S
  OBVIOUS
<1>4. QED
  BY <1>2, <1>3

-----------------------------------------------------------------------------
(* Samples. *)

SamplesTyped ==
    /\ tracked \in [Replicas -> SUBSET Users]
    /\ count \in [Replicas -> [Users -> Nat]]
    /\ pending \in [Replicas -> [Users -> Nat]]
    /\ samples \in [Replicas -> [Users -> Nat]]
    /\ evicted \in [Replicas -> SUBSET Users]
    /\ doubted = [q \in Replicas |-> doubted[q]]
    /\ accounts \subseteq Accounts

\* The flush loop's locals: a record, with a batch only from the drain to its end.
JobsTyped ==
    /\ job = [r \in Replicas |-> job[r]]
    /\ \A r \in Replicas :
        /\ DOMAIN job[r] = {"pc", "batch", "delta"}
        /\ job[r].batch \in [Users -> Nat]
        /\ job[r].pc \notin {"write", "restore"} => job[r].batch = NoBatch

\* A user without a slot counts nothing and is owed nothing.
NothingWithoutSlot ==
    \A r \in Replicas : \A u \in Users \ tracked[r] : count[r][u] = 0 /\ pending[r][u] = 0

SamplesInv ==
    /\ SamplesTyped
    /\ JobsTyped
    /\ NothingWithoutSlot
    /\ SamplesConserved

Touched(r, queries, owed) ==
    /\ tracked' \in [Replicas -> SUBSET Users]
    /\ count' \in [Replicas -> [Users -> Nat]]
    /\ pending' \in [Replicas -> [Users -> Nat]]
    /\ evicted' \in [Replicas -> SUBSET Users]
    /\ NothingWithoutSlot'
    /\ \A q \in Replicas : evicted[q] \subseteq evicted'[q]
    /\ tracked[r] \ evicted'[r] \subseteq tracked'[r]
    /\ \A q \in Replicas \ {r} : /\ tracked'[q] = tracked[q] /\ evicted'[q] = evicted[q]
                                 /\ count'[q] = count[q] /\ pending'[q] = pending[q]
    /\ \A u \in Users \ evicted'[r] :
            /\ count'[r][u] = count[r][u] + queries[u]
            /\ pending'[r][u] = pending[r][u] + owed[u]

\* The slots of r after the users us were touched: those not dropped have what they had
\* and what was added.
LEMMA TouchAdds ==
    ASSUME SamplesTyped, NothingWithoutSlot, NEW r \in Replicas, NEW us \in SUBSET Users,
           NEW queries \in [Users -> Nat], NEW owed \in [Users -> Nat],
           \A u \in Users \ us : queries[u] = 0 /\ owed[u] = 0,
           Touch(r, us, queries, owed)
    PROVE  Touched(r, queries, owed)
<1>1. PICK keep \in SUBSET (tracked[r] \cup us), drop \in SUBSET tracked[r] :
        /\ tracked[r] \ keep \subseteq drop
        /\ tracked' = [tracked EXCEPT ![r] = keep]
        /\ count' = [count EXCEPT ![r] = [u \in Users |->
              IF u \in keep THEN (IF u \in drop THEN 0 ELSE count[r][u]) + queries[u] ELSE 0]]
        /\ pending' = [pending EXCEPT ![r] = [u \in Users |->
              IF u \in keep THEN (IF u \in drop THEN 0 ELSE pending[r][u]) + owed[u] ELSE 0]]
        /\ evicted' = [evicted EXCEPT ![r] = @ \cup drop \cup (us \ keep)]
  <2>1. PICK e \in Evictions(r, us) :
          /\ tracked' = [tracked EXCEPT ![r] = e.keep]
          /\ count' = [count EXCEPT ![r] = [u \in Users |->
                IF u \in e.keep THEN (IF u \in e.drop THEN 0 ELSE count[r][u]) + queries[u] ELSE 0]]
          /\ pending' = [pending EXCEPT ![r] = [u \in Users |->
                IF u \in e.keep THEN (IF u \in e.drop THEN 0 ELSE pending[r][u]) + owed[u] ELSE 0]]
          /\ evicted' = [evicted EXCEPT ![r] = @ \cup e.drop \cup (us \ e.keep)]
    BY DEF Touch
  <2>2. /\ e.keep \in SUBSET (tracked[r] \cup us)
        /\ e.drop \in SUBSET tracked[r]
        /\ tracked[r] \ e.keep \subseteq e.drop
    <3>1. CASE Cardinality(tracked[r] \cup us) <= MaxTracked
      BY <3>1, <2>1 DEF Evictions
    <3>2. CASE ~(Cardinality(tracked[r] \cup us) <= MaxTracked)
      BY <3>2, <2>1 DEF Evictions, kSubset
    <3> QED BY <3>1, <3>2
  <2> QED BY <2>1, <2>2
<1>2. tracked[r] \subseteq Users /\ keep \subseteq Users /\ drop \subseteq Users
  BY <1>1 DEF SamplesTyped
<1>3. /\ tracked' \in [Replicas -> SUBSET Users]
      /\ evicted' \in [Replicas -> SUBSET Users]
      /\ count' \in [Replicas -> [Users -> Nat]]
      /\ pending' \in [Replicas -> [Users -> Nat]]
  BY <1>1, <1>2 DEF SamplesTyped
<1>4. NothingWithoutSlot'
  BY <1>1, <1>2 DEF SamplesTyped, NothingWithoutSlot
<1>5. /\ \A q \in Replicas : evicted[q] \subseteq evicted'[q]
      /\ tracked[r] \ evicted'[r] \subseteq tracked'[r]
      /\ \A q \in Replicas \ {r} : /\ tracked'[q] = tracked[q] /\ evicted'[q] = evicted[q]
                                   /\ count'[q] = count[q] /\ pending'[q] = pending[q]
  BY <1>1 DEF SamplesTyped
<1>6. ASSUME NEW u \in Users, u \notin evicted'[r]
      PROVE  /\ count'[r][u] = count[r][u] + queries[u]
             /\ pending'[r][u] = pending[r][u] + owed[u]
  <2>1. u \notin drop /\ u \notin us \ keep
    BY <1>1, <1>6 DEF SamplesTyped
  <2>2. CASE u \in keep
    BY <1>1, <2>1, <2>2 DEF SamplesTyped
  <2>3. CASE u \notin keep
    <3>1. u \notin us /\ u \notin tracked[r]
      BY <1>1, <2>1, <2>3
    <3>2. count[r][u] = 0 /\ pending[r][u] = 0 /\ queries[u] = 0 /\ owed[u] = 0
      BY <3>1 DEF NothingWithoutSlot
    <3> QED BY <1>1, <2>3, <3>2 DEF SamplesTyped
  <2> QED BY <2>2, <2>3
<1> QED BY <1>3, <1>4, <1>5, <1>6 DEF Touched

\* An action that leaves the slots, the samples and the batches of the flush alone.
SamplesUntouched ==
    /\ UNCHANGED <<slots, samples, accounts>>
    /\ \A q \in Replicas : doubted[q] \subseteq doubted'[q]
    /\ doubted' = [q \in Replicas |-> doubted'[q]]

LEMMA UntouchedKeeps ==
    ASSUME SamplesInv, SamplesUntouched, JobsTyped',
           \A q \in Replicas : job'[q].batch = job[q].batch
    PROVE  SamplesInv'
<1>1. SamplesTyped' /\ NothingWithoutSlot'
  BY DEF SamplesInv, SamplesUntouched, SamplesTyped, NothingWithoutSlot, slots
<1>2. SamplesConserved'
  BY DEF SamplesInv, SamplesUntouched, SamplesTyped, SamplesConserved, Intact, slots
<1> QED BY <1>1, <1>2 DEF SamplesInv

LEMMA RecordKeeps ==
    ASSUME SamplesInv, NEW r \in Replicas, NEW v \in Users, Record(r, v)
    PROVE  SamplesInv'
<1> DEFINE one == [NoBatch EXCEPT ![v] = 1]
<1>1. /\ one \in [Users -> Nat]
      /\ \A u \in Users \ {v} : one[u] = 0
      /\ Touch(r, {v}, one, one)
      /\ UNCHANGED <<samples, accounts, job, doubted>>
  BY DEF Record, NoBatch, tables
<1> HIDE DEF one
<1>2. /\ SamplesTyped' /\ NothingWithoutSlot'
      /\ \A q \in Replicas : evicted[q] \subseteq evicted'[q]
      /\ \A q \in Replicas \ {r} : count'[q] = count[q] /\ pending'[q] = pending[q]
      /\ \A u \in Users \ evicted'[r] :
            count'[r][u] = count[r][u] + one[u] /\ pending'[r][u] = pending[r][u] + one[u]
  <2>1. SamplesTyped /\ NothingWithoutSlot /\ {v} \in SUBSET Users
    BY DEF SamplesInv
  <2>2. Touched(r, one, one)
    BY <1>1, <2>1, TouchAdds
  <2>3. SamplesTyped'
    BY <1>1, <2>1, <2>2 DEF SamplesTyped, Touched
  <2> QED BY <2>2, <2>3 DEF Touched
<1>3. JobsTyped'
  BY <1>1 DEF SamplesInv, JobsTyped
<1>4. ASSUME NEW q \in Replicas, NEW u \in Users, Intact(q, u)'
      PROVE  (samples[q][u] + job[q].batch[u] + pending[q][u] = count[q][u])'
  <2>1. Intact(q, u) /\ u \notin evicted'[q]
    BY <1>1, <1>2, <1>4 DEF Intact
  <2>2. samples[q][u] + job[q].batch[u] + pending[q][u] = count[q][u]
    BY <2>1 DEF SamplesInv, SamplesConserved
  <2>3. /\ samples[q][u] \in Nat /\ job[q].batch[u] \in Nat
        /\ pending[q][u] \in Nat /\ count[q][u] \in Nat /\ one[u] \in Nat
    BY <1>1 DEF SamplesInv, SamplesTyped, JobsTyped
  <2>4. CASE q = r
    BY <1>1, <1>2, <2>1, <2>2, <2>3, <2>4
  <2>5. CASE q # r
    BY <1>1, <1>2, <2>2, <2>5
  <2> QED BY <2>4, <2>5
<1> QED BY <1>2, <1>3, <1>4 DEF SamplesInv, SamplesConserved

LEMMA RestoreSamplesKeeps ==
    ASSUME SamplesInv, NEW r \in Replicas, RestoreSamples(r)
    PROVE  SamplesInv'
<1> DEFINE batch == job[r].batch
<1>1. /\ batch \in [Users -> Nat]
      /\ Support(batch) \subseteq Users
      /\ \A u \in Users \ Support(batch) : NoBatch[u] = 0 /\ batch[u] = 0
      /\ NoBatch \in [Users -> Nat]
      /\ Touch(r, Support(batch), NoBatch, batch)
      /\ job' = [job EXCEPT ![r] = Resting]
      /\ UNCHANGED <<samples, accounts, doubted>>
  BY DEF RestoreSamples, SamplesInv, JobsTyped, NoBatch, Support, tables
<1>2. /\ SamplesTyped' /\ NothingWithoutSlot'
      /\ \A q \in Replicas : evicted[q] \subseteq evicted'[q]
      /\ \A q \in Replicas \ {r} : count'[q] = count[q] /\ pending'[q] = pending[q]
      /\ \A u \in Users \ evicted'[r] :
            count'[r][u] = count[r][u] + NoBatch[u] /\ pending'[r][u] = pending[r][u] + batch[u]
  <2> HIDE DEF batch
  <2>1. SamplesTyped /\ NothingWithoutSlot /\ Support(batch) \in SUBSET Users
    BY <1>1 DEF SamplesInv
  <2>2. Touched(r, NoBatch, batch)
    BY <1>1, <2>1, TouchAdds
  <2>3. SamplesTyped'
    BY <1>1, <2>1, <2>2 DEF SamplesTyped, Touched
  <2> QED BY <2>2, <2>3 DEF Touched
<1>3. /\ job'[r] = Resting
      /\ \A q \in Replicas \ {r} : job'[q] = job[q]
      /\ JobsTyped'
  BY <1>1 DEF SamplesInv, JobsTyped, Resting
<1>4. ASSUME NEW q \in Replicas, NEW u \in Users, Intact(q, u)'
      PROVE  (samples[q][u] + job[q].batch[u] + pending[q][u] = count[q][u])'
  <2>1. Intact(q, u) /\ u \notin evicted'[q]
    BY <1>1, <1>2, <1>4 DEF Intact
  <2>2. samples[q][u] + job[q].batch[u] + pending[q][u] = count[q][u]
    BY <2>1 DEF SamplesInv, SamplesConserved
  <2>3. /\ samples[q][u] \in Nat /\ job[q].batch[u] \in Nat
        /\ pending[q][u] \in Nat /\ count[q][u] \in Nat
    BY DEF SamplesInv, SamplesTyped, JobsTyped
  <2>4. CASE q = r
    <3>1. job'[q].batch[u] = 0 /\ NoBatch[u] = 0
      BY <1>3, <2>4 DEF Resting, NoBatch
    <3>2. count'[q][u] = count[q][u] /\ pending'[q][u] = pending[q][u] + job[q].batch[u]
      BY <1>2, <2>1, <2>3, <2>4, <3>1
    <3> QED BY <1>1, <2>2, <2>3, <3>1, <3>2
  <2>5. CASE q # r
    BY <1>1, <1>2, <1>3, <2>2, <2>5
  <2> QED BY <2>4, <2>5
<1> QED BY <1>2, <1>3, <1>4 DEF SamplesInv, SamplesConserved

\* The three writers of the rows: what changes for r, user by user.
LEMMA MovesConserve ==
    ASSUME SamplesInv, NEW r \in Replicas,
           UNCHANGED <<tracked, count, evicted, accounts>>,
           pending' \in [Replicas -> [Users -> Nat]],
           samples' \in [Replicas -> [Users -> Nat]],
           doubted' = [q \in Replicas |-> doubted'[q]],
           JobsTyped',
           \A u \in Users : pending[r][u] = 0 => pending'[r][u] = 0,
           \A q \in Replicas : doubted[q] \subseteq doubted'[q],
           \A q \in Replicas \ {r} : /\ pending'[q] = pending[q] /\ samples'[q] = samples[q]
                                     /\ job'[q].batch = job[q].batch,
           \A u \in Users \ doubted'[r] :
                samples'[r][u] + job'[r].batch[u] + pending'[r][u]
                  = samples[r][u] + job[r].batch[u] + pending[r][u]
    PROVE  SamplesInv'
<1>1. SamplesTyped'
  BY DEF SamplesInv, SamplesTyped
<1>2. ASSUME NEW q \in Replicas, NEW u \in Users \ tracked'[q]
      PROVE  count'[q][u] = 0 /\ pending'[q][u] = 0
  <2>1. count[q][u] = 0 /\ pending[q][u] = 0
    BY <1>2 DEF SamplesInv, NothingWithoutSlot
  <2> QED BY <2>1
<1>3. ASSUME NEW q \in Replicas, NEW u \in Users, Intact(q, u)'
      PROVE  (samples[q][u] + job[q].batch[u] + pending[q][u] = count[q][u])'
  <2>1. samples[q][u] + job[q].batch[u] + pending[q][u] = count[q][u] /\ u \notin doubted'[q]
    BY <1>3 DEF SamplesInv, SamplesConserved, Intact
  <2>2. CASE q = r
    BY <2>1, <2>2
  <2>3. CASE q # r
    BY <2>1, <2>3
  <2> QED BY <2>2, <2>3
<1> QED BY <1>1, <1>2, <1>3 DEF SamplesInv, SamplesConserved, NothingWithoutSlot

LEMMA DrainSamplesKeeps ==
    ASSUME SamplesInv, NEW r \in Replicas, DrainSamples(r)
    PROVE  SamplesInv'
<1>1. /\ pending' = [pending EXCEPT ![r] = NoBatch]
      /\ \E pc : /\ pc \in {"drain", "write"}
                 /\ pc = "drain" => pending[r] = NoBatch
                 /\ job' = [job EXCEPT ![r] = [job[r] EXCEPT !.batch = pending[r], !.pc = pc]]
      /\ job[r].batch = NoBatch
      /\ UNCHANGED <<tracked, count, evicted, samples, accounts, doubted>>
  <2>1. Support(pending[r]) = {} => pending[r] = NoBatch
    BY DEF Support, NoBatch, SamplesInv, SamplesTyped
  <2>2. job[r].batch = NoBatch
    BY DEF DrainSamples, SamplesInv, JobsTyped
  <2>3. /\ pending' = [pending EXCEPT ![r] = NoBatch]
        /\ UNCHANGED <<tracked, count, evicted, samples, accounts, doubted>>
    BY DEF DrainSamples, tables
  <2>4. CASE Support(pending[r]) = {}
    <3>1. job' = [job EXCEPT ![r] = [job[r] EXCEPT !.batch = pending[r], !.pc = "drain"]]
      BY <2>4 DEF DrainSamples
    <3> QED BY <2>1, <2>2, <2>3, <2>4, <3>1
  <2>5. CASE Support(pending[r]) # {}
    <3>1. job' = [job EXCEPT ![r] = [job[r] EXCEPT !.batch = pending[r], !.pc = "write"]]
      BY <2>5 DEF DrainSamples
    <3> QED BY <2>2, <2>3, <3>1
  <2> QED BY <2>4, <2>5
<1>2. NoBatch \in [Users -> Nat] /\ \A u \in Users : NoBatch[u] = 0
  BY DEF NoBatch
<1>3. /\ JobsTyped'
      /\ job'[r].batch = pending[r]
      /\ \A q \in Replicas \ {r} : job'[q].batch = job[q].batch
  <2>1. PICK pc : /\ pc \in {"drain", "write"}
                  /\ pc = "drain" => pending[r] = NoBatch
                  /\ job' = [job EXCEPT ![r] = [job[r] EXCEPT !.batch = pending[r], !.pc = pc]]
    BY <1>1
  <2>2. /\ job' = [q \in Replicas |-> job'[q]]
        /\ \A q \in Replicas \ {r} : job'[q] = job[q]
        /\ job'[r] = [job[r] EXCEPT !.batch = pending[r], !.pc = pc]
    BY <2>1 DEF SamplesInv, JobsTyped
  <2>3. /\ DOMAIN job'[r] = {"pc", "batch", "delta"}
        /\ job'[r].batch = pending[r]
        /\ job'[r].pc = pc
    BY <2>2 DEF SamplesInv, JobsTyped
  <2>4. pending[r] \in [Users -> Nat]
    BY DEF SamplesInv, SamplesTyped
  <2> QED BY <2>1, <2>2, <2>3, <2>4 DEF SamplesInv, JobsTyped
<1>4. /\ pending' \in [Replicas -> [Users -> Nat]]
      /\ pending'[r] = NoBatch
      /\ \A q \in Replicas \ {r} : pending'[q] = pending[q]
  BY <1>1, <1>2 DEF SamplesInv, SamplesTyped
<1>5. /\ samples' \in [Replicas -> [Users -> Nat]]
      /\ doubted' = [q \in Replicas |-> doubted'[q]]
  BY <1>1 DEF SamplesInv, SamplesTyped
<1>6. \A u \in Users : samples'[r][u] + job'[r].batch[u] + pending'[r][u]
                         = samples[r][u] + job[r].batch[u] + pending[r][u]
  BY <1>1, <1>2, <1>3, <1>4 DEF SamplesInv, SamplesTyped
<1> QED BY <1>1, <1>2, <1>3, <1>4, <1>5, <1>6, MovesConserve

LEMMA RecordMetricsSamplesKeeps ==
    ASSUME SamplesInv, NEW r \in Replicas, RecordMetricsSamples(r)
    PROVE  SamplesInv'
<1>1. NoBatch \in [Users -> Nat] /\ \A u \in Users : NoBatch[u] = 0
  BY DEF NoBatch
<1>2. /\ samples' = [samples EXCEPT ![r] = [u \in Users |-> samples[r][u] + job[r].batch[u]]]
      /\ job' = [job EXCEPT ![r] = [job[r] EXCEPT !.batch = NoBatch, !.pc = "drain"]]
      /\ UNCHANGED <<tracked, count, pending, evicted, accounts, doubted>>
  BY DEF RecordMetricsSamples, Upsert, Plus, slots, SamplesInv, SamplesTyped
<1>3. /\ JobsTyped'
      /\ job'[r].batch = NoBatch
      /\ \A q \in Replicas \ {r} : job'[q].batch = job[q].batch
  BY <1>1, <1>2 DEF SamplesInv, JobsTyped
<1>4. /\ samples' \in [Replicas -> [Users -> Nat]]
      /\ \A u \in Users : samples'[r][u] = samples[r][u] + job[r].batch[u]
      /\ \A q \in Replicas \ {r} : samples'[q] = samples[q]
  BY <1>2 DEF SamplesInv, SamplesTyped, JobsTyped
<1>5. /\ pending' \in [Replicas -> [Users -> Nat]]
      /\ doubted' = [q \in Replicas |-> doubted'[q]]
  BY <1>2 DEF SamplesInv, SamplesTyped
<1>6. \A u \in Users : samples'[r][u] + job'[r].batch[u] + pending'[r][u]
                         = samples[r][u] + job[r].batch[u] + pending[r][u]
  BY <1>1, <1>2, <1>3, <1>4 DEF SamplesInv, SamplesTyped, JobsTyped
<1> QED BY <1>2, <1>3, <1>4, <1>5, <1>6, MovesConserve

LEMMA SamplesFailKeeps ==
    ASSUME SamplesInv, NEW r \in Replicas, SamplesFail(r)
    PROVE  SamplesInv'
<1>1. /\ job[r].pc = "write"
      /\ job' = [job EXCEPT ![r] = [job[r] EXCEPT !.pc = "restore"]]
      /\ UNCHANGED <<tracked, count, pending, evicted, accounts>>
  BY DEF SamplesFail, Goto, slots
<1>2. JobsTyped' /\ \A q \in Replicas : job'[q].batch = job[q].batch
  BY <1>1 DEF SamplesInv, JobsTyped
<1>3. CASE UNCHANGED <<samples, doubted>>
  BY <1>1, <1>2, <1>3, UntouchedKeeps DEF SamplesUntouched, slots, SamplesInv, SamplesTyped
<1>4. CASE /\ samples' = [samples EXCEPT ![r] = Upsert(@, job[r].batch)]
           /\ doubted' = [doubted EXCEPT ![r] = @ \cup Support(job[r].batch)]
  <2>1. /\ samples' \in [Replicas -> [Users -> Nat]]
        /\ \A u \in Users : samples'[r][u] = samples[r][u] + job[r].batch[u]
        /\ \A q \in Replicas \ {r} : samples'[q] = samples[q]
    BY <1>4 DEF Upsert, Plus, SamplesInv, SamplesTyped, JobsTyped
  <2>2. /\ doubted' = [q \in Replicas |-> doubted'[q]]
        /\ \A q \in Replicas : doubted[q] \subseteq doubted'[q]
        /\ Support(job[r].batch) \subseteq doubted'[r]
    BY <1>4 DEF Support, SamplesInv, SamplesTyped, JobsTyped
  <2>3. ASSUME NEW u \in Users \ doubted'[r]
        PROVE  samples'[r][u] + job'[r].batch[u] + pending'[r][u]
                 = samples[r][u] + job[r].batch[u] + pending[r][u]
    <3>1. job[r].batch[u] = 0
      BY <2>2, <2>3 DEF Support, SamplesInv, JobsTyped
    <3> QED BY <1>1, <1>2, <2>1, <3>1 DEF SamplesInv, SamplesTyped
  <2>4. pending' \in [Replicas -> [Users -> Nat]]
    BY <1>1 DEF SamplesInv, SamplesTyped
  <2> QED BY <1>1, <1>2, <2>1, <2>2, <2>3, <2>4, MovesConserve
<1> QED BY <1>3, <1>4 DEF SamplesFail

LEMMA DeleteUserKeeps ==
    ASSUME SamplesInv, NEW v \in Users, DeleteUser(v)
    PROVE  SamplesInv'
<1>1. /\ v \in accounts
      /\ accounts' = accounts \ {v}
      /\ samples' = [r \in Replicas |-> [samples[r] EXCEPT ![v] = 0]]
      /\ UNCHANGED <<tracked, count, pending, evicted, doubted, job>>
  BY DEF DeleteUser, slots
<1>2. SamplesTyped' /\ JobsTyped' /\ NothingWithoutSlot'
  BY <1>1 DEF SamplesInv, SamplesTyped, JobsTyped, NothingWithoutSlot
<1>3. ASSUME NEW q \in Replicas, NEW u \in Users, Intact(q, u)'
      PROVE  (samples[q][u] + job[q].batch[u] + pending[q][u] = count[q][u])'
  <2>1. u # v
    BY <1>1, <1>3 DEF Intact, SamplesInv, SamplesTyped
  <2>2. Intact(q, u)
    BY <1>1, <1>3 DEF Intact
  <2> QED BY <1>1, <2>1, <2>2 DEF SamplesInv, SamplesTyped, SamplesConserved
<1> QED BY <1>2, <1>3 DEF SamplesInv, SamplesConserved

LEMMA RestartKeeps ==
    ASSUME SamplesInv, NEW r \in Replicas, Restart(r)
    PROVE  SamplesInv'
<1>1. /\ samples' = [samples EXCEPT ![r] = NoBatch]
      /\ tracked' = [tracked EXCEPT ![r] = {}]
      /\ count' = [count EXCEPT ![r] = NoBatch]
      /\ pending' = [pending EXCEPT ![r] = NoBatch]
      /\ job' = [job EXCEPT ![r] = Resting]
      /\ evicted' = [evicted EXCEPT ![r] = {}]
      /\ UNCHANGED <<accounts, doubted>>
  BY DEF Restart
<1>2. NoBatch \in [Users -> Nat] /\ \A u \in Users : NoBatch[u] = 0
  BY DEF NoBatch
<1>3. SamplesTyped' /\ NothingWithoutSlot'
  BY <1>1, <1>2 DEF SamplesInv, SamplesTyped, NothingWithoutSlot
<1>4. JobsTyped'
  BY <1>1, <1>2 DEF SamplesInv, JobsTyped, Resting
<1>5. ASSUME NEW q \in Replicas, NEW u \in Users, Intact(q, u)'
      PROVE  (samples[q][u] + job[q].batch[u] + pending[q][u] = count[q][u])'
  <2>1. CASE q = r
    BY <1>1, <1>2, <2>1 DEF Resting, SamplesInv, SamplesTyped, JobsTyped
  <2>2. CASE q # r
    BY <1>1, <1>5, <2>2 DEF Intact, SamplesInv, SamplesTyped, JobsTyped, SamplesConserved
  <2> QED BY <2>1, <2>2
<1> QED BY <1>3, <1>4, <1>5 DEF SamplesInv, SamplesConserved

\* The steps of the counters leave the samples alone.
LEMMA CountersKeepSamples ==
    ASSUME SamplesInv, NEW r \in Replicas,
           \/ MarkDecayRun(r) \/ DrainCounters(r) \/ CounterDeltas(r) \/ CountersFail(r)
           \/ RestoreCounters(r) \/ SnapshotLocal(r)
    PROVE  SamplesInv'
<1>1. UNCHANGED <<slots, samples, accounts>>
  BY DEF MarkDecayRun, DrainCounters, CounterDeltas, CountersFail, RestoreCounters,
         SnapshotLocal, tables
<1>2. \/ UNCHANGED doubted
      \/ doubted' = [doubted EXCEPT ![r] = @ \cup Support(job[r].delta)]
  BY DEF MarkDecayRun, DrainCounters, CounterDeltas, CountersFail, RestoreCounters,
         SnapshotLocal
<1>3. SamplesUntouched
  BY <1>1, <1>2 DEF SamplesUntouched, SamplesInv, SamplesTyped
<1>4. JobsTyped' /\ \A q \in Replicas : job'[q].batch = job[q].batch
  <2>1. CASE UNCHANGED job
    BY <2>1 DEF SamplesInv, JobsTyped
  <2>2. CASE DrainCounters(r)
    BY <2>2 DEF DrainCounters, SamplesInv, JobsTyped
  <2>3. CASE CountersFail(r)
    BY <2>3 DEF CountersFail, Goto, SamplesInv, JobsTyped
  <2>4. CASE CounterDeltas(r) \/ RestoreCounters(r)
    <3>1. job' = [job EXCEPT ![r] = Resting] /\ job[r].pc \in {"post", "undo"}
      BY <2>4 DEF CounterDeltas, RestoreCounters
    <3>2. job[r].batch = NoBatch /\ NoBatch \in [Users -> Nat]
      BY <3>1 DEF SamplesInv, JobsTyped, NoBatch
    <3> QED BY <3>1, <3>2 DEF SamplesInv, JobsTyped, Resting
  <2> QED BY <2>1, <2>2, <2>3, <2>4 DEF MarkDecayRun, SnapshotLocal
<1> QED BY <1>3, <1>4, UntouchedKeeps

LEMMA SamplesInvHolds == Spec => []SamplesInv
<1>1. Init => SamplesInv
  BY MetricsAssumption DEF Init, SamplesInv, SamplesTyped, JobsTyped, NothingWithoutSlot,
     SamplesConserved, Resting, NoBatch
<1>2. SamplesInv /\ [Next]_vars => SamplesInv'
  <2> SUFFICES ASSUME SamplesInv, [Next]_vars PROVE SamplesInv'
    OBVIOUS
  <2>1. ASSUME NEW r \in Replicas, NEW u \in Users, Record(r, u) PROVE SamplesInv'
    BY <2>1, RecordKeeps
  <2>2. ASSUME NEW r \in Replicas, DrainSamples(r) PROVE SamplesInv'
    BY <2>2, DrainSamplesKeeps
  <2>3. ASSUME NEW r \in Replicas, RecordMetricsSamples(r) PROVE SamplesInv'
    BY <2>3, RecordMetricsSamplesKeeps
  <2>4. ASSUME NEW r \in Replicas, SamplesFail(r) PROVE SamplesInv'
    BY <2>4, SamplesFailKeeps
  <2>5. ASSUME NEW r \in Replicas, RestoreSamples(r) PROVE SamplesInv'
    BY <2>5, RestoreSamplesKeeps
  <2>6. ASSUME NEW r \in Replicas,
               \/ MarkDecayRun(r) \/ DrainCounters(r) \/ CounterDeltas(r) \/ CountersFail(r)
               \/ RestoreCounters(r) \/ SnapshotLocal(r)
        PROVE  SamplesInv'
    BY <2>6, CountersKeepSamples
  <2>7. ASSUME NEW r \in Replicas, Restart(r) PROVE SamplesInv'
    BY <2>7, RestartKeeps
  <2>8. CASE SnapshotShared
    BY <2>8 DEF SnapshotShared, slots, tables, SamplesInv, SamplesTyped, JobsTyped,
       NothingWithoutSlot, SamplesConserved, Intact
  <2>9. ASSUME NEW u \in Users, DeleteUser(u) PROVE SamplesInv'
    BY <2>9, DeleteUserKeeps
  <2>10. CASE UNCHANGED vars
    BY <2>10 DEF vars, SamplesInv, SamplesTyped, JobsTyped, NothingWithoutSlot,
       SamplesConserved, Intact
  <2> QED BY <2>1, <2>2, <2>3, <2>4, <2>5, <2>6, <2>7, <2>8, <2>9, <2>10 DEF Next
<1> QED BY <1>1, <1>2, PTL DEF Spec

\* Every observation of a user whose slot, rows and writes are intact is in one place.
THEOREM SamplesAreConserved == Spec => []SamplesConserved
<1>1. SamplesInv => SamplesConserved
  BY DEF SamplesInv
<1> QED BY <1>1, SamplesInvHolds, PTL

-----------------------------------------------------------------------------
(* Counters.  What a counter shows is a total over slots or a number beside them;   *)
(* the baseline is what was posted and what is being posted of it.                  *)

CountersTyped ==
    /\ runs \in [Replicas -> Nat]
    /\ flushed \in [Replicas -> [Counters -> Int]]
    /\ posted \in [Replicas -> [Counters -> Int]]
    /\ past \in [Counters -> Int]
    /\ \A r \in Replicas : job[r].delta \in [Counters -> Int]

\* There is a delta only from the drain of the counters to the end of the tick, and as
\* long as no slot was dropped it is not negative and the baseline not ahead.
Ledger(r) ==
    /\ job[r].pc \notin {"post", "undo"} => job[r].delta = NoDelta
    /\ \A n \in Counters \ doubted[r] : posted[r][n] + job[r].delta[n] = flushed[r][n]
    /\ evicted[r] = {} => \A n \in Counters : /\ 0 <= job[r].delta[n]
                                              /\ flushed[r][n] <= localCounters(r)[n]

CountersInv == CountersTyped /\ \A r \in Replicas : Ledger(r)

LEMMA NoDeltaIs == NoDelta \in [Counters -> Int] /\ \A n \in Counters : NoDelta[n] = 0
BY DEF NoDelta

LEMMA RestingIs ==
    /\ DOMAIN Resting = {"pc", "batch", "delta"}
    /\ Resting.pc = "idle" /\ Resting.delta = NoDelta
BY DEF Resting

LEMMA PlusMinus ==
    ASSUME NEW f \in [Counters -> Int], NEW g \in [Counters -> Int]
    PROVE  /\ Plus(f, g) \in [Counters -> Int] /\ Minus(f, g) \in [Counters -> Int]
           /\ \A n \in Counters : Plus(f, g)[n] = f[n] + g[n] /\ Minus(f, g)[n] = f[n] - g[n]
BY DEF Plus, Minus

LEMMA LocalTyped ==
    ASSUME SamplesInv, CountersTyped, NEW r \in Replicas
    PROVE  localCounters(r) \in [Counters -> Int]
<1>1. IsFiniteSet(tracked[r]) /\ \A u \in tracked[r] : count[r][u] \in Int
  BY FS_Subset, MetricsAssumption DEF SamplesInv, SamplesTyped
<1>2. Total(count[r], tracked[r]) \in Int
  BY <1>1, TotalInt
<1>3. runs[r] \in Int
  BY DEF CountersTyped
<1> QED BY <1>2, <1>3 DEF localCounters

LEMMA OwedIs ==
    ASSUME SamplesInv, CountersTyped, NEW r \in Replicas
    PROVE  /\ Owed(r) \in [Counters -> Int]
           /\ \A n \in Counters : Owed(r)[n] = localCounters(r)[n] - flushed[r][n]
<1>1. localCounters(r) \in [Counters -> Int] /\ flushed[r] \in [Counters -> Int]
  BY LocalTyped DEF CountersTyped
<1> QED BY <1>1, PlusMinus DEF Owed

LEMMA LocalSame ==
    ASSUME NEW r, tracked'[r] = tracked[r], count'[r] = count[r], runs'[r] = runs[r]
    PROVE  localCounters(r)' = localCounters(r)
BY DEF localCounters

\* Counters do not fall while slots are kept.
LEMMA LocalGrows ==
    ASSUME SamplesInv, SamplesInv', NEW r \in Replicas, tracked[r] \subseteq tracked'[r],
           \A u \in Users : count[r][u] <= count'[r][u],
           runs[r] \in Int, runs'[r] \in Int, runs[r] <= runs'[r]
    PROVE  /\ localCounters(r)' \in [Counters -> Int]
           /\ \A n \in Counters : localCounters(r)[n] <= localCounters(r)'[n]
<1>1. /\ IsFiniteSet(tracked'[r])
      /\ \A u \in tracked[r] : count[r][u] \in Int /\ count[r][u] <= count'[r][u]
      /\ \A u \in tracked'[r] : count'[r][u] \in Int /\ 0 <= count'[r][u]
  BY FS_Subset, MetricsAssumption DEF SamplesInv, SamplesTyped
<1>2. Total(count[r], tracked[r]) <= Total(count'[r], tracked'[r])
  BY <1>1, TotalGrows
<1>3. Total(count'[r], tracked'[r]) \in Int
  BY <1>1, TotalInt
<1> QED BY <1>2, <1>3 DEF localCounters

\* A step of one replica.
LEMMA LedgerStep ==
    ASSUME CountersInv, NEW r \in Replicas,
           \A q \in Replicas \ {r} : /\ tracked'[q] = tracked[q] /\ count'[q] = count[q]
                                     /\ runs'[q] = runs[q] /\ flushed'[q] = flushed[q]
                                     /\ posted'[q] = posted[q] /\ job'[q] = job[q]
                                     /\ evicted'[q] = evicted[q] /\ doubted'[q] = doubted[q],
           CountersTyped', Ledger(r)'
    PROVE  CountersInv'
<1>1. ASSUME NEW q \in Replicas \ {r} PROVE Ledger(q)'
  <2>1. Ledger(q) /\ localCounters(q)' = localCounters(q)
    BY LocalSame DEF CountersInv
  <2> QED BY <2>1 DEF Ledger
<1> QED BY <1>1 DEF CountersInv

\* A touch of slots does not lower the counters, unless it drops slots.
LEMMA TouchLedger ==
    ASSUME SamplesInv, SamplesInv', CountersInv, NEW r \in Replicas,
           NEW queries \in [Users -> Nat], NEW owed, Touched(r, queries, owed), UNCHANGED totals
    PROVE  /\ \A q \in Replicas \ {r} : /\ tracked'[q] = tracked[q] /\ count'[q] = count[q]
                                        /\ evicted'[q] = evicted[q]
           /\ evicted'[r] = {} => /\ evicted[r] = {}
                                  /\ \A n \in Counters : flushed'[r][n] <= localCounters(r)'[n]
<1>1. \A q \in Replicas \ {r} : /\ tracked'[q] = tracked[q] /\ count'[q] = count[q]
                                /\ evicted'[q] = evicted[q]
  BY DEF Touched
<1>2. ASSUME evicted'[r] = {}
      PROVE  evicted[r] = {} /\ \A n \in Counters : flushed'[r][n] <= localCounters(r)'[n]
  <2>1. evicted[r] = {} /\ tracked[r] \subseteq tracked'[r]
        /\ \A u \in Users : count'[r][u] = count[r][u] + queries[u]
    BY <1>2 DEF Touched
  <2>2. \A u \in Users : count[r][u] \in Nat /\ queries[u] \in Nat
    BY DEF SamplesInv, SamplesTyped
  <2>3. \A u \in Users : count[r][u] <= count'[r][u]
    BY <2>1, <2>2
  <2>4. runs[r] \in Int /\ runs'[r] \in Int /\ runs[r] <= runs'[r]
        /\ flushed' = flushed /\ flushed[r] \in [Counters -> Int]
    BY DEF totals, CountersInv, CountersTyped
  <2>5. /\ localCounters(r)' \in [Counters -> Int]
        /\ \A n \in Counters : localCounters(r)[n] <= localCounters(r)'[n]
    BY <2>1, <2>3, <2>4, LocalGrows
  <2>6. localCounters(r) \in [Counters -> Int]
    BY LocalTyped DEF CountersInv
  <2>7. \A n \in Counters : flushed[r][n] <= localCounters(r)[n]
    BY <2>1 DEF CountersInv, Ledger
  <2> QED BY <2>1, <2>4, <2>5, <2>6, <2>7
<1> QED BY <1>1, <1>2

LEMMA RecordCounts ==
    ASSUME SamplesInv, SamplesInv', CountersInv, NEW r \in Replicas, NEW u \in Users, Record(r, u)
    PROVE  CountersInv'
<1>1. PICK one \in [Users -> Nat] : Touch(r, {u}, one, one) /\ \A v \in Users \ {u} : one[v] = 0
  BY DEF Record, NoBatch
<1>2. Touched(r, one, one)
  BY <1>1, TouchAdds DEF SamplesInv
<1>3. UNCHANGED <<totals, posted, past, job, doubted>>
  BY DEF Record, tables
<1>4. CountersTyped'
  BY <1>3 DEF CountersInv, CountersTyped, totals
<1>5. /\ \A q \in Replicas \ {r} : tracked'[q] = tracked[q] /\ count'[q] = count[q] /\ evicted'[q] = evicted[q]
      /\ evicted'[r] = {} => /\ evicted[r] = {}
                             /\ \A n \in Counters : flushed'[r][n] <= localCounters(r)'[n]
  BY <1>2, <1>3, TouchLedger
<1>6. Ledger(r)'
  BY <1>3, <1>5 DEF CountersInv, Ledger, totals
<1> QED BY <1>3, <1>4, <1>5, <1>6, LedgerStep DEF totals

LEMMA RestoreSamplesCounts ==
    ASSUME SamplesInv, SamplesInv', CountersInv, NEW r \in Replicas, RestoreSamples(r)
    PROVE  CountersInv'
<1>1. PICK batch \in [Users -> Nat] : batch = job[r].batch
  BY DEF SamplesInv, JobsTyped
<1>2. Touch(r, Support(batch), NoBatch, batch)
  BY <1>1 DEF RestoreSamples
<1>3. /\ NoBatch \in [Users -> Nat] /\ Support(batch) \in SUBSET Users
      /\ \A v \in Users \ Support(batch) : NoBatch[v] = 0 /\ batch[v] = 0
  BY DEF NoBatch, Support
<1>4. Touched(r, NoBatch, batch)
  BY <1>2, <1>3, TouchAdds DEF SamplesInv
<1>5. UNCHANGED <<totals, posted, past, doubted>> /\ job' = [job EXCEPT ![r] = Resting]
  BY DEF RestoreSamples, tables
<1>6. /\ \A q \in Replicas \ {r} : tracked'[q] = tracked[q] /\ count'[q] = count[q] /\ evicted'[q] = evicted[q]
      /\ evicted'[r] = {} => /\ evicted[r] = {}
                             /\ \A n \in Counters : flushed'[r][n] <= localCounters(r)'[n]
  BY <1>3, <1>4, <1>5, TouchLedger
<1>7. job'[r] = Resting /\ \A q \in Replicas \ {r} : job'[q] = job[q]
  BY <1>5 DEF SamplesInv, JobsTyped
<1>8. job[r].delta = NoDelta
  BY DEF RestoreSamples, CountersInv, Ledger
<1>9. CountersTyped'
  BY <1>5, <1>7, RestingIs, NoDeltaIs DEF CountersInv, CountersTyped, totals
<1>10. Ledger(r)'
  BY <1>5, <1>6, <1>7, <1>8, RestingIs, NoDeltaIs DEF CountersInv, Ledger, totals
<1> QED BY <1>5, <1>6, <1>7, <1>9, <1>10, LedgerStep DEF totals

LEMMA MarkDecayRunCounts ==
    ASSUME SamplesInv, SamplesInv', CountersInv, NEW r \in Replicas, MarkDecayRun(r)
    PROVE  CountersInv'
<1>1. UNCHANGED <<tracked, count, evicted, flushed, posted, past, job, doubted>>
      /\ runs' = [runs EXCEPT ![r] = @ + 1]
  BY DEF MarkDecayRun, slots, tables
<1>2. CountersTyped' /\ (\A q \in Replicas \ {r} : runs'[q] = runs[q])
      /\ runs[r] \in Int /\ runs'[r] \in Int /\ runs[r] <= runs'[r]
  BY <1>1 DEF CountersInv, CountersTyped
<1>3. \A u \in Users : count[r][u] \in Nat
  BY DEF SamplesInv, SamplesTyped
<1>4. /\ localCounters(r)' \in [Counters -> Int]
      /\ \A n \in Counters : localCounters(r)[n] <= localCounters(r)'[n]
  <2>1. \A u \in Users : count[r][u] <= count'[r][u]
    BY <1>1, <1>3
  <2> QED BY <1>1, <1>2, <2>1, LocalGrows
<1>5. localCounters(r) \in [Counters -> Int] /\ flushed[r] \in [Counters -> Int]
  BY LocalTyped DEF CountersInv, CountersTyped
<1>6. Ledger(r)'
  BY <1>1, <1>4, <1>5 DEF CountersInv, Ledger
<1> QED BY <1>1, <1>2, <1>6, LedgerStep

\* The rest of a tick before the counters has no delta, and leaves what they rest on alone.
LEMMA SamplesCount ==
    ASSUME SamplesInv, CountersInv, NEW r \in Replicas,
           DrainSamples(r) \/ RecordMetricsSamples(r) \/ SamplesFail(r)
    PROVE  CountersInv'
<1>1. UNCHANGED <<tracked, count, evicted, totals, posted, past>>
  BY DEF DrainSamples, RecordMetricsSamples, SamplesFail, slots, tables
<1>2. /\ job'[r].pc \notin {"post", "undo"} /\ job[r].pc \notin {"post", "undo"}
      /\ job'[r].delta = job[r].delta
      /\ \A q \in Replicas \ {r} : job'[q] = job[q]
  BY DEF DrainSamples, RecordMetricsSamples, SamplesFail, Goto, SamplesInv, JobsTyped
<1>3. /\ doubted[r] \subseteq doubted'[r]
      /\ \A q \in Replicas \ {r} : doubted'[q] = doubted[q]
  BY DEF DrainSamples, RecordMetricsSamples, SamplesFail, SamplesInv, SamplesTyped
<1>4. CountersTyped'
  BY <1>1, <1>2 DEF CountersInv, CountersTyped, totals
<1>5. localCounters(r)' = localCounters(r)
  BY <1>1, LocalSame DEF totals
<1>6. Ledger(r)'
  BY <1>1, <1>2, <1>3, <1>5 DEF CountersInv, Ledger, totals
<1> QED BY <1>1, <1>2, <1>3, <1>4, <1>6, LedgerStep DEF totals

LEMMA DrainCountersCounts ==
    ASSUME SamplesInv, CountersInv, NEW r \in Replicas, DrainCounters(r)
    PROVE  CountersInv'
<1>1. /\ UNCHANGED <<tracked, count, evicted, runs, posted, past, doubted>>
      /\ flushed' = [flushed EXCEPT ![r] = localCounters(r)]
      /\ job[r].pc = "drain"
  BY DEF DrainCounters, slots, tables
<1>2. /\ job'[r].delta = Owed(r)
      /\ job'[r].pc \notin {"post", "undo"} => Support(Owed(r)) = {}
      /\ \A q \in Replicas \ {r} : job'[q] = job[q]
  BY DEF DrainCounters, SamplesInv, JobsTyped
<1>3. /\ localCounters(r) \in [Counters -> Int] /\ Owed(r) \in [Counters -> Int]
      /\ \A n \in Counters : Owed(r)[n] = localCounters(r)[n] - flushed[r][n]
  BY LocalTyped, OwedIs DEF CountersInv
<1>4. Support(Owed(r)) = {} => Owed(r) = NoDelta
  BY <1>3, NoDeltaIs DEF Support
<1>5. /\ flushed'[r] = localCounters(r) /\ \A q \in Replicas \ {r} : flushed'[q] = flushed[q]
      /\ CountersTyped'
  BY <1>1, <1>2, <1>3 DEF CountersInv, CountersTyped
<1>6. localCounters(r)' = localCounters(r)
  BY <1>1, LocalSame
<1>7. /\ \A n \in Counters : posted[r][n] \in Int /\ flushed[r][n] \in Int
                              /\ localCounters(r)[n] \in Int
      /\ \A n \in Counters \ doubted[r] : posted[r][n] = flushed[r][n]
  <2>1. job[r].delta = NoDelta /\ \A n \in Counters \ doubted[r] : posted[r][n] + job[r].delta[n] = flushed[r][n]
    BY <1>1 DEF CountersInv, Ledger
  <2>2. \A n \in Counters : posted[r][n] \in Int /\ flushed[r][n] \in Int /\ localCounters(r)[n] \in Int
    BY <1>3 DEF CountersInv, CountersTyped
  <2> QED BY <2>1, <2>2, NoDeltaIs
<1>8. \A n \in Counters \ doubted'[r] : posted'[r][n] + job'[r].delta[n] = flushed'[r][n]
  BY <1>1, <1>2, <1>3, <1>5, <1>7
<1>9. evicted'[r] = {} => \A n \in Counters : /\ 0 <= job'[r].delta[n]
                                               /\ flushed'[r][n] <= localCounters(r)'[n]
  BY <1>1, <1>2, <1>3, <1>5, <1>6, <1>7 DEF CountersInv, Ledger
<1>10. Ledger(r)'
  BY <1>2, <1>4, <1>8, <1>9 DEF Ledger
<1> QED BY <1>1, <1>2, <1>5, <1>10, LedgerStep

LEMMA CounterDeltasCounts ==
    ASSUME SamplesInv, CountersInv, NEW r \in Replicas, CounterDeltas(r)
    PROVE  CountersInv'
<1>1. /\ UNCHANGED <<tracked, count, evicted, totals, past, doubted>>
      /\ posted' = [posted EXCEPT ![r] = Plus(@, job[r].delta)]
      /\ job'[r] = Resting /\ \A q \in Replicas \ {r} : job'[q] = job[q]
  BY DEF CounterDeltas, Posting, slots, SamplesInv, JobsTyped
<1>2. /\ Plus(posted[r], job[r].delta) \in [Counters -> Int]
      /\ \A n \in Counters : Plus(posted[r], job[r].delta)[n] = posted[r][n] + job[r].delta[n]
  BY PlusMinus DEF CountersInv, CountersTyped
<1>3. /\ posted'[r] = Plus(posted[r], job[r].delta) /\ \A q \in Replicas \ {r} : posted'[q] = posted[q]
      /\ CountersTyped'
  BY <1>1, <1>2, RestingIs, NoDeltaIs DEF CountersInv, CountersTyped, totals
<1>4. localCounters(r)' = localCounters(r)
  BY <1>1, LocalSame DEF totals
<1>5. \A n \in Counters : /\ posted[r][n] + job[r].delta[n] \in Int
                          /\ posted'[r][n] = posted[r][n] + job[r].delta[n]
  BY <1>2, <1>3 DEF CountersInv, CountersTyped
<1>6. Ledger(r)'
  BY <1>1, <1>4, <1>5, RestingIs, NoDeltaIs DEF CountersInv, Ledger, totals
<1> QED BY <1>1, <1>3, <1>6, LedgerStep DEF totals

LEMMA CountersFailCounts ==
    ASSUME SamplesInv, CountersInv, NEW r \in Replicas, CountersFail(r)
    PROVE  CountersInv'
<1>1. /\ UNCHANGED <<tracked, count, evicted, totals, past>>
      /\ job'[r].delta = job[r].delta /\ job'[r].pc = "undo"
      /\ \A q \in Replicas \ {r} : job'[q] = job[q]
  BY DEF CountersFail, Goto, slots, SamplesInv, JobsTyped
<1>2. localCounters(r)' = localCounters(r)
  BY <1>1, LocalSame DEF totals
<1>3. CASE UNCHANGED <<posted, doubted>>
  <2>1. CountersTyped'
    BY <1>1, <1>3 DEF CountersInv, CountersTyped, totals
  <2>2. Ledger(r)'
    BY <1>1, <1>2, <1>3 DEF CountersInv, Ledger, totals
  <2> QED BY <1>1, <1>3, <2>1, <2>2, LedgerStep DEF totals
<1>4. CASE /\ posted' = [posted EXCEPT ![r] = Plus(@, job[r].delta)]
           /\ doubted' = [doubted EXCEPT ![r] = @ \cup Support(job[r].delta)]
  <2>1. /\ Plus(posted[r], job[r].delta) \in [Counters -> Int]
        /\ \A n \in Counters : Plus(posted[r], job[r].delta)[n] = posted[r][n] + job[r].delta[n]
    BY PlusMinus DEF CountersInv, CountersTyped
  <2>2. /\ posted'[r] = Plus(posted[r], job[r].delta) /\ \A q \in Replicas \ {r} : posted'[q] = posted[q]
        /\ CountersTyped'
    BY <1>1, <1>4, <2>1 DEF CountersInv, CountersTyped, totals
  <2>3. /\ doubted'[r] = doubted[r] \cup Support(job[r].delta)
        /\ \A q \in Replicas \ {r} : doubted'[q] = doubted[q]
    BY <1>4 DEF SamplesInv, SamplesTyped
  <2>4. \A n \in Counters \ doubted'[r] : job[r].delta[n] = 0 /\ posted[r][n] \in Int
    BY <2>3 DEF Support, CountersInv, CountersTyped
  <2>5. \A n \in Counters \ doubted'[r] : posted'[r][n] + job'[r].delta[n] = flushed'[r][n]
    BY <1>1, <2>1, <2>2, <2>3, <2>4 DEF CountersInv, Ledger, totals
  <2>6. Ledger(r)'
    BY <1>1, <1>2, <2>5 DEF CountersInv, Ledger, totals
  <2> QED BY <1>1, <2>2, <2>3, <2>6, LedgerStep DEF totals
<1> QED BY <1>3, <1>4 DEF CountersFail, Posting

LEMMA RestoreCountersCounts ==
    ASSUME SamplesInv, CountersInv, NEW r \in Replicas, RestoreCounters(r)
    PROVE  CountersInv'
<1>1. /\ UNCHANGED <<tracked, count, evicted, runs, posted, past, doubted>>
      /\ flushed' = [flushed EXCEPT ![r] = Minus(@, job[r].delta)]
      /\ job'[r] = Resting /\ \A q \in Replicas \ {r} : job'[q] = job[q]
  BY DEF RestoreCounters, slots, tables, SamplesInv, JobsTyped
<1>2. /\ Minus(flushed[r], job[r].delta) \in [Counters -> Int]
      /\ \A n \in Counters : Minus(flushed[r], job[r].delta)[n] = flushed[r][n] - job[r].delta[n]
  BY PlusMinus DEF CountersInv, CountersTyped
<1>3. /\ flushed'[r] = Minus(flushed[r], job[r].delta) /\ \A q \in Replicas \ {r} : flushed'[q] = flushed[q]
      /\ CountersTyped'
  BY <1>1, <1>2, RestingIs, NoDeltaIs DEF CountersInv, CountersTyped
<1>4. localCounters(r)' = localCounters(r) /\ localCounters(r) \in [Counters -> Int]
  BY <1>1, LocalSame, LocalTyped DEF CountersInv
<1>5. \A n \in Counters : /\ posted[r][n] \in Int /\ flushed[r][n] \in Int /\ job[r].delta[n] \in Int
                          /\ localCounters(r)[n] \in Int
                          /\ flushed'[r][n] = flushed[r][n] - job[r].delta[n]
                          /\ job'[r].delta[n] = 0
  BY <1>1, <1>2, <1>3, <1>4, RestingIs, NoDeltaIs DEF CountersInv, CountersTyped
<1>6. \A n \in Counters \ doubted'[r] : posted'[r][n] + job'[r].delta[n] = flushed'[r][n]
  BY <1>1, <1>5 DEF CountersInv, Ledger
<1>7. evicted'[r] = {} => \A n \in Counters : /\ 0 <= job'[r].delta[n]
                                               /\ flushed'[r][n] <= localCounters(r)'[n]
  BY <1>1, <1>4, <1>5 DEF CountersInv, Ledger
<1>8. Ledger(r)'
  BY <1>1, <1>6, <1>7, RestingIs DEF Ledger
<1> QED BY <1>1, <1>3, <1>8, LedgerStep

LEMMA RestartCounts ==
    ASSUME SamplesInv, CountersInv, NEW r \in Replicas, Restart(r)
    PROVE  CountersInv'
<1>1. /\ tracked' = [tracked EXCEPT ![r] = {}] /\ count' = [count EXCEPT ![r] = NoBatch]
      /\ runs' = [runs EXCEPT ![r] = 0] /\ flushed' = [flushed EXCEPT ![r] = NoDelta]
      /\ posted' = [posted EXCEPT ![r] = NoDelta] /\ job' = [job EXCEPT ![r] = Resting]
      /\ evicted' = [evicted EXCEPT ![r] = {}] /\ doubted' = doubted
  BY DEF Restart
<1>2. past' \in [Counters -> Int]
  <2>1. PICK late \in {NoDelta, IF job[r].pc = "post" THEN job[r].delta ELSE NoDelta} :
          past' = [n \in Counters |-> past[n] + posted[r][n] + late[n]]
    BY DEF Restart
  <2>2. late \in [Counters -> Int]
    BY NoDeltaIs DEF CountersInv, CountersTyped
  <2> QED BY <2>1, <2>2 DEF CountersInv, CountersTyped
<1>3. \A q \in Replicas \ {r} :
         /\ tracked'[q] = tracked[q] /\ count'[q] = count[q]
         /\ runs'[q] = runs[q] /\ flushed'[q] = flushed[q]
         /\ posted'[q] = posted[q] /\ job'[q] = job[q]
         /\ evicted'[q] = evicted[q] /\ doubted'[q] = doubted[q]
  BY <1>1 DEF SamplesInv, SamplesTyped, JobsTyped, CountersInv, CountersTyped
<1>4. /\ tracked'[r] = {} /\ runs'[r] = 0 /\ flushed'[r] = NoDelta /\ posted'[r] = NoDelta
      /\ job'[r] = Resting
  BY <1>1 DEF SamplesInv, SamplesTyped, JobsTyped, CountersInv, CountersTyped
<1>5. CountersTyped'
  BY <1>1, <1>2, <1>3, <1>4, RestingIs, NoDeltaIs DEF CountersInv, CountersTyped
<1>6. \A n \in Counters : localCounters(r)'[n] = 0
  <2>1. Total(count'[r], {}) = 0
    BY FS_EmptySet, TotalStep
  <2> QED BY <1>4, <2>1 DEF localCounters
<1>7. Ledger(r)'
  BY <1>4, <1>6, RestingIs, NoDeltaIs DEF Ledger
<1> QED BY <1>3, <1>5, <1>7, LedgerStep

LEMMA CountersInvHolds == Spec => []CountersInv
<1>1. Init => CountersInv
  <2> SUFFICES ASSUME Init PROVE CountersInv
    OBVIOUS
  <2>1. CountersTyped
    BY RestingIs, NoDeltaIs DEF Init, CountersTyped
  <2>2. ASSUME NEW r \in Replicas PROVE Ledger(r)
    <3>1. Total(count[r], {}) = 0
      BY FS_EmptySet, TotalStep
    <3>2. \A n \in Counters : localCounters(r)[n] = 0
      BY <3>1 DEF Init, localCounters
    <3>3. job[r] = Resting /\ posted[r] = NoDelta /\ flushed[r] = NoDelta
      BY DEF Init
    <3> QED BY <3>2, <3>3, RestingIs, NoDeltaIs DEF Ledger
  <2> QED BY <2>1, <2>2 DEF CountersInv
<1>2. SamplesInv /\ SamplesInv' /\ CountersInv /\ [Next]_vars => CountersInv'
  <2> SUFFICES ASSUME SamplesInv, SamplesInv', CountersInv, [Next]_vars PROVE CountersInv'
    OBVIOUS
  <2>1. ASSUME UNCHANGED <<tracked, count, evicted, totals, posted, past, job, doubted>>
        PROVE  CountersInv'
    <3>1. \A r \in Replicas : localCounters(r)' = localCounters(r)
      BY <2>1, LocalSame DEF totals
    <3> QED BY <2>1, <3>1 DEF CountersInv, CountersTyped, Ledger, totals
  <2>2. ASSUME NEW r \in Replicas, SnapshotLocal(r) PROVE CountersInv'
    BY <2>1, <2>2 DEF SnapshotLocal, slots, tables
  <2>3. CASE SnapshotShared
    BY <2>1, <2>3 DEF SnapshotShared, slots, tables
  <2>4. ASSUME NEW u \in Users, DeleteUser(u) PROVE CountersInv'
    BY <2>1, <2>4 DEF DeleteUser, slots
  <2>5. CASE UNCHANGED vars
    BY <2>1, <2>5 DEF vars, totals
  <2> QED BY <2>2, <2>3, <2>4, <2>5, RecordCounts, RestoreSamplesCounts, MarkDecayRunCounts,
             SamplesCount, DrainCountersCounts, CounterDeltasCounts, CountersFailCounts,
             RestoreCountersCounts, RestartCounts DEF Next
<1> QED BY <1>1, <1>2, SamplesInvHolds, PTL DEF Spec

\* What a process has counted under each name is posted, being posted or owed, across
\* failed flushes, dropped slots and whatever is counted meanwhile.
THEOREM CountersAreConserved == Spec => []CountersConserved
<1>1. SamplesInv /\ CountersInv => CountersConserved
  <2> SUFFICES ASSUME SamplesInv, CountersInv, NEW r \in Replicas, NEW n \in Counters, n \notin doubted[r]
               PROVE  posted[r][n] + job[r].delta[n] + Owed(r)[n] = localCounters(r)[n]
    BY DEF CountersConserved
  <2>1. posted[r][n] + job[r].delta[n] = flushed[r][n]
    BY DEF CountersInv, Ledger
  <2>2. Owed(r)[n] = localCounters(r)[n] - flushed[r][n] /\ flushed[r][n] \in Int
        /\ localCounters(r)[n] \in Int
    BY OwedIs, LocalTyped DEF CountersInv, CountersTyped
  <2> QED BY <2>1, <2>2
<1> QED BY <1>1, SamplesInvHolds, CountersInvHolds, PTL

\* What is shared of a counter after a step that changed it for r alone.
LEMMA SharedIs ==
    ASSUME NEW f \in [Replicas -> Int], NEW g \in [Replicas -> Int], NEW r \in Replicas,
           \A q \in Replicas \ {r} : g[q] = f[q]
    PROVE  /\ Total(f, Replicas) \in Int /\ Total(g, Replicas) \in Int
           /\ Total(g, Replicas) - g[r] = Total(f, Replicas) - f[r]
<1> DEFINE rest == Replicas \ {r}
<1>1. IsFiniteSet(Replicas) /\ IsFiniteSet(rest)
  BY MetricsAssumption, FS_Subset
<1>2. Total(f, Replicas) = f[r] + Total(f, rest) /\ Total(g, Replicas) = g[r] + Total(g, rest)
  BY <1>1, TotalWithout
<1>3. /\ Total(f, Replicas) \in Int /\ Total(g, Replicas) \in Int
      /\ Total(f, rest) \in Int /\ Total(g, rest) \in Int
  BY <1>1, TotalInt
<1>4. \A q \in rest : f[q] \in Int /\ g[q] \in Int /\ f[q] <= g[q] /\ g[q] <= f[q]
  OBVIOUS
<1> HIDE DEF rest
<1>5. Total(f, rest) <= Total(g, rest) /\ Total(g, rest) <= Total(f, rest)
  BY <1>1, <1>4, TotalGrows
<1>6. f[r] \in Int /\ g[r] \in Int
  OBVIOUS
<1> QED BY <1>2, <1>3, <1>5, <1>6

Posted(n) == [r \in Replicas |-> posted[r][n]]

\* An increment that is not negative, and a process that ends, do not lower the totals.
LEMMA SharedStep ==
    ASSUME CountersInv, CountersInv', NEW r \in Replicas, NEW n \in Counters,
           \A q \in Replicas \ {r} : posted'[q] = posted[q],
           past[n] + posted[r][n] <= past'[n] + posted'[r][n]
    PROVE  Shared(n)' >= Shared(n)
<1>1. Posted(n) \in [Replicas -> Int] /\ Posted(n)' \in [Replicas -> Int]
      /\ past[n] \in Int /\ past'[n] \in Int
  BY DEF Posted, CountersInv, CountersTyped
<1>2. /\ \A q \in Replicas \ {r} : Posted(n)'[q] = Posted(n)[q]
      /\ Posted(n)[r] = posted[r][n] /\ Posted(n)'[r] = posted'[r][n]
      /\ posted[r][n] \in Int /\ posted'[r][n] \in Int
  BY DEF Posted, CountersInv, CountersTyped
<1>3. Shared(n) = past[n] + Total(Posted(n), Replicas)
      /\ Shared(n)' = past'[n] + Total(Posted(n)', Replicas)
  BY DEF Shared, Posted
<1>4. /\ Total(Posted(n), Replicas) \in Int /\ Total(Posted(n)', Replicas) \in Int
      /\ Total(Posted(n)', Replicas) - posted'[r][n] = Total(Posted(n), Replicas) - posted[r][n]
  BY <1>1, <1>2, SharedIs
<1> QED BY <1>1, <1>2, <1>3, <1>4

LEMMA TotalsStep ==
    ASSUME SamplesInv, CountersInv, CountersInv', [Next]_vars,
           \A r \in Replicas : evicted[r] = {}, NEW n \in Counters
    PROVE  Shared(n)' >= Shared(n)
<1>1. ASSUME UNCHANGED <<posted, past>> PROVE Shared(n)' >= Shared(n)
  <2>1. Shared(n)' = Shared(n)
    BY <1>1 DEF Shared
  <2>2. Shared(n) \in Int
    <3>1. Posted(n) \in [Replicas -> Int] /\ past[n] \in Int
      BY DEF Posted, CountersInv, CountersTyped
    <3>2. Total(Posted(n), Replicas) \in Int
      BY <3>1, TotalInt, MetricsAssumption
    <3> QED BY <3>1, <3>2 DEF Shared, Posted
  <2> QED BY <2>1, <2>2
<1>2. ASSUME NEW r \in Replicas, past' = past, posted' = [posted EXCEPT ![r] = Plus(@, job[r].delta)]
      PROVE  Shared(n)' >= Shared(n)
  <2>1. /\ \A q \in Replicas \ {r} : posted'[q] = posted[q]
        /\ posted'[r] = Plus(posted[r], job[r].delta)
        /\ posted[r] \in [Counters -> Int] /\ job[r].delta \in [Counters -> Int]
        /\ past[n] \in Int
    BY <1>2 DEF CountersInv, CountersTyped
  <2>2. posted'[r][n] = posted[r][n] + job[r].delta[n] /\ 0 <= job[r].delta[n]
    BY <2>1, PlusMinus DEF CountersInv, Ledger
  <2>3. past[n] + posted[r][n] <= past'[n] + posted'[r][n]
    BY <1>2, <2>1, <2>2
  <2> QED BY <2>1, <2>3, SharedStep
<1>3. ASSUME NEW r \in Replicas, Restart(r)
      PROVE  Shared(n)' >= Shared(n)
  <2>1. PICK late \in {NoDelta, IF job[r].pc = "post" THEN job[r].delta ELSE NoDelta} :
          past' = [m \in Counters |-> past[m] + posted[r][m] + late[m]]
    BY <1>3 DEF Restart
  <2>2. late[n] \in Int /\ 0 <= late[n]
    <3>1. late \in {NoDelta, job[r].delta}
      BY <2>1
    <3>2. job[r].delta \in [Counters -> Int] /\ 0 <= job[r].delta[n]
      BY DEF CountersInv, CountersTyped, Ledger
    <3> QED BY <3>1, <3>2, NoDeltaIs
  <2>3. /\ \A q \in Replicas \ {r} : posted'[q] = posted[q]
        /\ posted'[r] = NoDelta
        /\ posted[r][n] \in Int /\ past[n] \in Int
    BY <1>3 DEF Restart, CountersInv, CountersTyped
  <2>4. past[n] + posted[r][n] <= past'[n] + posted'[r][n]
    BY <2>1, <2>2, <2>3, NoDeltaIs
  <2> QED BY <2>3, <2>4, SharedStep
<1>4. ASSUME NEW r \in Replicas, CounterDeltas(r) \/ CountersFail(r)
      PROVE  Shared(n)' >= Shared(n)
  BY <1>1, <1>2, <1>4 DEF CounterDeltas, CountersFail, Posting
<1>5. ASSUME NEW r \in Replicas, NEW u \in Users, Record(r, u) PROVE Shared(n)' >= Shared(n)
  BY <1>1, <1>5 DEF Record, tables
<1>6. ASSUME NEW u \in Users, DeleteUser(u) PROVE Shared(n)' >= Shared(n)
  BY <1>1, <1>6 DEF DeleteUser
<1>7. ASSUME NEW r \in Replicas,
             \/ MarkDecayRun(r) \/ DrainSamples(r) \/ RecordMetricsSamples(r) \/ SamplesFail(r)
             \/ RestoreSamples(r) \/ DrainCounters(r) \/ RestoreCounters(r) \/ SnapshotLocal(r)
      PROVE  Shared(n)' >= Shared(n)
  BY <1>1, <1>7 DEF MarkDecayRun, DrainSamples, RecordMetricsSamples, SamplesFail, RestoreSamples,
     DrainCounters, RestoreCounters, SnapshotLocal, tables
<1>8. CASE SnapshotShared \/ UNCHANGED vars
  BY <1>1, <1>8 DEF SnapshotShared, vars, tables
<1> QED BY <1>3, <1>4, <1>5, <1>6, <1>7, <1>8 DEF Next

\* No failed, doubled or late write and no end of a process lowers a total on the
\* dashboard, as long as no collector has dropped a slot.
THEOREM TotalsFallOnlyBehindEviction == Spec => TotalsFallOnlyAfterEviction
<1>1. SamplesInv /\ CountersInv /\ CountersInv' /\ [Next]_vars
        => [(\A r \in Replicas : evicted[r] = {}) => \A n \in Counters : Shared(n)' >= Shared(n)]_vars
  BY TotalsStep
<1> QED BY <1>1, SamplesInvHolds, CountersInvHolds, PTL DEF Spec, TotalsFallOnlyAfterEviction

-----------------------------------------------------------------------------
(* The dream cycle (module Dream).  The invariant speaks of each walk by itself:    *)
(* MeetingIsFaithful is what the other walks and the requests do to one, QuietStep  *)
(* and ThenStep are what it does itself.                                            *)

\* A merge up to the deletion of the entry; the other end of an edge of i; that edge moved to k.
Pairs == {"fold", "to", "from", "edges", "fts", "access", "entry"}
Other(e, i) == IF e[1] = i THEN e[2] ELSE e[1]
Moved(e, i, k) == IF e[1] = i THEN <<k, Other(e, i)>> ELSE <<Other(e, i), k>>

\* The types the proof needs.
DreamTyped ==
    /\ row \in [Ids -> Row]
    /\ hits \in [Ids -> 0 .. None]
    /\ edges \subseteq Links
    /\ dream \in [Dreamers -> Walk \cup {Idle}]

\* The text of an entry is the listed one until somebody else changes the entry.
Listed(w) ==
    /\ w.todo # {} /\ First(w.todo) \notin w.near
    /\ \A i \in w.todo \ w.met : row[i].text = w.listed[i]

\* The two entries of a merge that nobody met are there and say the same.
Paired(w) ==
    /\ w.keep # w.drop
    /\ \A e \in w.links : e[1] = w.drop \/ e[2] = w.drop
Judged(w) ==
    /\ Live(w.keep) /\ Live(w.drop)
    /\ <<row[w.keep].text, row[w.drop].text>> \in Alike

\* How far an edge that the loser had when judged has come.
Carried(w, e) ==
    \/ Other(e, w.drop) = w.keep
    \/ Other(e, w.drop) \in w.met
    \/ e \in edges /\ (w.pc \in {"fold", "to"} \/ (w.pc = "from" /\ e[1] = w.drop))
    \/ Moved(e, w.drop, w.keep) \in edges /\ w.pc \notin {"fold", "to"} /\ (w.pc = "from" => e[2] = w.drop)

Faithful(w) ==
    /\ Listed(w)
    /\ w.pc \in Pairs =>
          /\ Paired(w)
          /\ w.met \cap {w.keep, w.drop} = {} => Judged(w) /\ \A e \in w.links : Carried(w, e)

DreamInv == DreamTyped /\ \A d \in Dreamers : Busy(d) => Faithful(dream[d])

-----------------------------------------------------------------------------
\* A set of numbers has a first one.
LEMMA FirstIn == ASSUME NEW S, S \subseteq Ids, S # {} PROVE First(S) \in S
<1>1. S \subseteq Nat
  BY DreamAssumption
<1>2. PICK p \in S : \A q \in S : <<q, p>> \notin OpToRel(<, Nat)
  BY <1>1, NatLessThanWellFounded, WFMin
<1>3. \A q \in S : ~(q < p)
  BY <1>1, <1>2 DEF OpToRel
<1>4. \A q \in S : p <= q
  BY <1>1, <1>3
<1> QED
  BY <1>4 DEF First

\* A walk is a record, whatever it meets.
LEMMA WalkMeets ==
    ASSUME NEW w \in Walk, NEW S \in SUBSET Ids
    PROVE  /\ [w EXCEPT !.met = @ \cup S] \in Walk
           /\ [w EXCEPT !.met = @ \cup S] # Idle
BY DEF Walk, Idle

\* What others do to a walk: they change entries of S and take edges of theirs away.
LEMMA MeetingIsFaithful ==
    ASSUME DreamTyped, NEW w \in Walk, Faithful(w), NEW S \in SUBSET Ids,
           \A i \in Ids \ S : row'[i] = row[i],
           \A e \in edges \ edges' : e[1] \in S \/ e[2] \in S
    PROVE  Faithful([w EXCEPT !.met = @ \cup S])'
<1> DEFINE v == [w EXCEPT !.met = @ \cup S]
<1>1. /\ v.pc = w.pc /\ v.todo = w.todo /\ v.near = w.near /\ v.listed = w.listed
      /\ v.keep = w.keep /\ v.drop = w.drop /\ v.links = w.links
      /\ v.met = w.met \cup S
  BY DEF Walk
<1>2. w.keep \in Ids /\ w.drop \in Ids /\ w.todo \subseteq Ids /\ w.links \subseteq Links
  BY DEF Walk
<1> HIDE DEF v
<1>3. Listed(v)'
  BY <1>1, <1>2 DEF Faithful, Listed, First
<1>4. ASSUME v.pc \in Pairs
      PROVE  Paired(v)
  BY <1>1, <1>4 DEF Faithful, Paired
<1>5. ASSUME v.pc \in Pairs, v.met \cap {v.keep, v.drop} = {}
      PROVE  Judged(v)' /\ \A e \in v.links : Carried(v, e)'
  <2>1. w.keep \notin S /\ w.drop \notin S
    BY <1>1, <1>5
  <2>2. Judged(w) /\ Paired(w) /\ \A e \in w.links : Carried(w, e)
    BY <1>1, <1>5 DEF Faithful
  <2>3. Judged(v)'
    BY <1>1, <1>2, <2>1, <2>2 DEF Judged, Live
  <2>4. ASSUME NEW e \in v.links
        PROVE  Carried(v, e)'
    <3>1. Carried(w, e) /\ e \in Ids \X Ids /\ e[1] # e[2] /\ (e[1] = w.drop \/ e[2] = w.drop)
      BY <1>1, <1>2, <2>2, <2>4 DEF Links, Paired
    <3>2. CASE e \in edges \ edges'
      <4>1. Other(e, w.drop) \in S
        BY <2>1, <3>1, <3>2 DEF Other
      <4> QED
        BY <1>1, <4>1 DEF Carried
    <3>3. CASE Moved(e, w.drop, w.keep) \in edges \ edges'
      <4>1. Other(e, w.drop) \in S
        BY <2>1, <3>1, <3>3 DEF Other, Moved
      <4> QED
        BY <1>1, <4>1 DEF Carried
    <3>4. CASE e \notin edges \ edges' /\ Moved(e, w.drop, w.keep) \notin edges \ edges'
      BY <1>1, <3>1, <3>4 DEF Carried
    <3> QED
      BY <3>2, <3>3, <3>4
  <2> QED
    BY <2>3, <2>4
<1> QED
  BY <1>1, <1>3, <1>4, <1>5 DEF Faithful, Paired, v

\* A step of one walk that changes no row and no edge.
LEMMA QuietStep ==
    ASSUME DreamInv, NEW d \in Dreamers, NEW w \in Walk \cup {Idle},
           dream' = [dream EXCEPT ![d] = w], w # Idle => Faithful(w),
           row' = row, edges' = edges, hits' \in [Ids -> 0 .. None]
    PROVE  DreamInv'
<1>1. DreamTyped'
  BY DEF DreamInv, DreamTyped
<1>2. ASSUME NEW c \in Dreamers, dream'[c] # Idle
      PROVE  Faithful(dream[c])'
  <2>1. PICK u : u = dream'[c]
    OBVIOUS
  <2>2. Faithful(u)
    BY <1>2, <2>1 DEF DreamInv, DreamTyped, Busy
  <2> QED
    BY <2>1, <2>2 DEF Faithful, Listed, Paired, Judged, Carried, Live
<1> QED
  BY <1>1, <1>2 DEF DreamInv, Busy

\* A step of one walk that the others meet.
LEMMA MeetingStep ==
    ASSUME DreamInv, NEW d \in Dreamers, NEW w \in Walk \cup {Idle}, NEW S \in SUBSET Ids,
           dream' = [Meets(S) EXCEPT ![d] = w], w # Idle => Faithful(w)',
           row' \in [Ids -> Row], \A i \in Ids \ S : row'[i] = row[i],
           edges' \subseteq Links, \A e \in edges \ edges' : e[1] \in S \/ e[2] \in S,
           hits' \in [Ids -> 0 .. None]
    PROVE  DreamInv'
<1>1. ASSUME NEW c \in Dreamers, c # d
      PROVE  dream'[c] = IF Busy(c) THEN [dream[c] EXCEPT !.met = @ \cup S] ELSE Idle
  BY <1>1 DEF Meets
<1>2. dream'[d] = w
  BY DEF Meets
<1>3. ASSUME NEW c \in Dreamers, c # d, Busy(c)
      PROVE  /\ dream'[c] \in Walk
             /\ Faithful(dream[c])'
  <2>1. PICK u \in Walk : u = dream[c]
    BY <1>3 DEF DreamInv, DreamTyped, Busy
  <2>2. Faithful(u)
    BY <1>3, <2>1 DEF DreamInv
  <2>3. PICK v : v = [u EXCEPT !.met = @ \cup S]
    OBVIOUS
  <2>4. v = dream'[c] /\ v \in Walk
    BY <1>1, <1>3, <2>1, <2>3, WalkMeets
  <2>5. Faithful(v)'
    BY <2>2, <2>3, MeetingIsFaithful DEF DreamInv
  <2> QED
    BY <2>4, <2>5 DEF Faithful, Listed, Paired, Judged, Carried, Live
<1>4. DreamTyped'
  <2>1. dream' = [c \in Dreamers |-> dream'[c]]
    BY DEF Meets
  <2>2. \A c \in Dreamers : dream'[c] \in Walk \cup {Idle}
    BY <1>1, <1>2, <1>3
  <2> QED
    BY <2>1, <2>2 DEF DreamTyped
<1>5. ASSUME NEW c \in Dreamers, dream'[c] # Idle
      PROVE  Faithful(dream[c])'
  <2>1. CASE c # d
    BY <1>1, <1>3, <1>5, <2>1
  <2>2. CASE c = d
    BY <1>2, <1>5, <2>2 DEF Faithful, Listed, Paired, Judged, Carried, Live
  <2> QED
    BY <2>1, <2>2
<1> QED
  BY <1>4, <1>5 DEF DreamInv, Busy
-----------------------------------------------------------------------------
(* The walk *)

LEMMA InHand ==
    ASSUME DreamInv, NEW d \in Dreamers, Busy(d)
    PROVE  /\ dream[d] \in Walk
           /\ Faithful(dream[d])
           /\ First(dream[d].todo) \in dream[d].todo
<1>1. dream[d] \in Walk /\ Faithful(dream[d])
  BY DEF DreamInv, DreamTyped, Busy
<1>2. dream[d].todo \subseteq Ids /\ dream[d].todo # {}
  BY <1>1 DEF Walk, Faithful, Listed
<1> QED
  BY <1>1, <1>2, FirstIn

LEMMA OnwardIsFaithful ==
    ASSUME NEW w \in Walk, NEW i \in w.todo, Listed(w)
    PROVE  /\ Onward(w, i) \in Walk \cup {Idle}
           /\ Onward(w, i) # Idle => Faithful(Onward(w, i))
<1>1. CASE w.todo = {i}
  BY <1>1 DEF Onward
<1>2. CASE w.todo # {i}
  <2> DEFINE v == [w EXCEPT !.pc = "search", !.todo = @ \ {i}, !.near = {}, !.sum = 0, !.links = {}]
  <2>1. Onward(w, i) = v
    BY <1>2 DEF Onward
  <2>2. v \in Walk /\ v.todo = w.todo \ {i} /\ v.near = {} /\ v.pc = "search"
        /\ v.met = w.met /\ v.listed = w.listed
    BY DEF Walk, Awake, Merging, Links
  <2>3. Faithful(v)
    BY <1>2, <2>2 DEF Listed, Faithful, Pairs
  <2> QED
    BY <2>1, <2>2, <2>3
<1> QED
  BY <1>1, <1>2

LEMMA TickStep ==
    ASSUME DreamInv, NEW d \in Dreamers, Tick(d)
    PROVE  DreamInv'
<1>1. PICK batch \in SUBSET {i \in Ids : Live(i)} :
          Set(d, IF batch = {} THEN Idle ELSE
                 [pc |-> "search", todo |-> batch,
                  listed |-> [i \in Ids |-> IF i \in batch THEN row[i].text ELSE NoText],
                  merged |-> {}, near |-> {}, keep |-> First(Ids), drop |-> First(Ids),
                  sum |-> 0, links |-> {}, met |-> {}])
  BY DEF Tick
<1>2. CASE batch = {}
  BY <1>1, <1>2, QuietStep DEF Tick, Set, DreamInv, DreamTyped
<1>3. CASE batch # {}
  <2>1. PICK w : w = [pc |-> "search", todo |-> batch,
                  listed |-> [i \in Ids |-> IF i \in batch THEN row[i].text ELSE NoText],
                  merged |-> {}, near |-> {}, keep |-> First(Ids), drop |-> First(Ids),
                  sum |-> 0, links |-> {}, met |-> {}]
    OBVIOUS
  <2>2. First(Ids) \in Ids
    BY <1>3, FirstIn
  <2>3. w.listed \in [Ids -> Texts \cup {NoText}]
    BY <2>1 DEF DreamInv, DreamTyped, Row
  <2>4. w \in Walk
    BY <2>1, <2>2, <2>3 DEF Walk, Awake, Links
  <2>5. Faithful(w)
    BY <1>3, <2>1 DEF Faithful, Listed, Pairs
  <2>6. dream' = [dream EXCEPT ![d] = w]
    BY <1>1, <1>3, <2>1 DEF Set
  <2> QED
    BY <2>4, <2>5, <2>6, QuietStep DEF Tick, DreamInv, DreamTyped
<1> QED
  BY <1>2, <1>3

LEMMA SearchStep ==
    ASSUME DreamInv, NEW d \in Dreamers, Search(d)
    PROVE  DreamInv'
<1>1. PICK w \in Walk : w = dream[d] /\ Faithful(w) /\ First(w.todo) \in w.todo
  BY InHand DEF Search, At
<1>2. PICK i \in w.todo : i = First(w.todo)
  BY <1>1
<1>3. row' = row /\ edges' = edges /\ hits' \in [Ids -> 0 .. None]
  BY DEF Search, DreamInv, DreamTyped
<1>4. CASE Set(d, Onward(w, i))
  <2>1. PICK v : v = Onward(w, i)
    OBVIOUS
  <2>2. v \in Walk \cup {Idle} /\ (v # Idle => Faithful(v))
    BY <1>1, <2>1, OnwardIsFaithful DEF Faithful
  <2> QED
    BY <1>3, <1>4, <2>1, <2>2, QuietStep DEF Set
<1>5. ASSUME NEW near \in SUBSET (Ids \ {i}), Set(d, [w EXCEPT !.pc = "judge", !.near = near])
      PROVE  DreamInv'
  <2>1. PICK v : v = [w EXCEPT !.pc = "judge", !.near = near]
    OBVIOUS
  <2>2. v \in Walk /\ v.todo = w.todo /\ v.near = near /\ v.pc = "judge"
        /\ v.met = w.met /\ v.listed = w.listed
    BY <2>1 DEF Walk, Awake
  <2>3. Faithful(v)
    BY <1>1, <1>2, <1>5, <2>2 DEF Faithful, Listed, Pairs
  <2> QED
    BY <1>3, <1>5, <2>1, <2>2, <2>3, QuietStep DEF Set
<1>6. \/ Set(d, Onward(w, i))
      \/ \E near \in SUBSET (Ids \ {i}) : Set(d, [w EXCEPT !.pc = "judge", !.near = near])
  BY <1>1, <1>2 DEF Search
<1> QED
  BY <1>4, <1>5, <1>6

\* The judged pair says the same unless somebody met one of the two.
LEMMA JudgeStep ==
    ASSUME DreamInv, NEW d \in Dreamers, Judge(d)
    PROVE  DreamInv'
<1>1. PICK w \in Walk : w = dream[d] /\ Faithful(w) /\ First(w.todo) \in w.todo
  BY InHand DEF Judge, At
<1>2. PICK i \in w.todo : i = First(w.todo)
  BY <1>1
<1>3. row' = row /\ edges' = edges /\ hits' \in [Ids -> 0 .. None]
  BY DEF Judge, DreamInv, DreamTyped
<1>4. w.pc = "judge" /\ i \in Ids /\ w.near \subseteq Ids /\ i \notin w.near
  BY <1>1, <1>2 DEF Judge, At, Walk, Faithful, Listed
<1>5. CASE Set(d, Onward(w, i))
  <2>1. PICK v : v = Onward(w, i)
    OBVIOUS
  <2>2. v \in Walk \cup {Idle} /\ (v # Idle => Faithful(v))
    BY <1>1, <2>1, OnwardIsFaithful DEF Faithful
  <2> QED
    BY <1>3, <1>5, <2>1, <2>2, QuietStep DEF Set
<1>6. ASSUME NEW n \in w.near, Set(d, [w EXCEPT !.near = @ \ {n}])
      PROVE  DreamInv'
  <2>1. PICK v : v = [w EXCEPT !.near = @ \ {n}]
    OBVIOUS
  <2>2. v \in Walk /\ v.todo = w.todo /\ v.near = w.near \ {n} /\ v.pc = "judge"
        /\ v.met = w.met /\ v.listed = w.listed
    BY <1>4, <2>1 DEF Walk
  <2>3. Faithful(v)
    BY <1>1, <2>2 DEF Faithful, Listed, Pairs
  <2> QED
    BY <1>3, <1>6, <2>1, <2>2, <2>3, QuietStep DEF Set
<1>7. ASSUME NEW n \in w.near, NEW keep, NEW drop, {keep, drop} = {i, n}, Duplicate(w.listed[i], i, n),
             Set(d, [[w EXCEPT !.near = @ \ {n}] EXCEPT !.pc = "fold", !.keep = keep, !.drop = drop,
                              !.sum = AddHits(Count(i), Count(n)), !.links = Touching(drop, edges)])
      PROVE  DreamInv'
  <2>1. PICK v : v = [[w EXCEPT !.near = @ \ {n}] EXCEPT !.pc = "fold", !.keep = keep, !.drop = drop,
                               !.sum = AddHits(Count(i), Count(n)), !.links = Touching(drop, edges)]
    OBVIOUS
  <2>2. Count(i) \in Nat /\ Count(n) \in Nat
    <3>1. hits[i] \in 0 .. None /\ hits[n] \in 0 .. None
      BY <1>4, <1>7 DEF DreamInv, DreamTyped
    <3> QED
      BY <3>1, DreamAssumption DEF Count, None
  <2>3. AddHits(Count(i), Count(n)) \in Nat
    BY <2>2, DreamAssumption DEF AddHits
  <2>4. keep \in Ids /\ drop \in Ids /\ keep # drop
    BY <1>4, <1>7
  <2>5. Touching(drop, edges) \subseteq Links
    BY DEF Touching, DreamInv, DreamTyped
  <2>6. v \in Walk
    BY <2>1, <2>3, <2>4, <2>5 DEF Walk, Awake, Merging
  <2>7. /\ v.todo = w.todo /\ v.near = w.near \ {n} /\ v.pc = "fold" /\ v.met = w.met
        /\ v.listed = w.listed /\ v.keep = keep /\ v.drop = drop /\ v.links = Touching(drop, edges)
    BY <2>1 DEF Walk
  <2>8. Listed(v) /\ Paired(v)
    BY <1>1, <2>4, <2>7 DEF Faithful, Listed, Paired, Touching
  <2>9. v.met \cap {v.keep, v.drop} = {} => Judged(v)
    <3> SUFFICES ASSUME v.met \cap {v.keep, v.drop} = {}
                 PROVE  Judged(v)
      OBVIOUS
    <3>1. row[i].text = w.listed[i]
      BY <1>1, <1>7, <2>7 DEF Faithful, Listed
    <3>2. Live(i) /\ Live(n) /\ <<row[i].text, row[n].text>> \in Alike
      BY <1>7, <3>1 DEF Duplicate
    <3>3. <<row[n].text, row[i].text>> \in Alike
      BY <3>2, DreamAssumption
    <3>4. (v.keep = i /\ v.drop = n) \/ (v.keep = n /\ v.drop = i)
      BY <1>7, <2>4, <2>7
    <3> QED
      BY <3>2, <3>3, <3>4 DEF Judged
  <2>10. \A e \in v.links : Carried(v, e)
    BY <2>7 DEF Carried, Touching
  <2>11. Faithful(v)
    BY <2>8, <2>9, <2>10 DEF Faithful
  <2> QED
    BY <1>3, <1>7, <2>1, <2>6, <2>11, QuietStep DEF Set
<1>8. DreamInv'
  <2>1. \/ Set(d, Onward(w, i))
        \/ \E n \in w.near :
              LET rest == [w EXCEPT !.near = @ \ {n}]
                  keep == IF Stays(i, n) THEN i ELSE n
                  drop == IF Stays(i, n) THEN n ELSE i IN
              IF Duplicate(w.listed[i], i, n)
              THEN Set(d, [rest EXCEPT !.pc = "fold", !.keep = keep, !.drop = drop,
                                       !.sum = AddHits(Count(i), Count(n)), !.links = Touching(drop, edges)])
              ELSE Set(d, rest)
    BY <1>1, <1>2 DEF Judge
  <2>2. ASSUME NEW n \in w.near,
               LET rest == [w EXCEPT !.near = @ \ {n}]
                   keep == IF Stays(i, n) THEN i ELSE n
                   drop == IF Stays(i, n) THEN n ELSE i IN
               IF Duplicate(w.listed[i], i, n)
               THEN Set(d, [rest EXCEPT !.pc = "fold", !.keep = keep, !.drop = drop,
                                        !.sum = AddHits(Count(i), Count(n)), !.links = Touching(drop, edges)])
               ELSE Set(d, rest)
        PROVE  DreamInv'
    <3> DEFINE keep == IF Stays(i, n) THEN i ELSE n
               drop == IF Stays(i, n) THEN n ELSE i
    <3>1. CASE ~Duplicate(w.listed[i], i, n)
      BY <1>6, <2>2, <3>1
    <3>2. CASE Duplicate(w.listed[i], i, n)
      <4>1. Set(d, [[w EXCEPT !.near = @ \ {n}] EXCEPT !.pc = "fold", !.keep = keep, !.drop = drop,
                       !.sum = AddHits(Count(i), Count(n)), !.links = Touching(drop, edges)])
        BY <2>2, <3>2
      <4>2. {keep, drop} = {i, n}
        OBVIOUS
      <4> HIDE DEF keep, drop
      <4> QED
        BY <1>7, <3>2, <4>1, <4>2
    <3> QED
      BY <3>1, <3>2
  <2> QED
    BY <1>5, <2>1, <2>2
<1> QED
  BY <1>8
-----------------------------------------------------------------------------
(* The merge *)

\* A merge that is given up leaves the walk with its next neighbour.
LEMMA GiveUpStep ==
    ASSUME DreamInv, NEW d \in Dreamers, Busy(d), GiveUp(d), row' = row, edges' = edges, hits' = hits
    PROVE  DreamInv'
<1>1. PICK w \in Walk : w = dream[d] /\ Faithful(w)
  BY InHand
<1>2. PICK v : v = [w EXCEPT !.pc = "judge"]
  OBVIOUS
<1>3. v \in Walk /\ v.todo = w.todo /\ v.near = w.near /\ v.pc = "judge"
      /\ v.met = w.met /\ v.listed = w.listed
  BY <1>2 DEF Walk, Awake
<1>4. Faithful(v)
  BY <1>1, <1>3 DEF Faithful, Listed, Pairs
<1> QED
  BY <1>1, <1>2, <1>3, <1>4, QuietStep DEF GiveUp, Set, DreamInv, DreamTyped

\* A statement of a merge: what the others meet, and what the walk itself still has to be told.
LEMMA ThenStep ==
    ASSUME DreamInv, NEW d \in Dreamers, Busy(d), NEW pc \in Merging, Then(d, pc),
           NEW w \in Walk, w = dream[d],
           row' \in [Ids -> Row], \A i \in Ids \ {w.keep, w.drop} : row'[i] = row[i],
           \A i \in Ids : row'[i].text = row[i].text,
           edges' \subseteq Links,
           \A e \in edges \ edges' : e[1] \in {w.keep, w.drop} \/ e[2] \in {w.keep, w.drop},
           hits' \in [Ids -> 0 .. None],
           w.pc \in Pairs,
           pc # "vector" => row' = row,
           pc # "vector" /\ w.met \cap {w.keep, w.drop} = {} =>
                \A e \in w.links : Carried([w EXCEPT !.pc = pc], e)'
    PROVE  DreamInv'
<1>1. PICK v : v = [w EXCEPT !.pc = pc]
  OBVIOUS
<1>2. v \in Walk /\ v.todo = w.todo /\ v.near = w.near /\ v.pc = pc /\ v.links = w.links
      /\ v.met = w.met /\ v.listed = w.listed /\ v.keep = w.keep /\ v.drop = w.drop
  BY <1>1 DEF Walk, Awake
<1>3. Faithful(w)
  BY InHand
<1>4. Listed(v)'
  <2>1. w.todo \subseteq Ids
    BY DEF Walk
  <2> QED
    BY <1>2, <1>3, <2>1 DEF Faithful, Listed
<1>5. ASSUME pc # "vector"
      PROVE  Paired(v)' /\ (v.met \cap {v.keep, v.drop} = {} => Judged(v)' /\ \A e \in v.links : Carried(v, e)')
  BY <1>1, <1>2, <1>3, <1>5 DEF Faithful, Paired, Judged, Live
<1>6. Faithful(v)'
  BY <1>2, <1>4, <1>5 DEF Faithful, Pairs
<1>7. {w.keep, w.drop} \in SUBSET Ids /\ dream' = [Meets({w.keep, w.drop}) EXCEPT ![d] = v]
  BY <1>1 DEF Then, SetMeeting, Walk
<1> QED
  BY <1>2, <1>6, <1>7, MeetingStep

LEMMA FoldStep ==
    ASSUME DreamInv, NEW d \in Dreamers, Fold(d)
    PROVE  DreamInv'
<1>1. PICK w \in Walk : w = dream[d] /\ Faithful(w)
  BY InHand DEF Fold, At
<1>2. Busy(d) /\ w.pc = "fold" /\ Then(d, "to") /\ row' = row /\ edges' = edges
  BY <1>1 DEF Fold, At
<1>3. hits' \in [Ids -> 0 .. None]
  <2>1. hits \in [Ids -> 0 .. None] /\ w.keep \in Ids /\ w.drop \in Ids
    BY DEF DreamInv, DreamTyped, Walk
  <2>2. ASSUME NEW n \in 0 .. None, n # None
        PROVE  AddHits(n, Count(w.drop)) \in 0 .. None
    <3>1. hits[w.drop] \in 0 .. None
      BY <2>1
    <3> QED
      BY <2>2, <3>1, DreamAssumption DEF AddHits, Count, None
  <2>3. hits' = [hits EXCEPT ![w.keep] = IF hits[w.keep] = None THEN None
                                         ELSE AddHits(hits[w.keep], Count(w.drop))]
    BY <1>1 DEF Fold
  <2>4. None \in 0 .. None
    BY DreamAssumption DEF None
  <2> QED
    BY <2>1, <2>2, <2>3, <2>4
<1>4. w.met \cap {w.keep, w.drop} = {} => \A e \in w.links : Carried([w EXCEPT !.pc = "to"], e)'
  BY <1>1, <1>2 DEF Faithful, Pairs, Carried, Walk
<1> QED
  BY <1>1, <1>2, <1>3, <1>4, ThenStep DEF Merging, Pairs, DreamInv, DreamTyped

LEMMA RedirectToStep ==
    ASSUME DreamInv, NEW d \in Dreamers, RedirectTo(d)
    PROVE  DreamInv'
<1>1. PICK w \in Walk : w = dream[d] /\ Faithful(w)
  BY InHand DEF RedirectTo, At
<1>2. Busy(d) /\ w.pc = "to" /\ row' = row /\ hits' = hits
  BY <1>1 DEF RedirectTo, At, Redirect
<1>3. CASE GiveUp(d) /\ edges' = edges
  BY <1>2, <1>3, GiveUpStep
<1>4. CASE ~(GiveUp(d) /\ edges' = edges)
  <2> DEFINE old == {e \in edges : e[2] = w.drop /\ e[1] # w.keep}
             new == {<<e[1], w.keep>> : e \in old}
  <2>1. edges' = (edges \ old) \cup new /\ Then(d, "from")
    BY <1>1, <1>4 DEF RedirectTo, Redirect
  <2>2. edges \subseteq Links /\ w.keep \in Ids
    BY DEF DreamInv, DreamTyped, Walk
  <2>3. edges' \subseteq Links
    BY <2>1, <2>2 DEF Links
  <2>4. ASSUME w.met \cap {w.keep, w.drop} = {}, NEW e \in w.links
        PROVE  Carried([w EXCEPT !.pc = "from"], e)'
    <3>1. Paired(w) /\ Carried(w, e) /\ e \in Ids \X Ids /\ e[1] # e[2]
      BY <1>1, <1>2, <2>4 DEF Faithful, Pairs, Walk, Links
    <3>2. CASE e \in edges /\ e[1] = w.drop
      BY <2>1, <3>1, <3>2 DEF Carried, Walk
    <3>3. CASE e \in edges /\ e[2] = w.drop /\ e[1] # w.keep
      <4>1. <<e[1], w.keep>> \in edges'
        BY <2>1, <3>3
      <4>2. Moved(e, w.drop, w.keep) = <<e[1], w.keep>>
        BY <3>1, <3>3 DEF Moved, Other
      <4> QED
        BY <3>3, <4>1, <4>2 DEF Carried, Walk
    <3>4. CASE Other(e, w.drop) = w.keep \/ Other(e, w.drop) \in w.met
      BY <3>4 DEF Carried, Walk
    <3>5. e \in edges \/ Other(e, w.drop) = w.keep \/ Other(e, w.drop) \in w.met
      BY <1>2, <3>1 DEF Carried
    <3>6. e[1] = w.drop \/ (e[2] = w.drop /\ Other(e, w.drop) = e[1])
      BY <2>4, <3>1 DEF Paired, Other
    <3> QED
      BY <3>2, <3>3, <3>4, <3>5, <3>6
  <2>5. \A e \in edges \ edges' : e[1] \in {w.keep, w.drop} \/ e[2] \in {w.keep, w.drop}
    BY <2>1
  <2>6. /\ w.met \cap {w.keep, w.drop} = {} => \A e \in w.links : Carried([w EXCEPT !.pc = "from"], e)'
        /\ row' \in [Ids -> Row] /\ hits' \in [Ids -> 0 .. None]
    BY <1>2, <2>4 DEF DreamInv, DreamTyped
  <2> HIDE DEF old, new
  <2> QED
    BY <1>1, <1>2, <2>1, <2>3, <2>5, <2>6, ThenStep DEF Merging, Pairs, DreamInv, DreamTyped
<1> QED
  BY <1>3, <1>4

LEMMA RedirectFromStep ==
    ASSUME DreamInv, NEW d \in Dreamers, RedirectFrom(d)
    PROVE  DreamInv'
<1>1. PICK w \in Walk : w = dream[d] /\ Faithful(w)
  BY InHand DEF RedirectFrom, At
<1>2. Busy(d) /\ w.pc = "from" /\ row' = row /\ hits' = hits
  BY <1>1 DEF RedirectFrom, At, Redirect
<1>3. CASE GiveUp(d) /\ edges' = edges
  BY <1>2, <1>3, GiveUpStep
<1>4. CASE ~(GiveUp(d) /\ edges' = edges)
  <2> DEFINE old == {e \in edges : e[1] = w.drop /\ e[2] # w.keep}
             new == {<<w.keep, e[2]>> : e \in old}
  <2>1. edges' = (edges \ old) \cup new /\ Then(d, "edges")
    BY <1>1, <1>4 DEF RedirectFrom, Redirect
  <2>2. edges \subseteq Links /\ w.keep \in Ids
    BY DEF DreamInv, DreamTyped, Walk
  <2>3. edges' \subseteq Links
    BY <2>1, <2>2 DEF Links
  <2>4. ASSUME w.met \cap {w.keep, w.drop} = {}, NEW e \in w.links
        PROVE  Carried([w EXCEPT !.pc = "edges"], e)'
    <3>1. Paired(w) /\ Carried(w, e) /\ e \in Ids \X Ids /\ e[1] # e[2]
      BY <1>1, <1>2, <2>4 DEF Faithful, Pairs, Walk, Links
    <3>2. CASE e \in edges /\ e[1] = w.drop /\ e[2] # w.keep
      <4>1. <<w.keep, e[2]>> \in edges'
        BY <2>1, <3>2
      <4>2. Moved(e, w.drop, w.keep) = <<w.keep, e[2]>>
        BY <3>1, <3>2 DEF Moved, Other
      <4> QED
        BY <4>1, <4>2 DEF Carried, Walk
    <3>3. CASE Moved(e, w.drop, w.keep) \in edges /\ e[2] = w.drop
      <4>1. Moved(e, w.drop, w.keep) = <<e[1], w.keep>> /\ e[1] # w.drop
        BY <3>1, <3>3 DEF Moved, Other
      <4>2. <<e[1], w.keep>> \in edges'
        BY <2>1, <3>3, <4>1
      <4> QED
        BY <4>1, <4>2 DEF Carried, Walk
    <3>4. CASE Other(e, w.drop) = w.keep \/ Other(e, w.drop) \in w.met
      BY <3>4 DEF Carried, Walk
    <3>5. \/ Other(e, w.drop) = w.keep \/ Other(e, w.drop) \in w.met
          \/ e \in edges /\ e[1] = w.drop
          \/ Moved(e, w.drop, w.keep) \in edges /\ e[2] = w.drop
      BY <1>2, <3>1 DEF Carried
    <3>6. e[1] = w.drop => Other(e, w.drop) = e[2]
      BY DEF Other
    <3> QED
      BY <3>2, <3>3, <3>4, <3>5, <3>6
  <2>5. \A e \in edges \ edges' : e[1] \in {w.keep, w.drop} \/ e[2] \in {w.keep, w.drop}
    BY <2>1
  <2>6. /\ w.met \cap {w.keep, w.drop} = {} => \A e \in w.links : Carried([w EXCEPT !.pc = "edges"], e)'
        /\ row' \in [Ids -> Row] /\ hits' \in [Ids -> 0 .. None]
    BY <1>2, <2>4 DEF DreamInv, DreamTyped
  <2> HIDE DEF old, new
  <2> QED
    BY <1>1, <1>2, <2>1, <2>3, <2>5, <2>6, ThenStep DEF Merging, Pairs, DreamInv, DreamTyped
<1> QED
  BY <1>3, <1>4

LEMMA DropEdgesStep ==
    ASSUME DreamInv, NEW d \in Dreamers, DropEdges(d)
    PROVE  DreamInv'
<1>1. PICK w \in Walk : w = dream[d] /\ Faithful(w)
  BY InHand DEF DropEdges, At
<1>2. /\ Busy(d) /\ w.pc = "edges" /\ row' = row /\ hits' = hits /\ Then(d, "fts")
      /\ edges' = edges \ Touching(w.drop, edges)
  BY <1>1 DEF DropEdges, At
<1>3. ASSUME w.met \cap {w.keep, w.drop} = {}, NEW e \in w.links
      PROVE  Carried([w EXCEPT !.pc = "fts"], e)'
  <2>1. Paired(w) /\ Carried(w, e) /\ e \in Ids \X Ids /\ e[1] # e[2]
    BY <1>1, <1>2, <1>3 DEF Faithful, Pairs, Walk, Links
  <2>2. CASE Moved(e, w.drop, w.keep) \in edges
    <3>1. Moved(e, w.drop, w.keep)[1] # w.drop /\ Moved(e, w.drop, w.keep)[2] # w.drop
      BY <1>3, <2>1 DEF Moved, Other, Paired
    <3>2. Moved(e, w.drop, w.keep) \in edges'
      BY <1>2, <2>2, <3>1 DEF Touching
    <3> QED
      BY <3>2 DEF Carried, Walk
  <2>3. CASE Other(e, w.drop) = w.keep \/ Other(e, w.drop) \in w.met
    BY <2>3 DEF Carried, Walk
  <2> QED
    BY <1>2, <2>1, <2>2, <2>3 DEF Carried
<1>4. edges' \subseteq Links /\ \A e \in edges \ edges' : e[1] \in {w.keep, w.drop} \/ e[2] \in {w.keep, w.drop}
  BY <1>2 DEF DreamInv, DreamTyped, Touching
<1> QED
  BY <1>1, <1>2, <1>3, <1>4, ThenStep DEF Merging, Pairs, DreamInv, DreamTyped

LEMMA DropFtsStep ==
    ASSUME DreamInv, NEW d \in Dreamers, DropFts(d)
    PROVE  DreamInv'
<1>1. PICK w \in Walk : w = dream[d] /\ Faithful(w)
  BY InHand DEF DropFts, At
<1>2. Busy(d) /\ w.pc = "fts" /\ row' = row /\ hits' = hits /\ edges' = edges /\ Then(d, "access")
  BY <1>1 DEF DropFts, At
<1>3. w.met \cap {w.keep, w.drop} = {} => \A e \in w.links : Carried([w EXCEPT !.pc = "access"], e)'
  BY <1>1, <1>2 DEF Faithful, Pairs, Carried, Walk
<1> QED
  BY <1>1, <1>2, <1>3, ThenStep DEF Merging, Pairs, DreamInv, DreamTyped

LEMMA DropAccessStep ==
    ASSUME DreamInv, NEW d \in Dreamers, DropAccess(d)
    PROVE  DreamInv'
<1>1. PICK w \in Walk : w = dream[d] /\ Faithful(w)
  BY InHand DEF DropAccess, At
<1>2. Busy(d) /\ w.pc = "access" /\ row' = row /\ edges' = edges /\ Then(d, "entry")
  BY <1>1 DEF DropAccess, At
<1>3. hits' \in [Ids -> 0 .. None]
  <2>1. None \in 0 .. None
    BY DreamAssumption DEF None
  <2> QED
    BY <2>1 DEF DropAccess, DreamInv, DreamTyped
<1>4. w.met \cap {w.keep, w.drop} = {} => \A e \in w.links : Carried([w EXCEPT !.pc = "entry"], e)'
  BY <1>1, <1>2 DEF Faithful, Pairs, Carried, Walk
<1> QED
  BY <1>1, <1>2, <1>3, <1>4, ThenStep DEF Merging, Pairs, DreamInv, DreamTyped

\* What deleting an entry does to the rest of the store.
LEMMA DeleteKeeps ==
    ASSUME DreamTyped, NEW i \in Ids, NEW st \in {"new", "live", "merged", "gone"}, Delete(i, st)
    PROVE  /\ row' \in [Ids -> Row] /\ hits' \in [Ids -> 0 .. None] /\ edges' \subseteq Links
           /\ \A j \in Ids \ {i} : row'[j] = row[j]
           /\ \A j \in Ids : row'[j].text = row[j].text
           /\ \A e \in edges \ edges' : e[1] = i \/ e[2] = i
<1>1. None \in 0 .. None
  BY DreamAssumption DEF None
<1>2. row' \in [Ids -> Row] /\ (\A j \in Ids \ {i} : row'[j] = row[j])
      /\ \A j \in Ids : row'[j].text = row[j].text
  BY DEF Delete, DreamTyped, Row
<1> QED
  BY <1>1, <1>2 DEF Delete, DreamTyped, Touching

LEMMA DropEntryStep ==
    ASSUME DreamInv, NEW d \in Dreamers, DropEntry(d)
    PROVE  DreamInv'
<1>1. PICK w \in Walk : w = dream[d] /\ Faithful(w)
  BY InHand DEF DropEntry, At
<1>2. /\ Busy(d) /\ w.pc = "entry" /\ Then(d, "vector") /\ w.drop \in Ids
      /\ Delete(w.drop, IF Live(w.drop) THEN "merged" ELSE row[w.drop].st)
  BY <1>1 DEF DropEntry, At, Walk
<1>0. (IF Live(w.drop) THEN "merged" ELSE row[w.drop].st) \in {"new", "live", "merged", "gone"}
  BY <1>2 DEF DreamInv, DreamTyped, Row
<1>3. /\ row' \in [Ids -> Row] /\ hits' \in [Ids -> 0 .. None] /\ edges' \subseteq Links
      /\ \A j \in Ids \ {w.drop} : row'[j] = row[j]
      /\ \A j \in Ids : row'[j].text = row[j].text
      /\ \A e \in edges \ edges' : e[1] = w.drop \/ e[2] = w.drop
  BY <1>0, <1>2, DeleteKeeps DEF DreamInv
<1>4. /\ \A j \in Ids \ {w.keep, w.drop} : row'[j] = row[j]
      /\ \A e \in edges \ edges' : e[1] \in {w.keep, w.drop} \/ e[2] \in {w.keep, w.drop}
  BY <1>3
<1> QED
  BY <1>1, <1>2, <1>3, <1>4, ThenStep DEF Merging, Pairs

LEMMA DropVectorStep ==
    ASSUME DreamInv, NEW d \in Dreamers, DropVector(d)
    PROVE  DreamInv'
<1>1. PICK w \in Walk : w = dream[d] /\ Faithful(w) /\ First(w.todo) \in w.todo
  BY InHand DEF DropVector, At
<1>2. PICK i \in w.todo : i = First(w.todo)
  BY <1>1
<1>3. PICK v : v = [w EXCEPT !.merged = @ \cup {w.drop}, !.pc = "judge"]
  OBVIOUS
<1>4. v \in Walk /\ v.todo = w.todo /\ v.near = w.near /\ v.pc = "judge"
      /\ v.met = w.met /\ v.listed = w.listed
  BY <1>3 DEF Walk, Awake
<1>5. Faithful(v) /\ Listed(v)
  BY <1>1, <1>4 DEF Faithful, Listed, Pairs
<1>6. PICK u : u = Onward(v, i)
  OBVIOUS
<1>7. u \in Walk \cup {Idle} /\ (u # Idle => Faithful(u))
  BY <1>4, <1>5, <1>6, OnwardIsFaithful
<1>8. dream' = [dream EXCEPT ![d] = u] \/ dream' = [dream EXCEPT ![d] = v]
  BY <1>1, <1>2, <1>3, <1>6 DEF DropVector, Set
<1>9. row' = row /\ edges' = edges /\ hits' \in [Ids -> 0 .. None]
  BY DEF DropVector, DreamInv, DreamTyped
<1> QED
  BY <1>4, <1>5, <1>7, <1>8, <1>9, QuietStep

-----------------------------------------------------------------------------
(* Requests, and what the theorems rest on *)

LEMMA RequestStep ==
    ASSUME DreamInv, NEW S \in SUBSET Ids, dream' = Meets(S),
           row' \in [Ids -> Row], \A i \in Ids \ S : row'[i] = row[i],
           edges' \subseteq Links, \A e \in edges \ edges' : e[1] \in S \/ e[2] \in S,
           hits' \in [Ids -> 0 .. None]
    PROVE  DreamInv'
<1>1. ASSUME NEW c \in Dreamers, Busy(c)
      PROVE  /\ dream'[c] \in Walk
             /\ Faithful(dream[c])'
  <2>1. PICK u \in Walk : u = dream[c]
    BY <1>1 DEF DreamInv, DreamTyped, Busy
  <2>2. Faithful(u)
    BY <1>1, <2>1 DEF DreamInv
  <2>3. PICK v : v = [u EXCEPT !.met = @ \cup S]
    OBVIOUS
  <2>4. v = dream'[c] /\ v \in Walk
    BY <1>1, <2>1, <2>3, WalkMeets DEF Meets
  <2>5. Faithful(v)'
    BY <2>2, <2>3, MeetingIsFaithful DEF DreamInv
  <2> QED
    BY <2>4, <2>5 DEF Faithful, Listed, Paired, Judged, Carried, Live
<1>2. \A c \in Dreamers : ~Busy(c) => dream'[c] = Idle
  BY DEF Meets
<1>3. dream' \in [Dreamers -> Walk \cup {Idle}]
  BY <1>1, <1>2 DEF Meets
<1>4. DreamTyped'
  BY <1>3 DEF DreamTyped
<1> QED
  BY <1>1, <1>2, <1>4 DEF DreamInv, Busy
LEMMA Requests ==
    ASSUME DreamInv,
           \/ \E i \in Ids, t \in Texts : Remember(i, t) \/ Rewrite(i, t)
           \/ \E i \in Ids : Forget(i) \/ BumpHits(i)
           \/ \E i, j \in Ids : AddRelation(i, j)
    PROVE  DreamInv'
<1>1. DreamTyped
  BY DEF DreamInv
<1>2. ASSUME NEW i \in Ids, NEW t \in Texts, Remember(i, t)
      PROVE  DreamInv'
  <2>1. dream' = Meets({i}) /\ edges' = edges
    BY <1>2 DEF Remember, Request
  <2>2. row' \in [Ids -> Row] /\ \A j \in Ids \ {i} : row'[j] = row[j]
    BY <1>1, <1>2 DEF Remember, DreamTyped, Row
  <2>3. hits' \in [Ids -> 0 .. None]
    BY <1>1, <1>2, DreamAssumption DEF Remember, DreamTyped, None
  <2> QED
    BY <1>1, <2>1, <2>2, <2>3, RequestStep DEF DreamTyped
<1>3. ASSUME NEW i \in Ids, NEW t \in Texts, Rewrite(i, t)
      PROVE  DreamInv'
  <2>1. dream' = Meets({i}) /\ edges' = edges /\ hits' = hits
    BY <1>3 DEF Rewrite, Request
  <2>2. row' \in [Ids -> Row] /\ \A j \in Ids \ {i} : row'[j] = row[j]
    BY <1>1, <1>3 DEF Rewrite, DreamTyped, Row
  <2> QED
    BY <1>1, <2>1, <2>2, RequestStep DEF DreamTyped
<1>4. ASSUME NEW i \in Ids, Forget(i)
      PROVE  DreamInv'
  <2>1. dream' = Meets({i}) /\ Delete(i, "gone")
    BY <1>4 DEF Forget, Request
  <2>2. /\ row' \in [Ids -> Row] /\ hits' \in [Ids -> 0 .. None] /\ edges' \subseteq Links
        /\ \A j \in Ids \ {i} : row'[j] = row[j]
        /\ \A e \in edges \ edges' : e[1] = i \/ e[2] = i
    BY <1>1, <2>1, DeleteKeeps
  <2>3. \A e \in edges \ edges' : e[1] \in {i} \/ e[2] \in {i}
    BY <2>2
  <2> QED
    BY <2>1, <2>2, <2>3, RequestStep
<1>5. ASSUME NEW i \in Ids, BumpHits(i)
      PROVE  DreamInv'
  <2>1. dream' = Meets({}) /\ edges' = edges /\ row' = row
    BY <1>5 DEF BumpHits, Request
  <2>2. hits[i] \in 0 .. None
    BY <1>1 DEF DreamTyped
  <2>3. AddHits(Count(i), 1) \in 0 .. None
    BY <2>2, DreamAssumption DEF AddHits, Count, None
  <2>4. hits' \in [Ids -> 0 .. None]
    BY <1>1, <1>5, <2>3 DEF BumpHits, DreamTyped
  <2> QED
    BY <1>1, <2>1, <2>4, RequestStep DEF DreamTyped
<1>6. ASSUME NEW i \in Ids, NEW j \in Ids, AddRelation(i, j)
      PROVE  DreamInv'
  <2>1. dream' = Meets({}) /\ row' = row /\ hits' = hits /\ edges' = edges \cup {<<i, j>>}
    BY <1>6 DEF AddRelation, Request
  <2>2. edges' \subseteq Links
    BY <1>1, <1>6, <2>1 DEF AddRelation, DreamTyped, Links
  <2> QED
    BY <1>1, <2>1, <2>2, RequestStep DEF DreamTyped
<1> QED
  BY <1>2, <1>3, <1>4, <1>5, <1>6

LEMMA DreamStart == ASSUME DreamInit PROVE DreamInv
<1>1. row \in [Ids -> Row]
  BY DreamAssumption DEF DreamInit, Row
<1>2. hits \in [Ids -> 0 .. None]
  BY DreamAssumption DEF DreamInit, None
<1>3. edges \subseteq Links /\ dream \in [Dreamers -> {Idle}]
  BY DEF DreamInit
<1> QED
  BY <1>1, <1>2, <1>3 DEF DreamInv, DreamTyped, Busy

LEMMA DreamPreserved == ASSUME DreamInv, [DreamNext]_dreamVars PROVE DreamInv'
<1>1. ASSUME NEW d \in Dreamers, Tick(d) \/ Step(d)
      PROVE  DreamInv'
  BY <1>1, TickStep, SearchStep, JudgeStep, FoldStep, RedirectToStep, RedirectFromStep, DropEdgesStep,
     DropFtsStep, DropAccessStep, DropEntryStep, DropVectorStep DEF Step
<1>2. ASSUME NEW d \in Dreamers, StatementFails(d)
      PROVE  DreamInv'
  BY <1>2, GiveUpStep DEF StatementFails
<1>3. ASSUME NEW d \in Dreamers, Crash(d)
      PROVE  DreamInv'
  <2>1. dream' = [dream EXCEPT ![d] = Idle] /\ row' = row /\ edges' = edges /\ hits' \in [Ids -> 0 .. None]
    BY <1>3 DEF Crash, Set, DreamInv, DreamTyped
  <2> QED
    BY <2>1, QuietStep
<1>4. ASSUME UNCHANGED <<row, hits, edges, dream>>
      PROVE  DreamInv'
  BY <1>4 DEF DreamInv, DreamTyped, Busy, Faithful, Listed, Paired, Judged, Carried, Live
<1>5. ASSUME NEW i \in Ids, Reindex(i)
      PROVE  DreamInv'
  BY <1>4, <1>5 DEF Reindex
<1> QED
  BY <1>1, <1>2, <1>3, <1>4, <1>5, Requests DEF DreamNext, dreamVars

\* The inductive invariant of the dream cycle: types, texts that are the listed ones, pairs that say the
\* same, and edges on their way to the entry that stays, for a walk whose pair nobody else met.
THEOREM DreamCorrect == DreamSpec => []DreamInv
<1>1. DreamInit => DreamInv
  BY DreamStart
<1>2. DreamInv /\ [DreamNext]_dreamVars => DreamInv'
  BY DreamPreserved
<1> QED
  BY <1>1, <1>2, PTL DEF DreamSpec

\* When a merge deletes an entry that nobody met, one with the same content stays and has its links.
LEMMA MergeIsFaithful ==
    ASSUME DreamInv, NEW d \in Dreamers
    PROVE  TextKept(d) /\ EdgesFollow(d)
<1> SUFFICES ASSUME DropEntry(d), Untouched(d)
             PROVE  /\ Live(dream[d].keep)
                    /\ <<row[dream[d].keep].text, row[dream[d].drop].text>> \in Alike
                    /\ \A e \in dream[d].links :
                          LET m == IF e[1] = dream[d].drop THEN e[2] ELSE e[1] IN
                          m = dream[d].keep \/ m \in dream[d].met
                            \/ (IF e[1] = dream[d].drop THEN <<dream[d].keep, m>>
                                                        ELSE <<m, dream[d].keep>>) \in edges
  BY DEF TextKept, EdgesFollow
<1>1. PICK w \in Walk : w = dream[d] /\ Faithful(w)
  BY InHand DEF DropEntry, At
<1>2. w.pc = "entry" /\ w.met \cap {w.keep, w.drop} = {}
  BY <1>1 DEF DropEntry, At, Untouched
<1>3. Judged(w) /\ \A e \in w.links : Carried(w, e)
  BY <1>1, <1>2 DEF Faithful, Pairs
<1> QED
  BY <1>1, <1>2, <1>3 DEF Judged, Carried, Moved, Other

\* For any number of entries, walks and requests: a merge deletes an entry only beside one of the same
\* text, to which its links were carried, unless a request wrote or forgot one of the two, or another walk
\* merged one, after this walk had listed them.
THEOREM MergesKeep == DreamSpec => MergeKeeps
<1>1. DreamInv /\ [DreamNext]_dreamVars => [\A d \in Dreamers : TextKept(d) /\ EdgesFollow(d)]_dreamVars
  BY MergeIsFaithful
<1> QED
  BY <1>1, DreamCorrect, PTL DEF DreamSpec, MergeKeeps
=============================================================================
