------------------------- MODULE Community_proofs -------------------------
(***************************************************************************)
(* Proofs about the community: the vote service and its nightly repair     *)
(* (module Votes), simulated voting (SimulatedVoting), the administrator's *)
(* deletes (Moderation), the seeding of a history (HistorySeeding), and    *)
(* comments, exchanges and inboxes (Conversations).                        *)
(*                                                                         *)
(* Scores, counts and karma are sums over vote rows.  The first section    *)
(* proves how the library's SumFunction changes when one value changes or  *)
(* one element is added; it folds in an order that CHOOSE fixes, so that   *)
(* the argument is by a least counterexample among subsets, not by         *)
(* induction on an operator.  The chains of replies, which are recursive   *)
(* functions, are taken the same way.                                      *)
(***************************************************************************)
EXTENDS Community, NaturalsInduction, WellFoundedInduction, FiniteSetTheorems, TLAPS

-----------------------------------------------------------------------------
(* Sums of the values of a function over a finite set *)

\* g adds up f over every subset of S, in the order in which CHOOSE takes them.
AddsUp(g, f, S) ==
  g = [s \in SUBSET S |->
         IF s = {} THEN 0
         ELSE f[CHOOSE x \in s : TRUE] + g[s \ {CHOOSE x \in s : TRUE}]]

LEMMA SumsOfSomeOrder ==
  ASSUME NEW f, NEW S, \E g : AddsUp(g, f, S)
  PROVE  \E g : AddsUp(g, f, S) /\ SumFunctionOnSet(f, S) = g[S]
<1> DEFINE it == CHOOSE g : AddsUp(g, f, S)
<1>1. AddsUp(it, f, S)
  OBVIOUS
<1>2. SumFunctionOnSet(f, S) = it[S]
  BY DEF SumFunctionOnSet, FoldFunctionOnSet, MapThenFoldSet, AddsUp
<1> QED  BY <1>1, <1>2

\* A set of natural numbers has a least one.
LEMMA LeastNat ==
  ASSUME NEW S \in SUBSET Nat, S # {}
  PROVE  \E n \in S : \A m \in S : n <= m
<1> DEFINE R == {ss \in Nat \X Nat : ss[1] < ss[2]}
<1>1. IsWellFoundedOn(R, Nat)
  BY NatLessThanWellFounded DEF OpToRel
<1> HIDE DEF R
<1>2. PICK n \in S : \A m \in S : ~ (<<m, n>> \in R)
  BY <1>1, WFMin
<1>3. \A m \in S : ~ (m < n)
  BY <1>2 DEF R
<1> QED  BY <1>3

\* A collection of subsets of a finite set has a minimal one.
LEMMA LeastSet ==
  ASSUME NEW S, IsFiniteSet(S), NEW B \in SUBSET (SUBSET S), B # {}
  PROVE  \E T \in B : \A U \in SUBSET T : U # T => U \notin B
<1>1. IsWellFoundedOn(StrictSubsetOrdering(S), SUBSET S)
  BY FS_StrictSubsetOrderingWellFounded, FS_FiniteSubsetsOfFinite
<1>2. PICK T \in B : \A U \in B : ~ (<<U, T>> \in StrictSubsetOrdering(S))
  BY <1>1, WFMin
<1>3. \A U \in SUBSET T : U # T /\ U \in B => <<U, T>> \in StrictSubsetOrdering(S)
  BY DEF StrictSubsetOrdering
<1>4. \A U \in SUBSET T : U # T => U \notin B
  BY <1>2, <1>3
<1> QED  BY <1>4

\* The same for the subsets of at most n elements.
AddsUpTo(g, f, S, n) ==
  g = [s \in {t \in SUBSET S : Cardinality(t) <= n} |->
         IF s = {} THEN 0
         ELSE f[CHOOSE x \in s : TRUE] + g[s \ {CHOOSE x \in s : TRUE}]]

LEMMA SumsOfFewExist ==
  ASSUME NEW f, NEW S, IsFiniteSet(S), NEW n \in Nat
  PROVE  \E g : AddsUpTo(g, f, S, n)
<1> DEFINE Bad == {k \in Nat : ~ \E g : AddsUpTo(g, f, S, k)}
<1> SUFFICES ASSUME Bad # {} PROVE FALSE
  OBVIOUS
<1>1. PICK k \in Bad : \A m \in Bad : k <= m
  BY LeastNat, Bad \in SUBSET Nat
<1> DEFINE Few(m) == {t \in SUBSET S : Cardinality(t) <= m}
           c(s) == CHOOSE x \in s : TRUE
<1>2. \A t \in SUBSET S : IsFiniteSet(t) /\ Cardinality(t) \in Nat
  BY FS_Subset, FS_CardinalityType
<1>3. \A t \in SUBSET S : t # {} =>
        /\ c(t) \in t
        /\ t \ {c(t)} \in SUBSET S
        /\ Cardinality(t \ {c(t)}) = Cardinality(t) - 1
  BY <1>2, FS_RemoveElement
<1>4. CASE k = 0
  <2> DEFINE g == [s \in Few(0) |-> 0]
  <2>1. \A s \in Few(0) : s = {}
    BY <1>2, FS_EmptySet
  <2>2. AddsUpTo(g, f, S, 0)
    BY <2>1 DEF AddsUpTo
  <2> QED  BY <2>2, <1>4
<1>5. CASE k # 0
  <2>1. k - 1 \in Nat /\ k - 1 \notin Bad
    BY <1>1, <1>5
  <2>2. PICK h : AddsUpTo(h, f, S, k - 1)
    BY <2>1
  <2> DEFINE g == [s \in Few(k) |-> IF s = {} THEN 0 ELSE f[c(s)] + h[s \ {c(s)}]]
  <2>3. \A s \in Few(k - 1) : s \in Few(k) /\ h[s] = IF s = {} THEN 0 ELSE f[c(s)] + h[s \ {c(s)}]
    <3>1. h = [s \in Few(k - 1) |-> IF s = {} THEN 0 ELSE f[c(s)] + h[s \ {c(s)}]]
      BY <2>2 DEF AddsUpTo
    <3>2. \A s \in Few(k - 1) : s \in Few(k)
      BY <1>2, k \in Nat
    <3> HIDE DEF c, Few
    <3> QED  BY <3>1, <3>2
  <2>4. \A s \in Few(k - 1) : g[s] = h[s]
    <3> HIDE DEF c, Few
    <3> QED  BY <2>3
  <2>5. \A s \in Few(k) : s # {} => s \ {c(s)} \in Few(k - 1)
    BY <1>2, <1>3, k \in Nat
  <2>6. \A s \in Few(k) : g[s] = IF s = {} THEN 0 ELSE f[c(s)] + g[s \ {c(s)}]
    <3> HIDE DEF c, Few
    <3> QED  BY <2>4, <2>5
  <2>7. AddsUpTo(g, f, S, k)
    <3>1. g = [s \in Few(k) |-> IF s = {} THEN 0 ELSE f[c(s)] + g[s \ {c(s)}]]
      <4> HIDE DEF c, Few
      <4> QED  BY <2>6
    <3> HIDE DEF g
    <3> QED  BY <3>1 DEF AddsUpTo
  <2> HIDE DEF g
  <2> QED  BY <2>7, <1>1
<1> QED  BY <1>4, <1>5

LEMMA SumsExist ==
  ASSUME NEW f, NEW S, IsFiniteSet(S)
  PROVE  \E g : AddsUp(g, f, S)
<1> DEFINE N == Cardinality(S)
<1>1. N \in Nat /\ \A t \in SUBSET S : Cardinality(t) <= N
  BY FS_Subset, FS_CardinalityType
<1>2. PICK g : AddsUpTo(g, f, S, N)
  BY <1>1, SumsOfFewExist
<1>3. {t \in SUBSET S : Cardinality(t) <= N} = SUBSET S
  BY <1>1
<1> HIDE DEF N
<1> QED  BY <1>2, <1>3 DEF AddsUp, AddsUpTo

\* Whatever the order, a sum may be taken apart at any element.
LEMMA SumsTakenApart ==
  ASSUME NEW S, IsFiniteSet(S), NEW f, \A x \in S : f[x] \in Int,
         NEW g, AddsUp(g, f, S)
  PROVE  \A T \in SUBSET S : g[T] \in Int /\ \A x \in T : g[T] = f[x] + g[T \ {x}]
<1> DEFINE c(s) == CHOOSE x \in s : TRUE
           Good(T) == g[T] \in Int /\ \A x \in T : g[T] = f[x] + g[T \ {x}]
           Bad == {T \in SUBSET S : ~ Good(T)}
<1>1. \A T \in SUBSET S : g[T] = IF T = {} THEN 0 ELSE f[c(T)] + g[T \ {c(T)}]
  <2>1. g = [s \in SUBSET S |-> IF s = {} THEN 0 ELSE f[c(s)] + g[s \ {c(s)}]]
    BY DEF AddsUp
  <2> HIDE DEF c
  <2> QED  BY <2>1
<1>2. \A T \in SUBSET S : T # {} => c(T) \in T
  OBVIOUS
<1> SUFFICES ASSUME Bad # {} PROVE FALSE
  OBVIOUS
<1>3. PICK T \in Bad : \A U \in SUBSET T : U # T => U \notin Bad
  <2>1. Bad \in SUBSET (SUBSET S)
    OBVIOUS
  <2> HIDE DEF Bad
  <2> QED  BY <2>1, LeastSet
<1>4. \A U \in SUBSET T : U # T => Good(U)
  BY <1>3
<1> HIDE DEF c
<1>5. T \in SUBSET S
  BY <1>3
<1>6. T # {}
  <2> SUFFICES ASSUME T = {} PROVE FALSE
    OBVIOUS
  <2>1. g[T] = 0
    BY <1>1, <1>5
  <2> QED  BY <2>1, <1>3
<1>7. c(T) \in T /\ c(T) \in S /\ T \ {c(T)} \in SUBSET T /\ T \ {c(T)} # T
  BY <1>2, <1>5, <1>6
<1>8. g[T] = f[c(T)] + g[T \ {c(T)}]
  BY <1>1, <1>5, <1>6
<1>9. g[T \ {c(T)}] \in Int /\ f[c(T)] \in Int
  BY <1>4, <1>7
<1>10. ASSUME NEW x \in T PROVE g[T] = f[x] + g[T \ {x}]
  <2>1. CASE x = c(T)
    BY <2>1, <1>8
  <2>2. CASE x # c(T)
    <3>1. x \in T \ {c(T)} /\ c(T) \in T \ {x} /\ x \in S
      BY <1>5, <1>7, <2>2
    <3>2. g[T \ {c(T)}] = f[x] + g[(T \ {c(T)}) \ {x}]
      BY <1>4, <1>7, <3>1
    <3>3. T \ {x} \in SUBSET T /\ T \ {x} # T
      OBVIOUS
    <3>4. g[T \ {x}] = f[c(T)] + g[(T \ {x}) \ {c(T)}]
      BY <1>4, <3>1, <3>3
    <3>5. (T \ {x}) \ {c(T)} = (T \ {c(T)}) \ {x}
      OBVIOUS
    <3>6. (T \ {x}) \ {c(T)} \in SUBSET T /\ (T \ {x}) \ {c(T)} # T
      OBVIOUS
    <3>7. g[(T \ {x}) \ {c(T)}] \in Int /\ f[x] \in Int /\ f[c(T)] \in Int
      BY <1>4, <1>9, <3>1, <3>6
    <3> DEFINE r == g[(T \ {x}) \ {c(T)}]
    <3>8. g[T] = f[c(T)] + (f[x] + r) /\ g[T \ {x}] = f[c(T)] + r
      BY <1>8, <3>2, <3>4, <3>5
    <3> HIDE DEF r
    <3> QED  BY <3>7, <3>8 DEF r
  <2> QED  BY <2>1, <2>2
<1>11. g[T] \in Int
  BY <1>8, <1>9
<1> QED  BY <1>3, <1>10, <1>11

\* A sum depends on the values at the elements alone.
LEMMA SumsOfTheSame ==
  ASSUME NEW S, IsFiniteSet(S), NEW f, \A x \in S : f[x] \in Int, NEW g, AddsUp(g, f, S),
         NEW R, IsFiniteSet(R), NEW e, \A x \in R : e[x] \in Int, NEW h, AddsUp(h, e, R),
         NEW T, T \in SUBSET S, T \in SUBSET R, \A x \in T : f[x] = e[x]
  PROVE  g[T] = h[T]
<1> DEFINE Bad == {U \in SUBSET T : g[U] # h[U]}
<1> SUFFICES ASSUME Bad # {} PROVE FALSE
  OBVIOUS
<1>1. IsFiniteSet(T)
  BY FS_Subset
<1>2. PICK U \in Bad : \A V \in SUBSET U : V # U => V \notin Bad
  <2>1. Bad \in SUBSET (SUBSET T)
    OBVIOUS
  <2> HIDE DEF Bad
  <2> QED  BY <1>1, <2>1, LeastSet
<1>3. U \in SUBSET T /\ g[U] # h[U] /\ U \in SUBSET S /\ U \in SUBSET R
  BY <1>2
<1>4. U # {}
  BY <1>3 DEF AddsUp
<1>5. PICK x \in U : TRUE
  BY <1>4
<1>6. g[U] = f[x] + g[U \ {x}] /\ h[U] = e[x] + h[U \ {x}]
  BY <1>3, SumsTakenApart
<1>7. g[U \ {x}] = h[U \ {x}]
  BY <1>2, <1>3, U \ {x} \in SUBSET U, U \ {x} # U
<1> QED  BY <1>3, <1>6, <1>7

LEMMA SumOfNothing ==
  ASSUME NEW f
  PROVE  SumFunctionOnSet(f, {}) = 0
<1>1. PICK g : AddsUp(g, f, {}) /\ SumFunctionOnSet(f, {}) = g[{}]
  BY FS_EmptySet, SumsExist, SumsOfSomeOrder
<1> QED  BY <1>1 DEF AddsUp

LEMMA SumsAreSame ==
  ASSUME NEW S, IsFiniteSet(S), NEW f, NEW e,
         \A x \in S : f[x] \in Int /\ e[x] = f[x]
  PROVE  SumFunctionOnSet(f, S) = SumFunctionOnSet(e, S)
<1>1. PICK g : AddsUp(g, f, S) /\ SumFunctionOnSet(f, S) = g[S]
  BY SumsExist, SumsOfSomeOrder
<1>2. PICK h : AddsUp(h, e, S) /\ SumFunctionOnSet(e, S) = h[S]
  BY SumsExist, SumsOfSomeOrder
<1>3. \A x \in S : e[x] \in Int
  OBVIOUS
<1>4. g[S] = h[S]
  BY <1>1, <1>2, <1>3, SumsOfTheSame
<1> QED  BY <1>1, <1>2, <1>4

LEMMA SumLessOne ==
  ASSUME NEW S, IsFiniteSet(S), NEW f, \A x \in S : f[x] \in Int, NEW x \in S
  PROVE  /\ SumFunctionOnSet(f, S) \in Int
         /\ SumFunctionOnSet(f, S \ {x}) \in Int
         /\ SumFunctionOnSet(f, S) = f[x] + SumFunctionOnSet(f, S \ {x})
<1> DEFINE R == S \ {x}
<1>1. PICK g : AddsUp(g, f, S) /\ SumFunctionOnSet(f, S) = g[S]
  BY SumsExist, SumsOfSomeOrder
<1>2. IsFiniteSet(R) /\ R \in SUBSET S /\ R \in SUBSET R
  BY FS_Subset
<1>3. PICK h : AddsUp(h, f, R) /\ SumFunctionOnSet(f, R) = h[R]
  BY <1>2, SumsExist, SumsOfSomeOrder
<1>4. \A y \in R : f[y] \in Int
  OBVIOUS
<1>5. g[S] \in Int /\ g[S] = f[x] + g[R] /\ g[R] \in Int
  <2>0. AddsUp(g, f, S) /\ \A y \in S : f[y] \in Int
    BY <1>1
  <2>1. \A T \in SUBSET S : g[T] \in Int /\ \A y \in T : g[T] = f[y] + g[T \ {y}]
    <3> HIDE <1>1
    <3> QED  BY <2>0, SumsTakenApart
  <2>2. g[S] \in Int /\ g[S] = f[x] + g[S \ {x}]
    BY <2>1, S \in SUBSET S
  <2>3. g[R] \in Int
    <3> HIDE DEF R
    <3> QED  BY <1>2, <2>1
  <2> QED  BY <2>2, <2>3
<1> HIDE DEF R
<1>6. g[R] = h[R]
  BY <1>1, <1>2, <1>3, <1>4, SumsOfTheSame
<1> QED  BY <1>1, <1>3, <1>5, <1>6 DEF R

LEMMA SumIsInt ==
  ASSUME NEW S, IsFiniteSet(S), NEW f \in [S -> Int]
  PROVE  SumFunction(f) \in Int
<1>1. SumFunction(f) = SumFunctionOnSet(f, S)
  BY DEF SumFunction
<1>2. CASE S = {}
  BY <1>1, <1>2, SumOfNothing
<1>3. CASE S # {}
  <2>1. PICK x \in S : TRUE
    BY <1>3
  <2> QED  BY <1>1, <2>1, SumLessOne
<1> QED  BY <1>2, <1>3

\* One value changes: so does the sum, by as much.
LEMMA SumChanges ==
  ASSUME NEW S, IsFiniteSet(S), NEW f \in [S -> Int], NEW e \in [S -> Int], NEW x \in S,
         \A y \in S : y # x => e[y] = f[y]
  PROVE  /\ SumFunction(f) \in Int
         /\ SumFunction(e) = SumFunction(f) + (e[x] - f[x])
<1> DEFINE R == S \ {x}
<1>1. SumFunction(f) = SumFunctionOnSet(f, S) /\ SumFunction(e) = SumFunctionOnSet(e, S)
  BY DEF SumFunction
<1>2. /\ SumFunctionOnSet(f, R) \in Int
      /\ SumFunctionOnSet(f, S) = f[x] + SumFunctionOnSet(f, R)
  BY SumLessOne
<1>3. /\ SumFunctionOnSet(e, R) \in Int
      /\ SumFunctionOnSet(e, S) = e[x] + SumFunctionOnSet(e, R)
  BY SumLessOne
<1>4. IsFiniteSet(R) /\ \A y \in R : f[y] \in Int /\ e[y] = f[y]
  BY FS_Subset
<1> HIDE DEF R
<1>5. SumFunctionOnSet(f, R) = SumFunctionOnSet(e, R)
  BY <1>4, SumsAreSame
<1>6. f[x] \in Int /\ e[x] \in Int
  OBVIOUS
<1> QED  BY <1>1, <1>2, <1>3, <1>5, <1>6

\* One element is added.
LEMMA SumGrows ==
  ASSUME NEW S, IsFiniteSet(S), NEW x, x \notin S,
         NEW f \in [S -> Int], NEW e \in [S \cup {x} -> Int], \A y \in S : e[y] = f[y]
  PROVE  /\ SumFunction(f) \in Int
         /\ SumFunction(e) = SumFunction(f) + e[x]
<1> DEFINE R == S \cup {x}
<1>1. SumFunction(f) = SumFunctionOnSet(f, S) /\ SumFunction(e) = SumFunctionOnSet(e, R)
  BY DEF SumFunction
<1>2. IsFiniteSet(R) /\ x \in R /\ R \ {x} = S /\ \A y \in R : e[y] \in Int
  BY FS_AddElement
<1> HIDE DEF R
<1>3. /\ SumFunctionOnSet(e, S) \in Int
      /\ SumFunctionOnSet(e, R) = e[x] + SumFunctionOnSet(e, S)
  BY <1>2, SumLessOne
<1>4. \A y \in S : f[y] \in Int /\ e[y] = f[y]
  OBVIOUS
<1>5. SumFunctionOnSet(f, S) = SumFunctionOnSet(e, S)
  BY <1>4, SumsAreSame
<1>6. e[x] \in Int
  BY <1>2
<1> QED  BY <1>1, <1>3, <1>5, <1>6

-----------------------------------------------------------------------------
(* Votes: the type invariant *)

\* What the recompute has read: types, and, as long as no vote came between,
\* the sums of the vote rows as they are.
VotesInv ==
  /\ TypeOK
  /\ total \in [Items -> Int \X Int]
  /\ repair # {} /\ phase = "commit" => locked
  /\ locked => phase \in {"karma", "commit"}

QuietInv ==
  quiet /\ phase # "idle" =>
    /\ \A i \in Items : total[i] = <<VoteSum(i), VoteCount(i)>>
    /\ phase = "karma" /\ ~ locked => repair = {i \in Items : total[i] # <<score[i], votes[i]>>}
    /\ phase = "karma" /\ locked => \A i \in Items : total[i] = <<score[i], votes[i]>>
    /\ phase = "commit" => /\ \A i \in Items : total[i] = <<score[i], votes[i]>>
                           /\ rekarma = {u \in Users : karma[u] # KarmaTotal(u)}

LEMMA SumsOfVotesAreInts ==
  ASSUME TypeOK
  PROVE  /\ \A i \in Items : VoteSum(i) \in Int /\ VoteCount(i) \in Int
         /\ \A u \in Users : SumFunction([i \in Of(u) |-> VoteSum(i)]) \in Int
<1>1. IsFiniteSet(Voters) /\ \A u \in Users : IsFiniteSet(Of(u)) /\ Of(u) \subseteq Items
  BY VotesAssumption, FS_Subset DEF Voters, Of
<1>2. ASSUME NEW i \in Items PROVE VoteSum(i) \in Int /\ VoteCount(i) \in Int
  <2>1. [v \in Voters |-> vote[v][i]] \in [Voters -> Int]
    BY DEF TypeOK, Values
  <2>2. VoteSum(i) \in Int
    <3> HIDE DEF Voters
    <3> QED  BY <1>1, <2>1, SumIsInt DEF VoteSum
  <2>3. IsFiniteSet({v \in Voters : vote[v][i] # 0})
    BY <1>1, FS_Subset
  <2> QED  BY <2>2, <2>3, FS_CardinalityType DEF VoteCount
<1>3. ASSUME NEW u \in Users PROVE SumFunction([i \in Of(u) |-> VoteSum(i)]) \in Int
  <2>1. [i \in Of(u) |-> VoteSum(i)] \in [Of(u) -> Int]
    BY <1>1, <1>2
  <2> QED  BY <1>1, <2>1, SumIsInt
<1> QED  BY <1>2, <1>3

LEMMA VotesInvInit == Init => VotesInv
<1> SUFFICES ASSUME Init PROVE VotesInv
  OBVIOUS
<1>1. -MaxDrift..MaxDrift \subseteq Int
  BY VotesAssumption
<1>2. score \in [Items -> Int]
  BY <1>1 DEF Init
<1>3. vote \in [Voters -> [Items -> Values]] /\ total \in [Items -> Int \X Int]
  BY DEF Init, Values, NoTotal
<1>4. votes \in [Items -> Int] /\ karma \in [Users -> Int]
  BY DEF Init
<1>5. /\ downvotes \in BOOLEAN /\ phase = "idle" /\ repair = {} /\ rekarma = {}
      /\ locked = FALSE /\ quiet = TRUE
  BY DEF Init
<1> QED  BY <1>2, <1>3, <1>4, <1>5 DEF VotesInv, TypeOK, Phases

\* The values a cast writes.
LEMMA CastValues ==
  ASSUME TypeOK, NEW v \in Voters, NEW i \in Items, NEW value \in {1, -1, 0},
         NEW recast \in BOOLEAN
  PROVE  /\ vote[v][i] \in Values
         /\ Outcome(v, i, value, recast) \in Values
         /\ Outcome(v, i, value, recast) - vote[v][i] \in Int
         /\ CountDelta(vote[v][i], Outcome(v, i, value, recast)) \in Int
BY DEF TypeOK, Values, Outcome, CountDelta

LEMMA VotesInvStep == VotesInv /\ [Next]_vars => VotesInv'
<1> SUFFICES ASSUME VotesInv, [Next]_vars PROVE VotesInv'
  OBVIOUS
<1> USE DEF VotesInv, TypeOK
<1>1. ASSUME NEW v \in Voters, NEW i \in Items, NEW value \in {1, -1, 0},
             NEW recast \in BOOLEAN, CastVote(v, i, value, recast)
      PROVE  VotesInv'
  <2> DEFINE old == vote[v][i]
             new == Outcome(v, i, value, recast)
  <2>1. /\ old \in Values /\ new \in Values /\ new - old \in Int
        /\ CountDelta(old, new) \in Int
    BY CastValues
  <2>2. Author[i] \in Users
    BY VotesAssumption
  <2>3. /\ vote' = [vote EXCEPT ![v][i] = new]
        /\ score' = [score EXCEPT ![i] = @ + (new - old)]
        /\ votes' = [votes EXCEPT ![i] = @ + CountDelta(old, new)]
        /\ karma' = [karma EXCEPT ![Author[i]] = @ + (new - old)]
        /\ quiet' = FALSE
        /\ UNCHANGED <<downvotes, phase, total, repair, rekarma, locked>>
    BY <1>1 DEF CastVote
  <2> HIDE DEF old, new
  <2>4. vote' \in [Voters -> [Items -> Values]]
    BY <2>1, <2>3
  <2>5. score' \in [Items -> Int] /\ votes' \in [Items -> Int]
    BY <2>1, <2>3
  <2>6. karma' \in [Users -> Int]
    BY <2>1, <2>2, <2>3
  <2> QED  BY <2>3, <2>4, <2>5, <2>6
<1>2. CASE SetDownvotes
  BY <1>2 DEF SetDownvotes, tables, recompute
<1>3. CASE ReadAggregates
  <2>1. total' \in [Items -> Int \X Int]
    BY <1>3, SumsOfVotesAreInts DEF ReadAggregates
  <2> QED  BY <1>3, <2>1 DEF ReadAggregates, tables, Phases
<1>4. CASE ReadItems
  BY <1>4 DEF ReadItems, tables, Phases
<1>5. CASE FlushItems
  BY <1>5 DEF FlushItems, Phases
<1>6. CASE ReadUsers
  BY <1>6 DEF ReadUsers, tables, Phases
<1>7. CASE CommitRecompute
  <2>1. \A u \in Users : KarmaTotal(u) \in Int
    <3> SUFFICES ASSUME NEW u \in Users PROVE KarmaTotal(u) \in Int
      OBVIOUS
    <3>1. IsFiniteSet(Of(u)) /\ Of(u) \subseteq Items
      BY VotesAssumption, FS_Subset DEF Of
    <3>2. [i \in Of(u) |-> total[i][1]] \in [Of(u) -> Int]
      BY <3>1
    <3> QED  BY <3>1, <3>2, SumIsInt DEF KarmaTotal
  <2>2. karma' \in [Users -> Int]
    BY <1>7, <2>1 DEF CommitRecompute
  <2>3. total' \in [Items -> Int \X Int]
    BY <1>7 DEF CommitRecompute, NoTotal
  <2>4. /\ phase' = "idle" /\ repair' = {} /\ rekarma' = {} /\ locked' = FALSE
        /\ UNCHANGED <<vote, score, votes, downvotes, quiet>>
    BY <1>7 DEF CommitRecompute
  <2> QED  BY <2>2, <2>3, <2>4 DEF Phases
<1>8. CASE UNCHANGED vars
  BY <1>8 DEF vars, tables, recompute
<1> QED  BY <1>1, <1>2, <1>3, <1>4, <1>5, <1>6, <1>7, <1>8 DEF Next, Recompute

\* The vote table, the totals and what the recompute holds have their types,
\* for any users, visitors and items.
THEOREM VotesTypes == Spec => []TypeOK
<1>1. Spec => []VotesInv
  BY VotesInvInit, VotesInvStep, PTL DEF Spec
<1>2. VotesInv => TypeOK
  BY DEF VotesInv
<1> QED  BY <1>1, <1>2, PTL

-----------------------------------------------------------------------------
(* Votes: what a cast does to the totals *)

LEMMA CastMovesSums ==
  ASSUME VotesInv, NEW v \in Voters, NEW i \in Items, NEW value \in {1, -1, 0},
         NEW recast \in BOOLEAN, CastVote(v, i, value, recast), NEW j \in Items
  PROVE  /\ VoteSum(j)' = VoteSum(j) +
              (IF j = i THEN Outcome(v, i, value, recast) - vote[v][i] ELSE 0)
         /\ VoteCount(j)' = VoteCount(j) +
              (IF j = i THEN CountDelta(vote[v][i], Outcome(v, i, value, recast)) ELSE 0)
<1> DEFINE old == vote[v][i]
           new == Outcome(v, i, value, recast)
           f == [w \in Voters |-> vote[w][j]]
           e == [w \in Voters |-> vote'[w][j]]
           F == {w \in Voters : vote[w][j] # 0}
           E == {w \in Voters : vote'[w][j] # 0}
<1>1. TypeOK /\ TypeOK' /\ VotesInv'
  BY VotesInvStep DEF VotesInv, Next
<1>2. /\ old \in Values /\ new \in Values
      /\ vote' = [vote EXCEPT ![v][i] = new]
  BY <1>1, CastValues DEF CastVote
<1>3. IsFiniteSet(Voters)
  BY VotesAssumption DEF Voters
<1>4. f \in [Voters -> Int] /\ e \in [Voters -> Int]
  BY <1>1 DEF TypeOK, Values
<1>5. VoteSum(j) = SumFunction(f) /\ VoteSum(j)' = SumFunction(e)
  BY DEF VoteSum
<1>6. VoteCount(j) = Cardinality(F) /\ VoteCount(j)' = Cardinality(E)
  BY DEF VoteCount
<1>7. IsFiniteSet(F) /\ Cardinality(F) \in Nat /\ IsFiniteSet(E)
  BY <1>3, FS_Subset, FS_CardinalityType
<1> HIDE DEF old, new, Voters
<1>8. vote \in [Voters -> [Items -> Values]]
  BY <1>1 DEF TypeOK
<1>9. \A w \in Voters : vote'[w][j] = IF w = v /\ j = i THEN new ELSE vote[w][j]
  BY <1>2, <1>8
<1>10. CASE j = i
  <2>1. e[v] = new /\ f[v] = old /\ \A w \in Voters : w # v => e[w] = f[w]
    BY <1>9, <1>10 DEF old
  <2>2. VoteSum(j)' = VoteSum(j) + (new - old)
    <3> HIDE DEF e, f
    <3>1. SumFunction(e) = SumFunction(f) + (e[v] - f[v])
      BY <1>3, <1>4, <2>1, SumChanges
    <3> QED  BY <1>5, <2>1, <3>1
  <2>3. /\ v \in F <=> old # 0
        /\ E = IF new # 0 THEN F \cup {v} ELSE F \ {v}
    <3>1. v \in F <=> old # 0
      BY <2>1
    <3>2. \A w \in Voters : w \in E <=> (IF w = v THEN new # 0 ELSE w \in F)
      BY <1>9, <1>10
    <3>3. E \subseteq Voters /\ F \subseteq Voters
      OBVIOUS
    <3> HIDE DEF E, F
    <3> QED  BY <3>1, <3>2, <3>3
  <2> HIDE DEF E, F, e, f
  <2>4. Cardinality(E) = Cardinality(F) + CountDelta(old, new)
    <3>1. CASE new # 0
      <4>1. Cardinality(E) = IF v \in F THEN Cardinality(F) ELSE Cardinality(F) + 1
        BY <1>7, <2>3, <3>1, FS_AddElement
      <4> QED  BY <1>7, <2>3, <3>1, <4>1 DEF CountDelta
    <3>2. CASE new = 0
      <4>1. Cardinality(E) = IF v \in F THEN Cardinality(F) - 1 ELSE Cardinality(F)
        BY <1>7, <2>3, <3>2, FS_RemoveElement
      <4> QED  BY <1>7, <2>3, <3>2, <4>1 DEF CountDelta
    <3> QED  BY <3>1, <3>2
  <2> QED  BY <1>6, <1>10, <2>2, <2>4 DEF old, new
<1>11. CASE j # i
  <2>1. \A w \in Voters : vote'[w][j] = vote[w][j]
    BY <1>9, <1>11
  <2>2. e = f /\ E = F
    BY <2>1
  <2>3. VoteSum(j) \in Int /\ VoteCount(j) \in Int
    BY <1>1, SumsOfVotesAreInts
  <2> HIDE DEF E, F, e, f
  <2> QED  BY <1>5, <1>6, <1>11, <2>2, <2>3
<1> QED  BY <1>10, <1>11

LEMMA CastKeepsDriftStep ==
  ASSUME VotesInv, NEW v \in Voters, NEW i \in Items, NEW value \in {1, -1, 0},
         NEW recast \in BOOLEAN, CastVote(v, i, value, recast)
  PROVE  /\ \A j \in Items : Drift(j)' = Drift(j)
         /\ \A u \in Users : KarmaDrift(u)' = KarmaDrift(u)
<1> DEFINE old == vote[v][i]
           new == Outcome(v, i, value, recast)
           delta == new - old
<1>1. TypeOK /\ TypeOK' /\ VotesInv'
  BY VotesInvStep DEF VotesInv, Next
<1>2. /\ old \in Values /\ new \in Values /\ delta \in Int
      /\ CountDelta(old, new) \in Int
      /\ score' = [score EXCEPT ![i] = @ + delta]
      /\ votes' = [votes EXCEPT ![i] = @ + CountDelta(old, new)]
      /\ karma' = [karma EXCEPT ![Author[i]] = @ + delta]
  BY <1>1, CastValues DEF CastVote
<1>3. \A j \in Items :
        /\ VoteSum(j)' = VoteSum(j) + (IF j = i THEN delta ELSE 0)
        /\ VoteCount(j)' = VoteCount(j) + (IF j = i THEN CountDelta(old, new) ELSE 0)
  BY CastMovesSums
<1>4. /\ \A j \in Items : VoteSum(j) \in Int /\ VoteCount(j) \in Int
      /\ \A u \in Users : SumFunction([j \in Of(u) |-> VoteSum(j)]) \in Int
  BY <1>1, SumsOfVotesAreInts
<1>5. score \in [Items -> Int] /\ votes \in [Items -> Int] /\ karma \in [Users -> Int]
  BY <1>1 DEF TypeOK
<1>6. \A j \in Items : VoteSum(j)' \in Int
  BY <1>2, <1>3, <1>4
<1> HIDE DEF old, new, delta
<1>7. ASSUME NEW j \in Items PROVE Drift(j)' = Drift(j)
  <2>1. CASE j = i
    <3>1. score'[j] = score[j] + delta /\ votes'[j] = votes[j] + CountDelta(old, new)
      BY <1>2, <1>5, <2>1
    <3>2. score[j] \in Int /\ votes[j] \in Int
      BY <1>5
    <3>3. /\ score'[j] - VoteSum(j)' = score[j] - VoteSum(j)
          /\ votes'[j] - VoteCount(j)' = votes[j] - VoteCount(j)
      BY <1>2, <1>3, <1>4, <2>1, <3>1, <3>2
    <3> QED  BY <3>3 DEF Drift
  <2>2. CASE j # i
    <3>1. score'[j] = score[j] /\ votes'[j] = votes[j]
      BY <1>2, <1>5, <2>2
    <3>2. VoteSum(j)' = VoteSum(j) /\ VoteCount(j)' = VoteCount(j)
      BY <1>3, <1>4, <2>2
    <3> QED  BY <3>1, <3>2 DEF Drift
  <2> QED  BY <2>1, <2>2
<1>8. ASSUME NEW u \in Users PROVE KarmaDrift(u)' = KarmaDrift(u)
  <2> DEFINE f == [j \in Of(u) |-> VoteSum(j)]
             e == [j \in Of(u) |-> VoteSum(j)']
  <2>1. /\ KarmaDrift(u) = karma[u] - SumFunction(f)
        /\ KarmaDrift(u)' = karma'[u] - SumFunction(e)
    BY DEF KarmaDrift, Of
  <2>2. IsFiniteSet(Of(u)) /\ Of(u) \subseteq Items /\ Author[i] \in Users
        /\ (i \in Of(u) <=> Author[i] = u)
    BY VotesAssumption, FS_Subset DEF Of
  <2>3. f \in [Of(u) -> Int] /\ e \in [Of(u) -> Int]
    BY <1>4, <1>6, <2>2
  <2>4. \A j \in Of(u) : f[j] \in Int /\ e[j] = f[j] + (IF j = i THEN delta ELSE 0)
    BY <1>3, <1>4, <2>2
  <2> HIDE DEF e, f
  <2>5. CASE Author[i] = u
    <3>1. SumFunction(f) \in Int /\ SumFunction(e) = SumFunction(f) + (e[i] - f[i])
      BY <2>2, <2>3, <2>4, <2>5, SumChanges
    <3>2. e[i] - f[i] = delta
      BY <1>2, <2>2, <2>4, <2>5
    <3>3. karma'[u] = karma[u] + delta /\ karma[u] \in Int
      BY <1>2, <1>5, <2>5
    <3> QED  BY <1>2, <2>1, <3>1, <3>2, <3>3
  <2>6. CASE Author[i] # u
    <3>1. \A j \in Of(u) : e[j] = f[j]
      BY <2>2, <2>4, <2>6
    <3>2. e = f
      BY <2>3, <3>1
    <3>3. karma'[u] = karma[u]
      BY <1>2, <1>5, <2>2, <2>6
    <3> QED  BY <2>1, <3>2, <3>3
  <2> QED  BY <2>5, <2>6
<1> QED  BY <1>7, <1>8

\* votes.py:68: inserts, switches, clears and collisions of any users and
\* visitors, whatever the totals start from, move score, count and karma by
\* what the vote rows moved: no cast adds drift, and none repairs it.
THEOREM CastsKeepDrift == Spec => CastKeepsDrift
<1>1. Spec => []VotesInv
  BY VotesInvInit, VotesInvStep, PTL DEF Spec
<1> DEFINE Steady == vote' # vote =>
             /\ \A i \in Items : Drift(i)' = Drift(i)
             /\ \A u \in Users : KarmaDrift(u)' = KarmaDrift(u)
<1>2. VotesInv /\ [Next]_vars => [Steady]_vars
  <2> SUFFICES ASSUME VotesInv, [Next]_vars, vote' # vote PROVE Steady
    BY DEF vars
  <2>1. \E v \in Voters, i \in Items, value \in {1, -1, 0}, recast \in BOOLEAN :
          CastVote(v, i, value, recast)
    BY DEF Next, vars, SetDownvotes, Recompute, ReadAggregates, ReadItems, FlushItems,
           ReadUsers, CommitRecompute, tables, recompute
  <2>2. PICK v \in Voters, i \in Items, value \in {1, -1, 0}, recast \in BOOLEAN :
          CastVote(v, i, value, recast)
    BY <2>1
  <2> QED  BY <2>2, CastKeepsDriftStep
<1>3. Spec => [][Steady]_vars
  BY <1>1, <1>2, PTL DEF Spec
<1> QED  BY <1>3 DEF CastKeepsDrift

-----------------------------------------------------------------------------
(* Votes: an undisturbed recompute *)

LEMMA SumsOfSameRows ==
  ASSUME vote' = vote
  PROVE  \A i \in Items : VoteSum(i)' = VoteSum(i) /\ VoteCount(i)' = VoteCount(i)
BY DEF VoteSum, VoteCount

LEMMA QuietInvStep == VotesInv /\ QuietInv /\ [Next]_vars => QuietInv'
<1> SUFFICES ASSUME VotesInv, QuietInv, [Next]_vars PROVE QuietInv'
  OBVIOUS
<1> DEFINE Current == \A i \in Items : total[i] = <<VoteSum(i), VoteCount(i)>>
           Stored == \A i \in Items : total[i] = <<score[i], votes[i]>>
           Repair == repair = {i \in Items : total[i] # <<score[i], votes[i]>>}
           Rekarma == rekarma = {u \in Users : karma[u] # KarmaTotal(u)}
<1>1. /\ quiet /\ phase # "idle" => Current
      /\ quiet /\ phase = "karma" /\ ~ locked => Repair
      /\ quiet /\ phase = "karma" /\ locked => Stored
      /\ quiet /\ phase = "commit" => Stored /\ Rekarma
  BY DEF QuietInv
<1>2. SUFFICES ASSUME quiet', phase' # "idle"
      PROVE  /\ Current'
             /\ phase' = "karma" /\ ~ locked' => Repair'
             /\ phase' = "karma" /\ locked' => Stored'
             /\ phase' = "commit" => Stored' /\ Rekarma'
  BY DEF QuietInv
<1>3. CASE \E v \in Voters, i \in Items, value \in {1, -1, 0}, recast \in BOOLEAN :
             CastVote(v, i, value, recast)
  BY <1>2, <1>3 DEF CastVote
<1>4. ASSUME UNCHANGED <<tables, recompute>>
      PROVE  /\ Current'
             /\ phase' = "karma" /\ ~ locked' => Repair'
             /\ phase' = "karma" /\ locked' => Stored'
             /\ phase' = "commit" => Stored' /\ Rekarma'
  <2>1. \A i \in Items : VoteSum(i)' = VoteSum(i) /\ VoteCount(i)' = VoteCount(i)
    BY <1>4, SumsOfSameRows DEF tables
  <2>2. \A u \in Users : KarmaTotal(u)' = KarmaTotal(u)
    BY <1>4 DEF KarmaTotal, Of, recompute
  <2> QED  BY <1>1, <1>2, <1>4, <2>1, <2>2 DEF tables, recompute
<1>5. CASE SetDownvotes
  BY <1>4, <1>5 DEF SetDownvotes
<1>6. CASE ReadAggregates
  <2>1. \A i \in Items : VoteSum(i)' = VoteSum(i) /\ VoteCount(i)' = VoteCount(i)
    BY <1>6, SumsOfSameRows DEF ReadAggregates, tables
  <2> QED  BY <1>6, <2>1 DEF ReadAggregates
<1>7. CASE ReadItems
  <2>1. \A i \in Items : VoteSum(i)' = VoteSum(i) /\ VoteCount(i)' = VoteCount(i)
    BY <1>7, SumsOfSameRows DEF ReadItems, tables
  <2>2. ~ locked
    BY <1>7 DEF ReadItems, VotesInv
  <2> QED  BY <1>1, <1>2, <1>7, <2>1, <2>2 DEF ReadItems, tables
<1>8. CASE FlushItems
  <2>1. \A i \in Items : VoteSum(i)' = VoteSum(i) /\ VoteCount(i)' = VoteCount(i)
    BY <1>8, SumsOfSameRows DEF FlushItems
  <2>2. Current /\ Repair
    BY <1>1, <1>2, <1>8 DEF FlushItems
  <2>3. /\ total' = total /\ locked' = TRUE /\ phase' = "karma"
        /\ score' = [i \in Items |-> IF i \in repair THEN total[i][1] ELSE score[i]]
        /\ votes' = [i \in Items |-> IF i \in repair THEN total[i][2] ELSE votes[i]]
    BY <1>8 DEF FlushItems
  <2>4. total \in [Items -> Int \X Int]
    BY DEF VotesInv
  <2>5. ASSUME NEW i \in Items PROVE total[i] = <<score'[i], votes'[i]>>
    <3>1. CASE i \in repair
      BY <2>3, <2>4, <3>1
    <3>2. CASE i \notin repair
      BY <2>2, <2>3, <3>2
    <3> QED  BY <3>1, <3>2
  <2> QED  BY <2>1, <2>2, <2>3, <2>5
<1>9. CASE ReadUsers
  <2>1. \A i \in Items : VoteSum(i)' = VoteSum(i) /\ VoteCount(i)' = VoteCount(i)
    BY <1>9, SumsOfSameRows DEF ReadUsers, tables
  <2>2. \A u \in Users : KarmaTotal(u)' = KarmaTotal(u)
    BY <1>9 DEF KarmaTotal, Of, ReadUsers
  <2>3. Stored
    BY <1>1, <1>2, <1>9 DEF ReadUsers
  <2> QED  BY <1>1, <1>2, <1>9, <2>1, <2>2, <2>3 DEF ReadUsers, tables
<1>10. CASE CommitRecompute
  BY <1>2, <1>10 DEF CommitRecompute
<1>11. CASE UNCHANGED vars
  BY <1>4, <1>11 DEF vars, tables
<1> HIDE DEF Current, Stored, Repair, Rekarma
<1>12. \/ \E v \in Voters, i \in Items, value \in {1, -1, 0}, recast \in BOOLEAN :
             CastVote(v, i, value, recast)
       \/ SetDownvotes \/ ReadAggregates \/ ReadItems \/ FlushItems \/ ReadUsers
       \/ CommitRecompute \/ UNCHANGED vars
  BY DEF Next, Recompute
<1> QED  BY <1>3, <1>5, <1>6, <1>7, <1>8, <1>9, <1>10, <1>11, <1>12

\* The commit of a recompute that no vote interrupted.
LEMMA QuietCommit ==
  ASSUME VotesInv, QuietInv, CommitRecompute, quiet
  PROVE  Canonical'
<1>1. \A i \in Items : VoteSum(i)' = VoteSum(i) /\ VoteCount(i)' = VoteCount(i)
  BY SumsOfSameRows DEF CommitRecompute
<1>2. \A i \in Items : /\ total[i] = <<VoteSum(i), VoteCount(i)>>
                       /\ total[i] = <<score[i], votes[i]>>
  BY DEF QuietInv, CommitRecompute
<1>3. \A i \in Items : /\ score[i] = VoteSum(i) /\ votes[i] = VoteCount(i)
                       /\ total[i][1] = VoteSum(i)
  BY <1>2
<1>4. /\ score' = score /\ votes' = votes
      /\ karma' = [u \in Users |-> IF u \in rekarma THEN KarmaTotal(u) ELSE karma[u]]
      /\ rekarma = {u \in Users : karma[u] # KarmaTotal(u)}
  BY DEF CommitRecompute, QuietInv
<1>5. /\ \A i \in Items : VoteSum(i) \in Int /\ VoteCount(i) \in Int
      /\ \A u \in Users : SumFunction([i \in Of(u) |-> VoteSum(i)]) \in Int
  BY SumsOfVotesAreInts DEF VotesInv
<1>6. ASSUME NEW i \in Items PROVE Drift(i)' = <<0, 0>>
  <2>1. score'[i] - VoteSum(i)' = 0 /\ votes'[i] - VoteCount(i)' = 0
    BY <1>1, <1>3, <1>4, <1>5
  <2> QED  BY <2>1 DEF Drift
<1>7. ASSUME NEW u \in Users PROVE KarmaDrift(u)' = 0
  <2> DEFINE s == SumFunction([i \in Of(u) |-> VoteSum(i)])
             t == SumFunction([i \in Of(u) |-> VoteSum(i)'])
  <2>1. [i \in Of(u) |-> VoteSum(i)] = [i \in Of(u) |-> total[i][1]]
    BY <1>3 DEF Of
  <2>2. KarmaTotal(u) = s
    BY <2>1 DEF KarmaTotal
  <2>3. [i \in Of(u) |-> VoteSum(i)] = [i \in Of(u) |-> VoteSum(i)']
    BY <1>1 DEF Of
  <2>4. t = s
    BY <2>3
  <2>5. karma'[u] = s
    BY <1>4, <2>2
  <2>6. KarmaDrift(u)' = karma'[u] - t
    BY DEF KarmaDrift, Of
  <2> HIDE DEF s, t
  <2>7. s \in Int
    BY <1>5 DEF s
  <2> QED  BY <2>4, <2>5, <2>6, <2>7
<1> QED  BY <1>6, <1>7 DEF Canonical

\* karma.py:5-10: a nightly recompute that no vote interrupted leaves score,
\* count and karma equal to the vote rows, whatever the drift it found, for
\* any users, visitors and items.
THEOREM QuietRepairsAreExact == Spec => QuietRepairExact
<1>1. Init => VotesInv /\ QuietInv
  BY VotesInvInit DEF Init, QuietInv
<1>2. VotesInv /\ QuietInv /\ [Next]_vars => (VotesInv /\ QuietInv)'
  BY VotesInvStep, QuietInvStep
<1>3. Spec => [](VotesInv /\ QuietInv)
  BY <1>1, <1>2, PTL DEF Spec
<1> DEFINE Exact == phase = "commit" /\ phase' = "idle" /\ quiet => Canonical'
<1>4. VotesInv /\ QuietInv /\ [Next]_vars => [Exact]_vars
  <2> SUFFICES ASSUME VotesInv, QuietInv, [Next]_vars, phase = "commit", phase' = "idle", quiet
               PROVE  Canonical'
    OBVIOUS
  <2>1. CommitRecompute
    BY DEF Next, vars, SetDownvotes, Recompute, ReadAggregates, ReadItems, FlushItems,
           ReadUsers, CommitRecompute, CastVote, recompute
  <2> QED  BY <2>1, QuietCommit
<1>5. Spec => [][Exact]_vars
  BY <1>3, <1>4, PTL DEF Spec
<1> QED  BY <1>5 DEF QuietRepairExact

-----------------------------------------------------------------------------
(* Simulated voting: numbers *)

\* The library's Max and Min are what they should be for finite sets.
LEMMA Greatest ==
  ASSUME NEW S \in SUBSET Int, IsFiniteSet(S), S # {}
  PROVE  Max(S) \in S /\ \A y \in S : y <= Max(S)
<1> DEFINE Above(x) == {y \in S : y > x}
           Counts == {Cardinality(Above(x)) : x \in S}
<1>1. \A x \in S : IsFiniteSet(Above(x)) /\ Cardinality(Above(x)) \in Nat
  BY FS_Subset, FS_CardinalityType
<1>2. Counts \in SUBSET Nat /\ Counts # {}
  BY <1>1
<1>3. PICK x \in S : \A y \in S : Cardinality(Above(x)) <= Cardinality(Above(y))
  <2>1. PICK n \in Counts : \A m \in Counts : n <= m
    <3> HIDE DEF Counts
    <3> QED  BY <1>2, LeastNat
  <2> QED  BY <2>1
<1>4. ASSUME NEW y \in S, y > x PROVE FALSE
  <2>0. x \in Int /\ y \in Int /\ \A z \in S : z > y => z > x
    BY <1>3, <1>4
  <2>1. Above(y) \in SUBSET Above(x) /\ y \in Above(x) /\ y \notin Above(y)
    <3>1. \A z : z \in Above(y) => z \in Above(x)
      BY <2>0
    <3>2. y \in Above(x)
      BY <1>4
    <3>3. y \notin Above(y)
      BY <2>0
    <3> HIDE DEF Above
    <3> QED  BY <3>1, <3>2, <3>3
  <2>2. Cardinality(Above(y)) <= Cardinality(Above(x)) /\ Cardinality(Above(y)) # Cardinality(Above(x))
    <3> HIDE DEF Above
    <3> QED  BY <1>1, <2>1, FS_Subset
  <2> HIDE DEF Above
  <2> QED  BY <1>1, <1>3, <2>2
<1>5. \E z \in S : \A y \in S : z >= y
  <2>1. \A y \in S : x >= y
    BY <1>4, S \in SUBSET Int
  <2> QED  BY <2>1
<1>6. Max(S) \in S /\ \A y \in S : Max(S) >= y
  BY <1>5 DEF Max
<1> QED  BY <1>6, S \in SUBSET Int

LEMMA Smallest ==
  ASSUME NEW S \in SUBSET Int, IsFiniteSet(S), S # {}
  PROVE  Min(S) \in S /\ \A y \in S : Min(S) <= y
<1> DEFINE Below(x) == {y \in S : y < x}
           Counts == {Cardinality(Below(x)) : x \in S}
<1>1. \A x \in S : IsFiniteSet(Below(x)) /\ Cardinality(Below(x)) \in Nat
  BY FS_Subset, FS_CardinalityType
<1>2. Counts \in SUBSET Nat /\ Counts # {}
  BY <1>1
<1>3. PICK x \in S : \A y \in S : Cardinality(Below(x)) <= Cardinality(Below(y))
  <2>1. PICK n \in Counts : \A m \in Counts : n <= m
    <3> HIDE DEF Counts
    <3> QED  BY <1>2, LeastNat
  <2> QED  BY <2>1
<1>4. ASSUME NEW y \in S, y < x PROVE FALSE
  <2>0. x \in Int /\ y \in Int /\ \A z \in S : z < y => z < x
    BY <1>3, <1>4
  <2>1. Below(y) \in SUBSET Below(x) /\ y \in Below(x) /\ y \notin Below(y)
    <3>1. \A z : z \in Below(y) => z \in Below(x)
      BY <2>0
    <3>2. y \in Below(x)
      BY <1>4
    <3>3. y \notin Below(y)
      BY <2>0
    <3> HIDE DEF Below
    <3> QED  BY <3>1, <3>2, <3>3
  <2>2. Cardinality(Below(y)) <= Cardinality(Below(x)) /\ Cardinality(Below(y)) # Cardinality(Below(x))
    <3> HIDE DEF Below
    <3> QED  BY <1>1, <2>1, FS_Subset
  <2> HIDE DEF Below
  <2> QED  BY <1>1, <1>3, <2>2
<1>5. \E z \in S : \A y \in S : z <= y
  <2>1. \A y \in S : x <= y
    BY <1>4, S \in SUBSET Int
  <2> QED  BY <2>1
<1> QED  BY <1>5 DEF Min

\* The library's Min of two numbers, and of one and a set.
LEMMA OfTwo ==
  ASSUME NEW a \in Int, NEW b \in Int
  PROVE  Min({a, b}) \in {a, b} /\ Min({a, b}) <= a /\ Min({a, b}) <= b
<1>1. {a, b} \in SUBSET Int /\ {a, b} # {} /\ IsFiniteSet({a, b})
  <2>1. {a, b} = ({} \cup {a}) \cup {b}
    OBVIOUS
  <2>2. IsFiniteSet(({} \cup {a}) \cup {b})
    BY FS_EmptySet, FS_AddElement
  <2> QED  BY <2>1, <2>2
<1> QED  BY <1>1, Smallest

\* A share of the budget that grows with the age never exceeds it.
LEMMA ShareOfBudget ==
  ASSUME NEW n \in Nat, NEW age \in Nat, NEW w \in Nat, age < w
  PROVE  (n * age) \div w \in Int /\ (n * age) \div w <= n
<1>1. n * age \in Nat /\ n * age <= n * w /\ n * w \in Nat
  <2>1. n * age \in Nat /\ n * w \in Nat /\ n * (w - age) \in Nat
    OBVIOUS
  <2>2. n * w = n * age + n * (w - age)
    OBVIOUS
  <2> QED  BY <2>1, <2>2
<1>2. (n * age) \div w \in Int /\ w * ((n * age) \div w) <= n * age
  BY <1>1
<1> DEFINE q == (n * age) \div w
<1>3. q \in Int /\ w * q <= n * w /\ w > 0
  BY <1>1, <1>2
<1> HIDE DEF q
<1>4. SUFFICES ASSUME q > n PROVE FALSE
  BY <1>3 DEF q
<1>5. w * q = w * n + w * (q - n) /\ w * (q - n) >= w
  BY <1>3, <1>4
<1> QED  BY <1>3, <1>5

LEMMA DueWithinBudget ==
  ASSUME NEW p \in SimPolicies, NEW i \in Content, NEW age \in Int, ValidPolicy(Cadence[p])
  PROVE  /\ sample_attention_budget(p, i) \in Nat
         /\ due_count(p, i, age) \in Int
         /\ due_count(p, i, age) <= sample_attention_budget(p, i)
<1>1. /\ Cadence[p].most \in Int /\ Cadence[p].draw[i] \in Nat
      /\ Cadence[p].window \in Nat /\ Cadence[p].window > 0
  BY SimulatedAssumption DEF ValidPolicy
<1>2. sample_attention_budget(p, i) \in Nat
  <2> DEFINE m == Cadence[p].most
             d == Cadence[p].draw[i]
  <2>1. sample_attention_budget(p, i) = IF m <= 0 THEN 0 ELSE Min({m, d})
    BY DEF sample_attention_budget
  <2>2. m \in Int /\ d \in Nat
    BY <1>1
  <2> HIDE DEF m, d
  <2>3. Min({m, d}) \in {m, d}
    BY <2>2, OfTwo
  <2> QED  BY <2>1, <2>2, <2>3
<1> DEFINE n == sample_attention_budget(p, i)
           w == Cadence[p].window
<1>3. due_count(p, i, age) = IF n <= 0 \/ age <= 0 THEN 0
                             ELSE IF age >= w THEN n ELSE (n * age) \div w
  BY DEF due_count
<1>4. n \in Nat /\ w \in Nat /\ w > 0
  BY <1>1, <1>2
<1> HIDE DEF n, w
<1>5. CASE n <= 0 \/ age <= 0 \/ age >= w
  BY <1>3, <1>4, <1>5 DEF n
<1>6. CASE ~ (n <= 0 \/ age <= 0 \/ age >= w)
  <2>1. age \in Nat /\ age < w
    BY <1>4, <1>6
  <2>2. (n * age) \div w \in Int /\ (n * age) \div w <= n
    BY <1>4, <2>1, ShareOfBudget
  <2>3. due_count(p, i, age) = (n * age) \div w
    BY <1>3, <1>6
  <2> QED  BY <1>2, <2>2, <2>3 DEF n
<1> QED  BY <1>5, <1>6

-----------------------------------------------------------------------------
(* Simulated voting: the inductive invariant *)

Sources == {"simulated", "backfill", "human"}
Places ==
  {"idle", "targets", "active", "ordinals", "cast", "archive", "exposures", "summary"}

\* The votes of live items, none of them later than now.
RowsKept ==
  /\ IsFiniteSet(rows)
  /\ \A r \in rows :
       /\ r \in [voter : Personas \cup SimVisitors, item : Content, source : Sources, at : Nat]
       /\ Live(r.item) /\ r.at <= clock

\* Saved policies validate and are never changed.
StoreKept ==
  /\ clock \in Nat \ {0}
  /\ DOMAIN policies \subseteq SimPolicies
  /\ \A p \in DOMAIN policies : policies[p] \in 1..clock /\ ValidPolicy(Cadence[p])
  /\ draft # <<>> => /\ draft[1] \in SimPolicies \ DOMAIN policies
                     /\ ValidPolicy(Cadence[draft[1]])
                     /\ draft[2] \in 1..clock
  /\ born \in [Content -> Int]

Ticks ==
  [pc : Places, at : Nat, dry : BOOLEAN, hourly : [Personas -> Nat],
   latest : [Personas -> Int], queue : SUBSET Content, item : Content \cup {None},
   policy : Nat, held : SUBSET (Personas \cup SimVisitors), due : Int,
   selected : SUBSET Personas, used : Nat, decided : [Content -> Nat],
   counted : Nat, voter : Personas \cup {None},
   tail : {"none", "archive", "revival"}, fresh : BOOLEAN]

TickShape ==
  /\ tick \in Ticks
  /\ tick.at <= clock
  /\ missed \in Int

\* Which fields a place of the tick relies on.  An item it knows was born.
TickPlace ==
  /\ \A i \in tick.queue : born[i] # 0
  /\ tick.item # None => born[tick.item] # 0
  /\ tick.pc \in {"targets", "active", "ordinals", "archive"} => tick.tail = "none"
  /\ tick.pc = "exposures" => tick.tail # "none"
  /\ tick.pc \in {"ordinals", "cast"} => tick.item \in Content
  /\ tick.pc \in {"ordinals", "cast", "archive", "exposures"} => tick.policy \in DOMAIN policies
  /\ tick.pc = "cast" => tick.voter \in Personas
  /\ tick.pc = "idle" => tick.counted = 0
  /\ tick.counted <= missed

\* Attention: what is due still fits under the budget the item had when it
\* was examined; a rediscovery casts on an item that has no simulated vote.
Under(n, i) ==
  n <= 1 \/ \E p \in PoliciesAt(born[i]) : n <= sample_attention_budget(p, i)
AttentionInv == \A i \in Content : Live(i) => Under(Cardinality(SimulatedOn(i)), i)
Fits(n) == n <= sample_attention_budget(tick.policy, tick.item)
DueInv ==
  /\ tick.pc \in {"ordinals", "cast"} /\ tick.tail = "none" /\ Live(tick.item) =>
       tick.policy \in PoliciesAt(born[tick.item])
  /\ tick.pc = "ordinals" /\ Live(tick.item) /\ tick.due > 0 =>
       Fits(Cardinality(SimulatedOn(tick.item)) + tick.due)
  /\ tick.pc = "cast" /\ tick.tail = "none" /\ Live(tick.item) =>
       tick.due >= 0 /\ Fits(Cardinality(SimulatedOn(tick.item)) + tick.due + 1)
  /\ tick.pc = "cast" /\ tick.tail # "none" /\ Live(tick.item) => SimulatedOn(tick.item) = {}

\* Caps: the tick's own counts are never below the votes of the hour, the
\* pending one included.
RecentOf(v, t) == {r \in SimulatedOf(v) : r.at >= t - AnHour}
Underway == tick.pc \notin {"idle", "summary"}
PendingOf(v) == IF tick.pc = "cast" /\ tick.voter = v THEN 1 ELSE 0
CountInv ==
  /\ Underway => \A v \in Personas :
       Cardinality(RecentOf(v, tick.at)) + PendingOf(v) <= tick.hourly[v]
  /\ tick.pc = "cast" => tick.hourly[tick.voter] <= Cadence[tick.policy].cap
HourInv ==
  \A v \in Personas : SimulatedOf(v) # {} =>
    \E p \in DOMAIN policies : Cardinality(RecentOf(v, clock)) <= Cadence[p].cap

\* Gaps: a persona's votes are before the one the tick knows as the latest,
\* unless they are over an hour old, or the tick itself has booked one.
FarApart(n) == n > AnHour \/ \E p \in DOMAIN policies : n > Cadence[p].gap
LatestInv ==
  /\ Underway => \A v \in Personas : \A r \in SimulatedOf(v) :
       r.at <= tick.latest[v] \/ r.at < tick.at - AnHour \/ tick.at <= tick.latest[v]
  /\ tick.pc = "cast" => /\ tick.at <= tick.latest[tick.voter]
                         /\ \A r \in SimulatedOf(tick.voter) : FarApart(tick.at - r.at)
GapInv ==
  \A v \in Personas : \A r, s \in SimulatedOf(v) :
    r # s => FarApart(r.at - s.at) \/ FarApart(s.at - r.at)

SimInv ==
  /\ RowsKept /\ StoreKept /\ TickShape /\ TickPlace
  /\ AttentionInv /\ DueInv /\ CountInv /\ HourInv /\ LatestInv /\ GapInv

LEMMA SimAssumed ==
  /\ \A i \in Content : i \in Nat /\ i # 0
  /\ \A p \in SimPolicies : p \in Nat /\ p # 0
  /\ \A p \in SimPolicies : /\ Cadence[p].most \in Int /\ Cadence[p].cap \in Int
                            /\ Cadence[p].gap \in Int /\ Cadence[p].window \in Int
                            /\ Cadence[p].grace \in Int /\ Cadence[p].tail \in Int
  /\ AnHour \in Nat /\ Personas \cap SimVisitors = {} /\ IsFiniteSet(SimPolicies)
  /\ Backers \subseteq Personas
BY SimulatedAssumption

\* Counts of votes are numbers.
LEMMA VotesCounted ==
  ASSUME RowsKept
  PROVE  /\ \A i : IsFiniteSet(SimulatedOn(i)) /\ Cardinality(SimulatedOn(i)) \in Nat
         /\ \A v : IsFiniteSet(SimulatedOf(v))
         /\ \A v, t : IsFiniteSet(RecentOf(v, t)) /\ Cardinality(RecentOf(v, t)) \in Nat
<1>1. \A i : IsFiniteSet(SimulatedOn(i)) /\ Cardinality(SimulatedOn(i)) \in Nat
  BY FS_Subset, FS_CardinalityType DEF RowsKept, SimulatedOn
<1>2. \A v : IsFiniteSet(SimulatedOf(v))
  BY FS_Subset DEF RowsKept, SimulatedOf
<1>3. \A v, t : IsFiniteSet(RecentOf(v, t)) /\ Cardinality(RecentOf(v, t)) \in Nat
  BY <1>2, FS_Subset, FS_CardinalityType DEF RecentOf
<1> QED  BY <1>1, <1>2, <1>3

\* The policy of a time is one that was in effect, if any was.
LEMMA PolicyFound ==
  ASSUME StoreKept, NEW t
  PROVE  /\ PoliciesAt(t) \subseteq DOMAIN policies
         /\ PolicyAt(t) # None => PolicyAt(t) \in PoliciesAt(t)
<1>1. PoliciesAt(t) \subseteq DOMAIN policies
  BY DEF PoliciesAt
<1>2. ASSUME PoliciesAt(t) # {} PROVE PolicyAt(t) \in PoliciesAt(t)
  <2> DEFINE P == PoliciesAt(t)
             Stamps == {policies[p] : p \in P}
             m == Max(Stamps)
             Late == {p \in P : policies[p] = m}
  <2>1. IsFiniteSet(P) /\ P \subseteq SimPolicies /\ P \subseteq DOMAIN policies
    BY <1>1, SimAssumed, FS_Subset DEF StoreKept
  <2>2. Stamps \in SUBSET (1..clock) /\ Stamps # {} /\ clock \in Int
    BY <1>2, <2>1 DEF StoreKept
  <2>3. IsFiniteSet(Stamps) /\ Stamps \in SUBSET Int
    <3> HIDE DEF Stamps
    <3>1. IsFiniteSet(1..clock) /\ 1..clock \subseteq Int
      BY <2>2, FS_Interval
    <3> QED  BY <2>2, <3>1, FS_Subset
  <2>4. m \in Stamps /\ \A y \in Stamps : y <= m
    <3> HIDE DEF Stamps
    <3> QED  BY <2>2, <2>3, Greatest
  <2>5. Late # {} /\ IsFiniteSet(Late) /\ Late \in SUBSET Int
    <3>1. Late # {}
      <4> HIDE DEF m
      <4> QED  BY <2>4
    <3>2. Late \in SUBSET P /\ \A p \in P : p \in Int
      BY <2>1, SimAssumed
    <3> HIDE DEF Late, P
    <3> QED  BY <2>1, <3>1, <3>2, FS_Subset
  <2> DEFINE q == Max(Late)
  <2>6. q \in Late /\ \A p \in Late : p <= q
    <3> HIDE DEF Late
    <3> QED  BY <2>5, Greatest
  <2>7. q \in P /\ \A p \in P : policies[p] < policies[q] \/ (policies[p] = policies[q] /\ p <= q)
    <3> HIDE DEF q, m
    <3>1. q \in P /\ policies[q] = m /\ m \in Int
      BY <2>3, <2>4, <2>6
    <3>2. \A p \in P : policies[p] \in Int /\ policies[p] <= m
      BY <2>3, <2>4
    <3>3. \A p \in P : policies[p] = m => p <= q
      BY <2>6
    <3>4. \A p \in P : policies[p] < m \/ policies[p] = m
      BY <3>1, <3>2
    <3> HIDE DEF P
    <3> QED  BY <3>1, <3>3, <3>4
  <2> HIDE DEF q
  <2>8. \E x \in P : \A p \in P : policies[p] < policies[x] \/ (policies[p] = policies[x] /\ p <= x)
    BY <2>7
  <2> QED  BY <1>2, <2>8 DEF PolicyAt
<1>3. PoliciesAt(t) = {} => PolicyAt(t) = None
  BY DEF PolicyAt
<1> QED  BY <1>1, <1>2, <1>3

\* The counts a tick reads: no simulated vote of the hour is missed, and none
\* of them is later than the latest.
LEMMA CountsRead ==
  ASSUME RowsKept, StoreKept, NEW t \in Nat
  PROVE  /\ HourlyOf(t) \in [Personas -> Nat] /\ LatestOf(t) \in [Personas -> Int]
         /\ \A v \in Personas : Cardinality(RecentOf(v, t)) <= HourlyOf(t)[v]
         /\ \A v \in Personas : \A r \in SimulatedOf(v) :
              r.at <= LatestOf(t)[v] \/ r.at < t - AnHour
<1> DEFINE H(v) == {r \in rows : r.voter = v /\ r.at >= t - AnHour}
           L(v) == {-1} \cup {r.at : r \in {x \in rows : x.voter = v /\ x.at >= t - AnHour}}
<1>1. HourlyOf(t) = [v \in Personas |-> Cardinality(H(v))]
  BY DEF HourlyOf
<1>2. LatestOf(t) = [v \in Personas |-> Max(L(v))]
  BY DEF LatestOf
<1>3. \A v \in Personas : /\ IsFiniteSet(H(v)) /\ Cardinality(H(v)) \in Nat
                          /\ RecentOf(v, t) \in SUBSET H(v)
  BY FS_Subset, FS_CardinalityType DEF RowsKept, RecentOf, SimulatedOf
<1>4. \A v \in Personas : Cardinality(RecentOf(v, t)) <= Cardinality(H(v))
  <2> HIDE DEF H
  <2> QED  BY <1>3, FS_Subset
<1>5. \A v \in Personas : L(v) \in SUBSET (-1..clock) /\ L(v) # {}
  <2>1. \A r \in rows : r.at \in Nat /\ r.at <= clock
    BY DEF RowsKept
  <2> QED  BY <2>1 DEF StoreKept
<1>6. \A v \in Personas : Max(L(v)) \in Int /\ \A y \in L(v) : y <= Max(L(v))
  <2> HIDE DEF L
  <2>1. IsFiniteSet(-1..clock) /\ -1..clock \subseteq Int
    BY FS_Interval DEF StoreKept
  <2> QED  BY <1>5, <2>1, FS_Subset, Greatest
<1>7. ASSUME NEW v \in Personas, NEW r \in SimulatedOf(v)
      PROVE  r.at <= Max(L(v)) \/ r.at < t - AnHour
  <2>1. r \in rows /\ r.voter = v /\ r.at \in Nat
    BY DEF SimulatedOf, RowsKept
  <2>2. CASE r.at >= t - AnHour
    <3>1. r.at \in L(v)
      BY <2>1, <2>2
    <3> HIDE DEF L
    <3> QED  BY <1>6, <3>1
  <2>3. CASE ~ (r.at >= t - AnHour)
    BY <2>1, <2>3, SimAssumed
  <2> QED  BY <2>2, <2>3
<1> HIDE DEF H, L
<1> QED  BY <1>1, <1>2, <1>3, <1>4, <1>6, <1>7

-----------------------------------------------------------------------------
(* Simulated voting: the steps of a tick that insert no vote *)

LEMMA IdleIsTick == Idle \in Ticks
BY DEF Idle, Ticks, Places, None

LEMMA SimInvInit == SimInit => SimInv
<1> SUFFICES ASSUME SimInit PROVE SimInv
  OBVIOUS
<1>1. /\ clock = 1 /\ policies = << >> /\ draft = << >> /\ born = [i \in Content |-> 0]
      /\ rows = {} /\ tick = Idle /\ missed = 0
  BY DEF SimInit
<1>2. RowsKept
  BY <1>1, FS_EmptySet DEF RowsKept
<1>3. StoreKept
  BY <1>1 DEF StoreKept
<1>4. TickShape
  BY <1>1, IdleIsTick DEF TickShape, Idle
<1>5. TickPlace
  BY <1>1 DEF TickPlace, Idle, None
<1>6. AttentionInv
  BY <1>1 DEF AttentionInv, Live
<1>7. DueInv /\ CountInv /\ LatestInv
  BY <1>1 DEF DueInv, CountInv, LatestInv, Underway, Idle
<1>8. HourInv /\ GapInv
  BY <1>1 DEF HourInv, GapInv, SimulatedOf
<1> QED  BY <1>2, <1>3, <1>4, <1>5, <1>6, <1>7, <1>8 DEF SimInv

simStored == <<clock, policies, draft, born, rows>>

\* What does not mention the tick holds on.
LEMMA StoredKept ==
  ASSUME SimInv, UNCHANGED simStored
  PROVE  RowsKept' /\ StoreKept' /\ AttentionInv' /\ HourInv' /\ GapInv'
<1> USE DEF SimInv, simStored
<1>1. RowsKept' /\ StoreKept'
  BY DEF RowsKept, StoreKept, Live
<1>2. AttentionInv'
  BY DEF AttentionInv, Live, Under, PoliciesAt, SimulatedOn
<1>3. HourInv'
  BY DEF HourInv, SimulatedOf, RecentOf
<1>4. GapInv'
  BY DEF GapInv, FarApart, SimulatedOf
<1> QED  BY <1>1, <1>2, <1>3, <1>4

\* A tick at rest books nothing.
LEMMA AtRest ==
  ASSUME tick'.pc \in {"idle", "summary"}
  PROVE  DueInv' /\ CountInv' /\ LatestInv'
BY DEF DueInv, CountInv, LatestInv, Underway

\* A step that books nobody leaves the counts right.
LEMMA BooksKept ==
  ASSUME SimInv, UNCHANGED simStored, Underway, tick'.pc # "cast",
         tick'.at = tick.at, tick'.hourly = tick.hourly, tick'.latest = tick.latest
  PROVE  CountInv' /\ LatestInv'
<1> USE DEF SimInv, simStored
<1>1. /\ \A v : SimulatedOf(v)' = SimulatedOf(v)
      /\ \A v : RecentOf(v, tick.at)' = RecentOf(v, tick.at)
      /\ \A v : RecentOf(v, tick'.at) = RecentOf(v, tick.at)
  BY DEF SimulatedOf, RecentOf
<1>2. \A v \in Personas : PendingOf(v) \in Nat /\ PendingOf(v)' = 0
  BY DEF PendingOf
<1>3. CountInv'
  <2>1. \A v \in Personas :
          /\ Cardinality(RecentOf(v, tick.at)) \in Nat /\ tick.hourly[v] \in Nat
          /\ Cardinality(RecentOf(v, tick.at)) + PendingOf(v) <= tick.hourly[v]
    BY VotesCounted DEF CountInv, TickShape, Ticks
  <2>2. \A v \in Personas : Cardinality(RecentOf(v, tick.at)) + 0 <= tick.hourly[v]
    BY <1>2, <2>1
  <2>3. \A v \in Personas : Cardinality(RecentOf(v, tick.at)') + PendingOf(v)' <= tick'.hourly[v]
    BY <1>1, <1>2, <2>2
  <2>4. \A v : RecentOf(v, tick.at)' = {r \in SimulatedOf(v) : r.at >= tick.at - AnHour}
    BY <1>1 DEF RecentOf
  <2> QED  BY <2>3 DEF CountInv
<1>4. LatestInv'
  BY <1>1 DEF LatestInv
<1> QED  BY <1>3, <1>4

\* A booking: the persona is under the cap, and its latest vote long enough ago.
LEMMA BooksOne ==
  ASSUME SimInv, UNCHANGED simStored, Underway, tick.pc # "cast", tick'.pc = "cast",
         tick.policy \in DOMAIN policies,
         NEW v \in Personas, tick'.voter = v, tick'.at = tick.at, tick'.policy = tick.policy,
         tick'.hourly = [tick.hourly EXCEPT ![v] = @ + 1],
         tick'.latest = [tick.latest EXCEPT ![v] = tick.at],
         tick.hourly[v] < Cadence[tick.policy].cap,
         tick.latest[v] < tick.at - Cadence[tick.policy].gap
  PROVE  CountInv' /\ LatestInv'
<1> USE DEF SimInv, simStored
<1>1. /\ \A w : SimulatedOf(w)' = SimulatedOf(w)
      /\ \A w : RecentOf(w, tick.at)' = RecentOf(w, tick.at)
  BY DEF SimulatedOf, RecentOf
<1>2. /\ tick.hourly \in [Personas -> Nat] /\ tick.latest \in [Personas -> Int]
      /\ tick.at \in Nat
      /\ Cadence[tick.policy].cap \in Int /\ Cadence[tick.policy].gap \in Int
      /\ Cadence[tick.policy].gap >= 0
  BY SimAssumed DEF TickShape, Ticks, StoreKept, ValidPolicy
<1>3. CountInv'
  <2>1. \A w \in Personas :
          /\ Cardinality(RecentOf(w, tick.at)) \in Nat
          /\ Cardinality(RecentOf(w, tick.at)) <= tick.hourly[w]
    <3>1. \A w \in Personas :
            /\ Cardinality(RecentOf(w, tick.at)) \in Nat
            /\ Cardinality(RecentOf(w, tick.at)) + PendingOf(w) <= tick.hourly[w]
            /\ PendingOf(w) = 0
      BY VotesCounted DEF CountInv, PendingOf
    <3> QED  BY <1>2, <3>1
  <2>2. \A w \in Personas : /\ PendingOf(w)' = IF w = v THEN 1 ELSE 0
                            /\ tick'.hourly[w] = IF w = v THEN tick.hourly[w] + 1 ELSE tick.hourly[w]
    BY <1>2 DEF PendingOf
  <2>3. \A w \in Personas : Cardinality(RecentOf(w, tick.at)) + PendingOf(w)' <= tick'.hourly[w]
    BY <1>2, <2>1, <2>2
  <2>4. tick'.hourly[v] <= Cadence[tick.policy].cap
    BY <1>2, <2>2
  <2>5. \A w \in Personas : Cardinality(RecentOf(w, tick.at)') + PendingOf(w)' <= tick'.hourly[w]
    BY <1>1, <2>3
  <2> QED  BY <2>4, <2>5 DEF CountInv
<1>4. LatestInv'
  <2>1. \A w \in Personas : tick'.latest[w] = IF w = v THEN tick.at ELSE tick.latest[w]
    BY <1>2
  <2>2. \A w \in Personas : \A r \in SimulatedOf(w) :
          /\ r.at \in Nat
          /\ r.at <= tick.latest[w] \/ r.at < tick.at - AnHour \/ tick.at <= tick.latest[w]
    BY DEF LatestInv, RowsKept, SimulatedOf
  <2>3. \A w \in Personas : \A r \in SimulatedOf(w) :
          r.at <= tick'.latest[w] \/ r.at < tick.at - AnHour \/ tick.at <= tick'.latest[w]
    BY <1>2, <2>1, <2>2
  <2>4. \A r \in SimulatedOf(v) : FarApart(tick.at - r.at)
    <3> SUFFICES ASSUME NEW r \in SimulatedOf(v) PROVE FarApart(tick.at - r.at)
      OBVIOUS
    <3>1. r.at \in Nat /\ AnHour \in Nat
      BY <2>2, SimAssumed
    <3>2. CASE r.at < tick.at - AnHour
      BY <1>2, <3>1, <3>2 DEF FarApart
    <3>3. CASE r.at <= tick.latest[v]
      <4>1. tick.at - r.at > Cadence[tick.policy].gap
        BY <1>2, <3>1, <3>3
      <4> QED  BY <4>1 DEF FarApart
    <3>4. ~ (tick.at <= tick.latest[v])
      BY <1>2
    <3> QED  BY <2>2, <3>2, <3>3, <3>4
  <2>5. \A r \in SimulatedOf(v) : FarApart(tick.at - r.at)'
    BY <2>4 DEF FarApart
  <2>6. tick'.at <= tick'.latest[v]
    BY <1>2, <2>1
  <2> QED  BY <1>1, <2>3, <2>5, <2>6 DEF LatestInv
<1> QED  BY <1>3, <1>4

\* Oldest takes one of the targets.
LEMMA OldestTaken ==
  ASSUME StoreKept, NEW S \in SUBSET Content, S # {}
  PROVE  Oldest(S) \in S
<1> DEFINE Prior(i) == {k \in S : Before(k, i)}
           Counts == {Cardinality(Prior(i)) : i \in S}
<1>1. IsFiniteSet(S)
  BY SimulatedAssumption, FS_Subset
<1>2. \A i \in S : IsFiniteSet(Prior(i)) /\ Cardinality(Prior(i)) \in Nat
  BY <1>1, FS_Subset, FS_CardinalityType
<1>3. PICK i \in S : \A j \in S : Cardinality(Prior(i)) <= Cardinality(Prior(j))
  <2>1. Counts \in SUBSET Nat /\ Counts # {}
    BY <1>2
  <2>2. PICK n \in Counts : \A m \in Counts : n <= m
    <3> HIDE DEF Counts
    <3> QED  BY <2>1, LeastNat
  <2> QED  BY <2>2
<1>4. \A j \in S : j \in Int /\ born[j] \in Int
  BY SimAssumed DEF StoreKept
<1>5. /\ \A j, k \in S : j = k \/ Before(j, k) \/ Before(k, j)
      /\ \A j, k \in S : Before(j, k) => ~ Before(k, j)
      /\ \A j, k, l \in S : Before(j, k) /\ Before(k, l) => Before(j, l)
  BY <1>4 DEF Before
<1>6. ASSUME NEW j \in S \ {i}, ~ Before(i, j) PROVE FALSE
  <2>1. Before(j, i)
    BY <1>5, <1>6
  <2>2. \A k : k \in Prior(j) => k \in Prior(i)
    BY <1>5, <2>1
  <2>3. j \in Prior(i) /\ j \notin Prior(j)
    BY <1>5, <2>1
  <2>4. Cardinality(Prior(j)) <= Cardinality(Prior(i)) /\ Cardinality(Prior(j)) # Cardinality(Prior(i))
    <3> HIDE DEF Prior
    <3> QED  BY <1>2, <2>2, <2>3, FS_Subset
  <2> HIDE DEF Prior
  <2> QED  BY <1>2, <1>3, <2>4
<1>7. \E x \in S : \A j \in S \ {x} : Before(x, j)
  BY <1>3, <1>6
<1> QED  BY <1>7 DEF Oldest

TickInv == TickShape /\ TickPlace /\ DueInv /\ CountInv /\ LatestInv

\* The places of a tick in which nothing is due.
LEMMA NothingDue ==
  ASSUME tick'.pc \notin {"ordinals", "cast"}
  PROVE  DueInv'
BY DEF DueInv

LEMMA BeginTickKeeps == SimInv /\ BeginTick => TickInv'
<1> SUFFICES ASSUME SimInv, BeginTick PROVE TickInv'
  OBVIOUS
<1> USE DEF SimInv
<1>1. /\ UNCHANGED <<clock, policies, draft, born, rows, missed>> /\ clock \in Nat
      /\ tick.counted = 0
      /\ tick' = [Idle EXCEPT !.pc = "targets", !.at = clock, !.dry = mode = "shadow",
                    !.hourly = HourlyOf(clock), !.latest = LatestOf(clock)]
  BY DEF BeginTick, world, StoreKept, TickPlace
<1>2. /\ HourlyOf(clock) \in [Personas -> Nat] /\ LatestOf(clock) \in [Personas -> Int]
      /\ \A v \in Personas : Cardinality(RecentOf(v, clock)) <= HourlyOf(clock)[v]
      /\ \A v \in Personas : \A r \in SimulatedOf(v) :
           r.at <= LatestOf(clock)[v] \/ r.at < clock - AnHour
  BY <1>1, CountsRead
<1>3. /\ tick'.pc = "targets" /\ tick'.at = clock /\ tick'.hourly = HourlyOf(clock)
      /\ tick'.latest = LatestOf(clock) /\ tick'.queue = {} /\ tick'.item = None
      /\ tick'.tail = "none" /\ tick'.counted = 0
  BY <1>1 DEF Idle
<1>4. TickShape'
  <2> DEFINE dry == mode = "shadow"
             hourly == HourlyOf(clock)
             latest == LatestOf(clock)
  <2>1. hourly \in [Personas -> Nat] /\ latest \in [Personas -> Int] /\ dry \in BOOLEAN
    BY <1>2
  <2>2. tick' = [Idle EXCEPT !.pc = "targets", !.at = clock, !.dry = dry,
                   !.hourly = hourly, !.latest = latest]
    BY <1>1
  <2> HIDE DEF dry, hourly, latest
  <2>3. Idle \in Ticks /\ "targets" \in Places /\ clock \in Nat
    BY <1>1, IdleIsTick DEF Places
  <2>4. tick' \in Ticks
    BY ONLY <2>1, <2>2, <2>3 DEF Ticks
  <2> QED  BY <1>1, <1>3, <2>4 DEF TickShape, Ticks
<1>5. TickPlace'
  BY <1>1, <1>3 DEF TickPlace
<1>6. DueInv'
  BY <1>3, NothingDue
<1>7. /\ \A v : SimulatedOf(v)' = SimulatedOf(v)
      /\ \A v : RecentOf(v, tick.at)' = RecentOf(v, clock)
  BY <1>1, <1>3 DEF SimulatedOf, RecentOf
<1>8. CountInv'
  <2>1. \A v \in Personas : PendingOf(v)' = 0
    BY <1>3 DEF PendingOf
  <2>2. \A v \in Personas : Cardinality(RecentOf(v, clock)) \in Nat
    BY VotesCounted
  <2>3. \A v \in Personas : Cardinality(RecentOf(v, clock)) + 0 <= HourlyOf(clock)[v]
    BY <1>2, <2>2
  <2>4. \A v \in Personas : Cardinality(RecentOf(v, tick.at)') + PendingOf(v)' <= tick'.hourly[v]
    BY <1>3, <1>7, <2>1, <2>3
  <2> QED  BY <1>3, <2>4 DEF CountInv
<1>9. LatestInv'
  <2>1. \A v \in Personas : \A r \in SimulatedOf(v) :
          r.at <= tick'.latest[v] \/ r.at < tick'.at - AnHour
    BY <1>2, <1>3
  <2> QED  BY <1>3, <1>7, <2>1 DEF LatestInv
<1> QED  BY <1>4, <1>5, <1>6, <1>8, <1>9 DEF TickInv

LEMMA ReadTargetsKeeps == SimInv /\ ReadTargets => TickInv'
<1> SUFFICES ASSUME SimInv, ReadTargets PROVE TickInv'
  OBVIOUS
<1> USE DEF SimInv
<1> DEFINE Q == {i \in Content : Live(i) /\ born[i] >= tick.at - Horizon(tick.at)
                                         /\ born[i] <= tick.at}
<1>1. /\ UNCHANGED simStored /\ missed' = missed /\ tick.pc = "targets"
      /\ tick' = [tick EXCEPT !.pc = "active", !.queue = Q]
  BY DEF ReadTargets, world, simStored
<1>2. Q \subseteq Content /\ \A i \in Q : born[i] # 0
  BY DEF Live, StoreKept
<1> HIDE DEF Q
<1>3. /\ tick'.pc = "active" /\ tick'.queue = Q /\ tick'.item = tick.item /\ tick'.at = tick.at
      /\ tick'.tail = tick.tail /\ tick'.counted = tick.counted
      /\ tick'.hourly = tick.hourly /\ tick'.latest = tick.latest
      /\ tick' \in Ticks
  BY <1>1, <1>2 DEF TickShape, Ticks, Places
<1>4. TickShape' /\ TickPlace'
  BY <1>1, <1>2, <1>3 DEF TickShape, TickPlace, simStored
<1>5. DueInv'
  BY <1>3, NothingDue
<1>6. CountInv' /\ LatestInv'
  BY <1>1, <1>3, BooksKept DEF Underway
<1> QED  BY <1>4, <1>5, <1>6 DEF TickInv

LEMMA ExamineKeeps == SimInv /\ Examine => TickInv'
<1> SUFFICES ASSUME SimInv, Examine PROVE TickInv'
  OBVIOUS
<1> USE DEF SimInv
<1>0. PICK i, p, due, held :
        /\ i = Oldest(tick.queue) /\ p = PolicyAt(born[i])
        /\ due = Due(p, i) /\ held = VotersOn(i)
  OBVIOUS
<1> DEFINE age == tick.at - born[i]
<1>1. /\ UNCHANGED simStored /\ missed' = missed /\ tick.pc = "active" /\ tick.queue # {}
      /\ \/ tick' = [tick EXCEPT !.queue = @ \ {i}]
         \/ /\ p # None
            /\ tick' = [tick EXCEPT !.pc = "ordinals", !.queue = @ \ {i}, !.item = i,
                            !.policy = p, !.held = held, !.selected = {}, !.due = due]
  BY <1>0 DEF Examine, world, simStored
<1>2. tick \in Ticks /\ tick.at \in Nat /\ tick.queue \in SUBSET Content
  BY DEF TickShape, Ticks
<1>3. i \in tick.queue /\ i \in Content /\ born[i] # 0 /\ born[i] \in Int /\ tick.tail = "none"
  BY <1>0, <1>1, <1>2, OldestTaken DEF TickPlace, StoreKept
<1>4. p # None => /\ p \in PoliciesAt(born[i]) /\ p \in DOMAIN policies
                  /\ p \in SimPolicies /\ p \in Nat /\ ValidPolicy(Cadence[p])
  BY <1>0, PolicyFound, SimAssumed DEF StoreKept
<1>5. held \subseteq Personas \cup SimVisitors
  BY <1>0 DEF VotersOn, RowsKept
<1>6. p # None =>
        /\ due \in Int
        /\ Cardinality(SimulatedOn(i)) + due <= sample_attention_budget(p, i)
  <2> SUFFICES ASSUME p # None
               PROVE  /\ due \in Int
                      /\ Cardinality(SimulatedOn(i)) + due <= sample_attention_budget(p, i)
    OBVIOUS
  <2> DEFINE n == Cardinality(SimulatedOn(i))
             m == sample_attention_budget(p, i)
             d == due_count(p, i, age)
  <2>1. age \in Int
    BY <1>2, <1>3
  <2>2. m \in Nat /\ d \in Int /\ d <= m
    <3> HIDE DEF age
    <3> QED  BY <1>3, <1>4, <2>1, DueWithinBudget
  <2>3. n \in Nat
    BY VotesCounted
  <2>4. due = d - n
    BY <1>0 DEF Due
  <2> HIDE DEF n, m, d
  <2>5. due \in Int /\ n + due <= m
    BY <2>2, <2>3, <2>4
  <2> QED  BY <2>5 DEF n, m
<1> HIDE DEF age
<1>7. tick' \in Ticks
  <2>1. tick.queue \ {i} \in SUBSET Content /\ held \in SUBSET (Personas \cup SimVisitors)
    BY <1>2, <1>5
  <2>2. CASE tick' = [tick EXCEPT !.queue = @ \ {i}]
    BY <1>2, <2>1, <2>2 DEF Ticks
  <2>3. CASE /\ p # None
             /\ tick' = [tick EXCEPT !.pc = "ordinals", !.queue = @ \ {i}, !.item = i,
                            !.policy = p, !.held = held, !.selected = {}, !.due = due]
    <3>1. p \in Nat /\ due \in Int
      BY <1>4, <1>6, <2>3
    <3> QED  BY <1>2, <1>3, <2>1, <2>3, <3>1 DEF Ticks, Places
  <2> QED  BY <1>1, <2>2, <2>3
<1>8. /\ tick'.at = tick.at /\ tick'.hourly = tick.hourly /\ tick'.latest = tick.latest
      /\ tick'.tail = "none" /\ tick'.counted = tick.counted
      /\ tick'.queue = tick.queue \ {i} /\ tick'.pc \in {"active", "ordinals"}
      /\ tick'.pc = "active" => tick'.item = tick.item
      /\ tick'.pc = "ordinals" => p # None /\ tick'.item = i /\ tick'.policy = p /\ tick'.due = due
  <2> HIDE DEF age
  <2>1. CASE tick' = [tick EXCEPT !.queue = @ \ {i}]
    BY ONLY <1>1, <1>2, <1>3, <2>1 DEF Ticks
  <2>2. CASE /\ p # None
             /\ tick' = [tick EXCEPT !.pc = "ordinals", !.queue = @ \ {i}, !.item = i,
                            !.policy = p, !.held = held, !.selected = {}, !.due = due]
    BY ONLY <1>2, <1>3, <2>2 DEF Ticks
  <2> QED  BY <1>1, <2>1, <2>2
<1>9. TickShape' /\ TickPlace'
  <2>1. TickShape'
    BY <1>1, <1>3, <1>4, <1>7, <1>8 DEF TickShape, TickPlace, simStored
  <2>2. TickPlace'
    BY <1>1, <1>3, <1>4, <1>7, <1>8 DEF TickShape, TickPlace, simStored
  <2> QED  BY <2>1, <2>2
<1>10. DueInv'
  <2>1. CASE tick'.pc = "active"
    BY <2>1, NothingDue
  <2>2. CASE tick'.pc = "ordinals"
    <3>1. tick'.item = i /\ tick'.policy = p
      BY <1>8, <2>2
    <3>2. SimulatedOn(tick.item)' = SimulatedOn(i)
      BY <3>1, <1>1 DEF SimulatedOn, simStored
    <3>4. (tick.policy \in PoliciesAt(born[tick.item]))'
      BY <1>1, <1>4, <1>8, <2>2 DEF PoliciesAt, simStored
    <3>5. Fits(Cardinality(SimulatedOn(tick.item)) + tick.due)'
      BY <3>1, <3>2, <1>6, <1>8, <2>2 DEF Fits, sample_attention_budget
    <3> QED  BY <2>2, <3>4, <3>5 DEF DueInv
  <2> QED  BY <1>8, <2>1, <2>2
<1>11. CountInv' /\ LatestInv'
  BY <1>1, <1>8, BooksKept DEF Underway
<1> QED  BY <1>9, <1>10, <1>11 DEF TickInv

LEMMA SelectVoterKeeps == SimInv /\ SelectVoter => TickInv'
<1> SUFFICES ASSUME SimInv, SelectVoter PROVE TickInv'
  OBVIOUS
<1> USE DEF SimInv
<1>1. UNCHANGED simStored /\ missed' = missed /\ tick.pc = "ordinals" /\ tick.due > 0
  BY DEF SelectVoter, MoreOrdinals, world, simStored
<1>2. tick \in Ticks /\ tick.due \in Int /\ tick.tail = "none" /\ tick.item \in Content
  BY <1>1 DEF TickShape, TickPlace, Ticks
<1>3. PICK v \in Pool :
        tick' = [Booked(v, tick.item) EXCEPT !.due = @ - 1, !.selected = @ \cup {v}]
  BY DEF SelectVoter
<1>4. /\ v \in Personas /\ tick.hourly[v] < Cadence[tick.policy].cap
      /\ tick.latest[v] < tick.at - Cadence[tick.policy].gap
  BY DEF Pool, Eligible
<1>5. tick' = [tick EXCEPT !.pc = "cast", !.voter = v, !.item = tick.item,
                 !.hourly = [tick.hourly EXCEPT ![v] = @ + 1],
                 !.latest = [tick.latest EXCEPT ![v] = tick.at],
                 !.decided = [tick.decided EXCEPT ![tick.item] = @ + 1],
                 !.due = tick.due - 1, !.selected = tick.selected \cup {v}]
  BY <1>2, <1>3 DEF Booked, Ticks
<1>6. tick' \in Ticks
  <2>1. /\ [tick.hourly EXCEPT ![v] = @ + 1] \in [Personas -> Nat]
        /\ [tick.latest EXCEPT ![v] = tick.at] \in [Personas -> Int]
        /\ [tick.decided EXCEPT ![tick.item] = @ + 1] \in [Content -> Nat]
        /\ tick.due - 1 \in Int /\ tick.selected \cup {v} \in SUBSET Personas
    BY <1>2, <1>4 DEF Ticks
  <2> QED  BY <1>2, <1>4, <1>5, <2>1 DEF Ticks, Places
<1>7. /\ tick'.pc = "cast" /\ tick'.voter = v /\ tick'.item = tick.item /\ tick'.at = tick.at
      /\ tick'.policy = tick.policy /\ tick'.due = tick.due - 1 /\ tick'.tail = "none"
      /\ tick'.queue = tick.queue /\ tick'.counted = tick.counted
      /\ tick'.hourly = [tick.hourly EXCEPT ![v] = @ + 1]
      /\ tick'.latest = [tick.latest EXCEPT ![v] = tick.at]
  BY <1>2, <1>5 DEF Ticks
<1>8. TickShape' /\ TickPlace'
  BY <1>1, <1>2, <1>4, <1>6, <1>7 DEF TickShape, TickPlace, simStored
<1>9. DueInv'
  <2>1. SimulatedOn(tick.item)' = SimulatedOn(tick.item)
    BY <1>1, <1>7 DEF SimulatedOn, simStored
  <2>2. sample_attention_budget(tick.policy, tick.item)' = sample_attention_budget(tick.policy, tick.item)
    BY <1>7 DEF sample_attention_budget
  <2>3. /\ Live(tick.item) => tick.policy \in PoliciesAt(born[tick.item])
        /\ Live(tick.item) =>
             Cardinality(SimulatedOn(tick.item)) + tick.due
               <= sample_attention_budget(tick.policy, tick.item)
    BY <1>1, <1>2 DEF DueInv, Fits
  <2>4. Live(tick.item)' <=> Live(tick.item)
    BY <1>1, <1>7 DEF Live, simStored
  <2>5. PoliciesAt(born[tick.item])' = PoliciesAt(born[tick.item])
    BY <1>1, <1>7 DEF PoliciesAt, simStored
  <2>6. Cardinality(SimulatedOn(tick.item)) \in Nat
    BY VotesCounted
  <2>7. tick'.due >= 0 /\ Cardinality(SimulatedOn(tick.item)) + tick'.due + 1
                            = Cardinality(SimulatedOn(tick.item)) + tick.due
    BY <1>1, <1>2, <1>7, <2>6
  <2> QED  BY <1>7, <2>1, <2>2, <2>3, <2>4, <2>5, <2>7 DEF DueInv, Fits
<1>10. CountInv' /\ LatestInv'
  <2>1. Underway /\ tick.policy \in DOMAIN policies
    BY <1>1 DEF Underway, TickPlace
  <2> QED  BY <1>1, <1>4, <1>7, <2>1, BooksOne
<1> QED  BY <1>8, <1>9, <1>10 DEF TickInv

LEMMA TargetDoneKeeps == SimInv /\ TargetDone => TickInv'
<1> SUFFICES ASSUME SimInv, TargetDone PROVE TickInv'
  OBVIOUS
<1> USE DEF SimInv
<1>1. /\ UNCHANGED simStored /\ missed' = missed /\ tick.pc = "ordinals"
      /\ tick' = [tick EXCEPT !.pc = "active", !.item = None, !.policy = None,
                    !.held = {}, !.due = 0, !.selected = {}]
  BY DEF TargetDone, world, simStored
<1>2. /\ tick'.pc = "active" /\ tick'.queue = tick.queue /\ tick'.item = None
      /\ tick'.at = tick.at /\ tick'.tail = tick.tail /\ tick'.counted = tick.counted
      /\ tick'.hourly = tick.hourly /\ tick'.latest = tick.latest
      /\ tick' \in Ticks
  <2>1. tick \in Ticks /\ None \in Nat /\ 0 \in Int
    BY DEF TickShape, None
  <2>2. {} \in SUBSET (Personas \cup SimVisitors) /\ {} \in SUBSET Personas
    OBVIOUS
  <2>3. tick' \in Ticks
    BY <1>1, <2>1, <2>2 DEF Ticks, Places
  <2> QED  BY <1>1, <2>1, <2>3 DEF Ticks
<1>3. TickShape' /\ TickPlace'
  BY <1>1, <1>2 DEF TickShape, TickPlace, simStored
<1>4. DueInv'
  BY <1>2, NothingDue
<1>5. CountInv' /\ LatestInv'
  BY <1>1, <1>2, BooksKept DEF Underway
<1> QED  BY <1>3, <1>4, <1>5 DEF TickInv

\* A cast that inserts nothing: refused, or in shadow mode.
LEMMA NoCastKeeps == SimInv /\ (CastRefused \/ CastDry) => TickInv'
<1> SUFFICES ASSUME SimInv, CastRefused \/ CastDry PROVE TickInv'
  OBVIOUS
<1> USE DEF SimInv
<1>0. PICK fresh \in BOOLEAN :
        /\ UNCHANGED simStored /\ missed' = missed /\ tick.pc = "cast"
        /\ tick' = [tick EXCEPT !.pc = AfterCast, !.voter = None,
                      !.item = IF tick.tail = "none" THEN tick.item ELSE None,
                      !.used = tick.used + 1, !.fresh = fresh]
  <2>1. tick \in Ticks
    BY DEF TickShape
  <2>2. CASE CastRefused
    <3>1. tick' = [tick EXCEPT !.pc = AfterCast, !.voter = None,
                      !.item = IF tick.tail = "none" THEN tick.item ELSE None,
                      !.used = tick.used + 1, !.fresh = FALSE]
      BY <2>1, <2>2 DEF CastRefused, Ticks
    <3> QED  BY <2>2, <3>1 DEF CastRefused, world, simStored
  <2>3. CASE CastDry
    <3>1. tick' = [tick EXCEPT !.pc = AfterCast, !.voter = None,
                      !.item = IF tick.tail = "none" THEN tick.item ELSE None,
                      !.used = tick.used + 1, !.fresh = tick.fresh]
      BY <2>1, <2>3 DEF CastDry, Ticks
    <3>2. tick.fresh \in BOOLEAN
      BY <2>1 DEF Ticks
    <3> QED  BY <2>3, <3>1, <3>2 DEF CastDry, world, simStored
  <2> QED  BY <2>2, <2>3
<1>1. tick \in Ticks /\ tick.item \in Content /\ tick.policy \in DOMAIN policies
  BY <1>0 DEF TickShape, TickPlace
<1>2. /\ tick'.pc = IF tick.tail = "none" THEN "ordinals" ELSE "exposures"
      /\ tick'.item = IF tick.tail = "none" THEN tick.item ELSE None
      /\ tick'.queue = tick.queue /\ tick'.due = tick.due /\ tick'.policy = tick.policy
      /\ tick'.at = tick.at /\ tick'.tail = tick.tail /\ tick'.counted = tick.counted
      /\ tick'.hourly = tick.hourly /\ tick'.latest = tick.latest
      /\ tick' \in Ticks
  <2> DEFINE pc == AfterCast
             item == IF tick.tail = "none" THEN tick.item ELSE None
  <2>1. pc \in Places /\ item \in Content \cup {None} /\ tick.used + 1 \in Nat
    BY <1>1 DEF Ticks, Places, AfterCast
  <2>2. tick' = [tick EXCEPT !.pc = pc, !.voter = None, !.item = item,
                   !.used = tick.used + 1, !.fresh = fresh]
    BY <1>0
  <2>3. pc = IF tick.tail = "none" THEN "ordinals" ELSE "exposures"
    BY DEF AfterCast
  <2> HIDE DEF pc, item
  <2>4. tick' \in Ticks
    BY ONLY <1>1, <2>1, <2>2, fresh \in BOOLEAN, None \in Personas \cup SimVisitors \cup {None} DEF Ticks
  <2>5. tick'.pc = pc /\ tick'.item = item
    BY <1>1, <2>2 DEF Ticks
  <2> QED  BY <1>0, <1>1, <2>3, <2>4, <2>5 DEF Ticks, item
<1>3. TickShape' /\ TickPlace'
  BY <1>0, <1>1, <1>2 DEF TickShape, TickPlace, simStored
<1>4. DueInv'
  <2>1. CASE tick.tail # "none"
    BY <1>2, <2>1, NothingDue
  <2>2. CASE tick.tail = "none"
    <3>1. tick'.item = tick.item /\ tick'.pc = "ordinals"
      BY <1>2, <2>2
    <3>2. SimulatedOn(tick.item)' = SimulatedOn(tick.item)
      BY <1>0, <3>1 DEF SimulatedOn, simStored
    <3>3. sample_attention_budget(tick.policy, tick.item)' = sample_attention_budget(tick.policy, tick.item)
      BY <1>2, <3>1 DEF sample_attention_budget
    <3>4. PoliciesAt(born[tick.item])' = PoliciesAt(born[tick.item])
      BY <1>0, <3>1 DEF PoliciesAt, simStored
    <3>5. Live(tick.item)' <=> Live(tick.item)
      BY <1>0, <3>1 DEF Live, simStored
    <3>6. Live(tick.item) =>
            /\ tick.policy \in PoliciesAt(born[tick.item])
            /\ Cardinality(SimulatedOn(tick.item)) + tick.due + 1
                 <= sample_attention_budget(tick.policy, tick.item)
      BY <1>0, <2>2 DEF DueInv, Fits
    <3>7. /\ Cardinality(SimulatedOn(tick.item)) \in Nat /\ tick.due \in Int
          /\ Live(tick.item) => sample_attention_budget(tick.policy, tick.item) \in Nat
      BY <1>1, VotesCounted, DueWithinBudget DEF Ticks, StoreKept
    <3>8. Live(tick.item) => Cardinality(SimulatedOn(tick.item)) + tick.due
                               <= sample_attention_budget(tick.policy, tick.item)
      BY <3>6, <3>7
    <3> QED  BY <1>2, <2>2, <3>1, <3>2, <3>3, <3>4, <3>5, <3>6, <3>8 DEF DueInv, Fits
  <2> QED  BY <2>1, <2>2
<1>5. CountInv' /\ LatestInv'
  BY <1>0, <1>2, BooksKept DEF Underway
<1> QED  BY <1>3, <1>4, <1>5 DEF TickInv

\* A tick that is over, or was given up: only what it has counted remains.
LEMMA RestKeeps ==
  ASSUME SimInv, UNCHANGED simStored, NEW n \in Nat, tick' = [Idle EXCEPT !.pc = "summary", !.counted = n],
         missed' \in Int, n <= missed'
  PROVE  TickInv'
<1> USE DEF SimInv
<1>1. /\ tick'.pc = "summary" /\ tick'.at = 0 /\ tick'.item = None /\ tick'.queue = {}
      /\ tick'.counted = n /\ tick'.tail = "none" /\ tick' \in Ticks
  <2>1. Idle \in Ticks
    BY IdleIsTick
  <2>2. tick' \in Ticks
    BY <2>1 DEF Ticks, Places
  <2> QED  BY <2>1, <2>2 DEF Idle, Ticks
<1>2. TickShape' /\ TickPlace'
  BY <1>1 DEF TickShape, TickPlace, simStored, StoreKept
<1> QED  BY <1>1, <1>2, AtRest DEF TickInv

LEMMA IdleKeeps ==
  ASSUME SimInv, UNCHANGED simStored, tick' = Idle, missed' \in Int, 0 <= missed'
  PROVE  TickInv'
<1> USE DEF SimInv
<1>1. /\ tick'.pc = "idle" /\ tick'.at = 0 /\ tick'.item = None /\ tick'.queue = {}
      /\ tick'.counted = 0 /\ tick'.tail = "none" /\ tick' \in Ticks
  BY IdleIsTick DEF Idle
<1>2. TickShape' /\ TickPlace'
  BY <1>1 DEF TickShape, TickPlace, simStored, StoreKept
<1> QED  BY <1>1, <1>2, AtRest DEF TickInv

LEMMA TickEndsKeep ==
  SimInv /\ (TailDone \/ RecordSummary \/ TickFails \/ WorkerDies) => TickInv'
<1> SUFFICES ASSUME SimInv, TailDone \/ RecordSummary \/ TickFails \/ WorkerDies PROVE TickInv'
  OBVIOUS
<1>1. tick.counted \in Nat /\ missed \in Int /\ tick.counted <= missed
  BY DEF SimInv, TickShape, TickPlace, Ticks
<1>2. CASE TailDone
  BY <1>1, <1>2, RestKeeps DEF TailDone, Ended, world, simStored
<1>3. CASE RecordSummary
  <2>1. missed' \in Int /\ 0 <= missed'
    BY <1>1, <1>3 DEF RecordSummary
  <2> QED  BY <1>3, <2>1, IdleKeeps DEF RecordSummary, world, simStored
<1>4. CASE TickFails
  <2>1. missed' \in Int /\ 0 <= missed'
    BY <1>1, <1>4 DEF TickFails
  <2> QED  BY <1>4, <2>1, IdleKeeps DEF TickFails, world, simStored
<1>5. CASE WorkerDies
  <2>1. missed' \in Int /\ 0 <= missed'
    BY <1>1, <1>5 DEF WorkerDies
  <2> QED  BY <1>5, <2>1, IdleKeeps DEF WorkerDies, simStored
<1> QED  BY <1>2, <1>3, <1>4, <1>5

LEMMA ActiveDoneKeeps == SimInv /\ ActiveDone => TickInv'
<1> SUFFICES ASSUME SimInv, ActiveDone PROVE TickInv'
  OBVIOUS
<1> USE DEF SimInv
<1>1. PICK p : p = PolicyAt(tick.at)
  OBVIOUS
<1>2. /\ UNCHANGED simStored /\ missed' = missed /\ tick.pc = "active"
      /\ tick' = IF p = None THEN Ended ELSE [tick EXCEPT !.pc = "archive", !.policy = p]
  BY <1>1 DEF ActiveDone, world, simStored
<1>3. tick \in Ticks /\ tick.counted \in Nat /\ missed \in Int /\ tick.counted <= missed
  BY DEF TickShape, TickPlace, Ticks
<1>4. CASE p = None
  BY <1>2, <1>3, <1>4, RestKeeps DEF Ended
<1>5. CASE p # None
  <2>1. p \in DOMAIN policies /\ p \in Nat
    BY <1>1, <1>5, PolicyFound, SimAssumed DEF StoreKept
  <2>2. /\ tick'.pc = "archive" /\ tick'.policy = p /\ tick'.queue = tick.queue
        /\ tick'.item = tick.item /\ tick'.at = tick.at /\ tick'.tail = tick.tail
        /\ tick'.counted = tick.counted
        /\ tick'.hourly = tick.hourly /\ tick'.latest = tick.latest
        /\ tick' \in Ticks
    BY <1>2, <1>3, <1>5, <2>1 DEF Ticks, Places
  <2>3. TickShape' /\ TickPlace'
    BY <1>2, <2>1, <2>2 DEF TickShape, TickPlace, simStored
  <2>4. DueInv'
    BY <2>2, NothingDue
  <2>5. CountInv' /\ LatestInv'
    BY <1>2, <2>2, BooksKept DEF Underway
  <2> QED  BY <2>3, <2>4, <2>5 DEF TickInv
<1> QED  BY <1>4, <1>5

LEMMA ReadRevivalKeeps == SimInv /\ ReadRevival => TickInv'
<1> SUFFICES ASSUME SimInv, ReadRevival PROVE TickInv'
  OBVIOUS
<1> USE DEF SimInv
<1>1. PICK Q : Q = Revived(tick.at)
  OBVIOUS
<1>2. /\ UNCHANGED simStored /\ missed' = missed /\ tick.pc = "exposures"
      /\ tick' = [tick EXCEPT !.tail = "revival", !.queue = Q, !.fresh = TRUE]
  BY <1>1 DEF ReadRevival, world, simStored
<1>3. Q \subseteq Content /\ \A i \in Q : born[i] # 0
  BY <1>1 DEF Revived, Live, StoreKept
<1>4. /\ tick'.pc = "exposures" /\ tick'.queue = Q /\ tick'.item = tick.item
      /\ tick'.at = tick.at /\ tick'.tail = "revival" /\ tick'.counted = tick.counted
      /\ tick'.policy = tick.policy
      /\ tick'.hourly = tick.hourly /\ tick'.latest = tick.latest
      /\ tick' \in Ticks
  BY <1>2, <1>3 DEF TickShape, Ticks
<1>5. TickShape' /\ TickPlace'
  BY <1>2, <1>3, <1>4 DEF TickShape, TickPlace, simStored
<1>6. DueInv'
  BY <1>4, NothingDue
<1>7. CountInv' /\ LatestInv'
  BY <1>2, <1>4, BooksKept DEF Underway
<1> QED  BY <1>5, <1>6, <1>7 DEF TickInv

LEMMA ReadArchiveKeeps == SimInv /\ ReadArchive => TickInv'
<1> SUFFICES ASSUME SimInv, ReadArchive PROVE TickInv'
  OBVIOUS
<1> USE DEF SimInv
<1> DEFINE t == tick.at
<1>1. PICK Q, hourly, latest :
        /\ hourly = HourlyOf(t) /\ latest = LatestOf(t)
        /\ Q = LET c == Cadence[tick.policy] IN
               {i \in Content : /\ Live(i) /\ Thread[i] = i
                                /\ born[i] >= tick.at - c.tail
                                /\ born[i] < tick.at - (c.window + c.grace)}
  OBVIOUS
<1>2. /\ UNCHANGED simStored /\ missed' = missed /\ tick.pc = "archive"
      /\ tick' = [tick EXCEPT !.pc = "exposures", !.tail = "archive", !.fresh = TRUE,
                    !.hourly = hourly, !.latest = latest, !.queue = Q]
  BY <1>1 DEF ReadArchive, world, simStored
<1>3. Q \subseteq Content /\ \A i \in Q : born[i] # 0
  BY <1>1 DEF Live, StoreKept
<1>4. t \in Nat /\ tick \in Ticks
  BY DEF TickShape, Ticks
<1>5. /\ hourly \in [Personas -> Nat] /\ latest \in [Personas -> Int]
      /\ \A v \in Personas : Cardinality(RecentOf(v, t)) <= hourly[v]
      /\ \A v \in Personas : \A r \in SimulatedOf(v) : r.at <= latest[v] \/ r.at < t - AnHour
  BY <1>1, <1>4, CountsRead
<1>6. /\ tick'.pc = "exposures" /\ tick'.queue = Q /\ tick'.item = tick.item
      /\ tick'.at = t /\ tick'.tail = "archive" /\ tick'.counted = tick.counted
      /\ tick'.policy = tick.policy /\ tick'.hourly = hourly /\ tick'.latest = latest
      /\ tick' \in Ticks
  BY <1>2, <1>3, <1>4, <1>5 DEF Ticks, Places
<1>7. TickShape' /\ TickPlace'
  BY <1>2, <1>3, <1>6 DEF TickShape, TickPlace, simStored
<1>8. DueInv'
  BY <1>6, NothingDue
<1>9. /\ \A v : SimulatedOf(v)' = SimulatedOf(v)
      /\ \A v : RecentOf(v, tick.at)' = RecentOf(v, tick.at)
  BY <1>2, <1>6 DEF SimulatedOf, RecentOf, simStored
<1>10. CountInv'
  <2>1. \A v \in Personas : PendingOf(v)' = 0
    BY <1>6 DEF PendingOf
  <2>2. \A v \in Personas : Cardinality(RecentOf(v, t)) \in Nat
    BY VotesCounted
  <2>3. \A v \in Personas : Cardinality(RecentOf(v, t)) + 0 <= hourly[v]
    BY <1>5, <2>2
  <2>4. \A v \in Personas : Cardinality(RecentOf(v, tick.at)') + PendingOf(v)' <= tick'.hourly[v]
    BY <1>6, <1>9, <2>1, <2>3
  <2> QED  BY <1>6, <2>4 DEF CountInv
<1>11. LatestInv'
  <2>1. \A v \in Personas : \A r \in SimulatedOf(v) :
          r.at <= tick'.latest[v] \/ r.at < tick'.at - AnHour
    BY <1>5, <1>6
  <2> QED  BY <1>6, <1>9, <2>1 DEF LatestInv
<1> QED  BY <1>7, <1>8, <1>10, <1>11 DEF TickInv

LEMMA ExposeKeeps == SimInv /\ Expose => TickInv'
<1> SUFFICES ASSUME SimInv, Expose PROVE TickInv'
  OBVIOUS
<1> USE DEF SimInv
<1>1. /\ UNCHANGED simStored /\ missed' = missed /\ tick.pc = "exposures"
      /\ tick \in Ticks /\ tick.tail # "none" /\ tick.policy \in DOMAIN policies
  BY DEF Expose, world, simStored, TickShape, TickPlace
<1>2. PICK i \in tick.queue :
        \/ tick' = [tick EXCEPT !.queue = @ \ {i}]
        \/ /\ Exposable(i)
           /\ \E v \in Eligible(tick.policy, i, {}) \ VotersOn(i) :
                tick' = [Booked(v, i) EXCEPT !.queue = @ \ {i}]
  BY DEF Expose
<1>3. i \in Content /\ born[i] # 0 /\ tick.queue \ {i} \in SUBSET Content
  BY <1>1 DEF Ticks, TickPlace
<1>4. CASE tick' = [tick EXCEPT !.queue = @ \ {i}]
  <2>1. /\ tick'.pc = "exposures" /\ tick'.queue = tick.queue \ {i} /\ tick'.item = tick.item
        /\ tick'.at = tick.at /\ tick'.tail = tick.tail /\ tick'.counted = tick.counted
        /\ tick'.policy = tick.policy
        /\ tick'.hourly = tick.hourly /\ tick'.latest = tick.latest
        /\ tick' \in Ticks
    BY <1>1, <1>3, <1>4 DEF Ticks
  <2>2. TickShape' /\ TickPlace'
    BY <1>1, <2>1 DEF TickShape, TickPlace, simStored
  <2>3. DueInv'
    BY <2>1, NothingDue
  <2>4. CountInv' /\ LatestInv'
    BY <1>1, <2>1, BooksKept DEF Underway
  <2> QED  BY <2>2, <2>3, <2>4 DEF TickInv
<1>5. ASSUME Exposable(i), NEW v \in Eligible(tick.policy, i, {}),
             tick' = [Booked(v, i) EXCEPT !.queue = @ \ {i}]
      PROVE  TickInv'
  <2>1. /\ v \in Personas /\ tick.hourly[v] < Cadence[tick.policy].cap
        /\ tick.latest[v] < tick.at - Cadence[tick.policy].gap
    BY DEF Eligible
  <2>2. tick' = [tick EXCEPT !.pc = "cast", !.voter = v, !.item = i,
                   !.hourly = [tick.hourly EXCEPT ![v] = @ + 1],
                   !.latest = [tick.latest EXCEPT ![v] = tick.at],
                   !.decided = [tick.decided EXCEPT ![i] = @ + 1],
                   !.queue = tick.queue \ {i}]
    BY <1>1, <1>5 DEF Booked, Ticks
  <2>3. tick' \in Ticks
    <3>1. /\ [tick.hourly EXCEPT ![v] = @ + 1] \in [Personas -> Nat]
          /\ [tick.latest EXCEPT ![v] = tick.at] \in [Personas -> Int]
          /\ [tick.decided EXCEPT ![i] = @ + 1] \in [Content -> Nat]
      BY <1>1, <1>3, <2>1 DEF Ticks
    <3> QED  BY <1>1, <1>3, <2>1, <2>2, <3>1 DEF Ticks, Places
  <2>4. /\ tick'.pc = "cast" /\ tick'.voter = v /\ tick'.item = i /\ tick'.at = tick.at
        /\ tick'.policy = tick.policy /\ tick'.tail = tick.tail
        /\ tick'.queue = tick.queue \ {i} /\ tick'.counted = tick.counted
        /\ tick'.hourly = [tick.hourly EXCEPT ![v] = @ + 1]
        /\ tick'.latest = [tick.latest EXCEPT ![v] = tick.at]
    BY <1>1, <2>2 DEF Ticks
  <2>5. TickShape' /\ TickPlace'
    BY <1>1, <1>3, <2>1, <2>3, <2>4 DEF TickShape, TickPlace, simStored
  <2>6. DueInv'
    <3>1. SimulatedOn(tick.item)' = SimulatedOn(i)
      BY <1>1, <2>4 DEF SimulatedOn, simStored
    <3>2. SimulatedOn(i) = {}
      BY <1>5 DEF Exposable
    <3> QED  BY <1>1, <2>4, <3>1, <3>2 DEF DueInv
  <2>7. CountInv' /\ LatestInv'
    BY <1>1, <2>1, <2>4, BooksOne DEF Underway
  <2> QED  BY <2>5, <2>6, <2>7 DEF TickInv
<1> QED  BY <1>2, <1>4, <1>5

-----------------------------------------------------------------------------
(* Simulated voting: a vote lands *)

LEMMA FarIsFar ==
  ASSUME StoreKept, NEW n \in Int, NEW m \in Int, n <= m, FarApart(n)
  PROVE  FarApart(m)
<1>1. \A p \in DOMAIN policies : Cadence[p].gap \in Int
  BY SimAssumed DEF StoreKept
<1> QED  BY <1>1, SimAssumed DEF FarApart

LEMMA CastLandsKeeps == SimInv /\ CastLands => SimInv'
<1> SUFFICES ASSUME SimInv, CastLands PROVE SimInv'
  OBVIOUS
<1> USE DEF SimInv
<1>1. PICK v, i, p, at, new :
        /\ v = tick.voter /\ i = tick.item /\ p = tick.policy /\ at = tick.at
        /\ new = [voter |-> v, item |-> i, source |-> "simulated", at |-> clock]
  OBVIOUS
<1>2. /\ UNCHANGED <<clock, policies, draft, born>> /\ tick.pc = "cast"
      /\ Live(i) /\ v \notin VotersOn(i)
      /\ rows' = rows \cup {new} /\ missed' = missed + 1
      /\ tick' = [tick EXCEPT !.pc = AfterCast, !.voter = None,
                    !.item = IF tick.tail = "none" THEN @ ELSE None, !.used = @ + 1,
                    !.counted = @ + 1, !.fresh = FALSE]
  BY <1>1 DEF CastLands, world
<1>3. /\ tick \in Ticks /\ i \in Content /\ p \in DOMAIN policies /\ v \in Personas
      /\ p \in SimPolicies /\ ValidPolicy(Cadence[p]) /\ Cadence[p].cap \in Int
      /\ at \in Nat /\ at <= clock /\ clock \in Nat /\ tick.due \in Int
      /\ tick.counted \in Nat /\ missed \in Int /\ tick.counted <= missed
      /\ tick.hourly \in [Personas -> Nat] /\ tick.latest \in [Personas -> Int]
  BY <1>1, <1>2, SimAssumed DEF TickShape, TickPlace, StoreKept, Ticks
<1>4. new \notin rows /\ new.voter = v /\ new.item = i /\ new.source = "simulated" /\ new.at = clock
  BY <1>1, <1>2 DEF VotersOn
<1>5. /\ tick'.pc = IF tick.tail = "none" THEN "ordinals" ELSE "exposures"
      /\ tick'.item = IF tick.tail = "none" THEN i ELSE None
      /\ tick'.queue = tick.queue /\ tick'.due = tick.due /\ tick'.policy = p
      /\ tick'.at = at /\ tick'.tail = tick.tail /\ tick'.counted = tick.counted + 1
      /\ tick'.hourly = tick.hourly /\ tick'.latest = tick.latest
      /\ tick' \in Ticks
  <2> DEFINE pc == AfterCast
             item == IF tick.tail = "none" THEN tick.item ELSE None
             used == tick.used + 1
             counted == tick.counted + 1
  <2>1. pc \in Places /\ item \in Content \cup {None} /\ used \in Nat /\ counted \in Nat
    BY <1>1, <1>3 DEF Ticks, Places, AfterCast
  <2>2. tick' = [tick EXCEPT !.pc = pc, !.voter = None, !.item = item,
                   !.used = used, !.counted = counted, !.fresh = FALSE]
    BY <1>2, <1>3 DEF Ticks
  <2>3. pc = IF tick.tail = "none" THEN "ordinals" ELSE "exposures"
    BY DEF AfterCast
  <2> HIDE DEF pc, item, used, counted
  <2>4. tick' \in Ticks
    BY <1>3, <2>1, <2>2 DEF Ticks
  <2>5. tick'.pc = pc /\ tick'.item = item /\ tick'.counted = counted
    BY <1>3, <2>2 DEF Ticks
  <2> QED  BY <1>1, <1>2, <1>3, <2>2, <2>3, <2>4, <2>5 DEF Ticks, item, counted
<1>6. StoreKept'
  BY <1>2 DEF StoreKept
<1>7. RowsKept'
  <2>1. IsFiniteSet(rows')
    BY <1>2, FS_AddElement DEF RowsKept
  <2>2. /\ new \in [voter : Personas \cup SimVisitors, item : Content, source : Sources, at : Nat]
        /\ Live(new.item)' /\ new.at <= clock'
    BY <1>1, <1>2, <1>3 DEF Sources, Live
  <2>3. \A r \in rows :
          /\ r \in [voter : Personas \cup SimVisitors, item : Content, source : Sources, at : Nat]
          /\ Live(r.item)' /\ r.at <= clock'
    BY <1>2 DEF RowsKept, Live
  <2> QED  BY <1>2, <2>1, <2>2, <2>3 DEF RowsKept
<1>8. TickShape' /\ TickPlace'
  BY <1>2, <1>3, <1>5 DEF TickShape, TickPlace
<1>9. /\ \A j : SimulatedOn(j)' = IF j = i THEN SimulatedOn(j) \cup {new} ELSE SimulatedOn(j)
      /\ \A j : new \notin SimulatedOn(j)
  BY <1>2, <1>4 DEF SimulatedOn
<1>10. Cardinality(SimulatedOn(i))' = Cardinality(SimulatedOn(i)) + 1
  <2>1. IsFiniteSet(SimulatedOn(i)) /\ Cardinality(SimulatedOn(i) \cup {new}) = Cardinality(SimulatedOn(i)) + 1
    BY <1>9, VotesCounted, FS_AddElement
  <2> QED  BY <1>9, <2>1
<1> DEFINE n == Cardinality(SimulatedOn(i))
           m == sample_attention_budget(p, i)
<1>11. /\ tick.tail = "none" => p \in PoliciesAt(born[i]) /\ tick.due >= 0 /\ n + tick.due + 1 <= m
       /\ tick.tail # "none" => SimulatedOn(i) = {}
  BY <1>1, <1>2 DEF DueInv, Fits
<1>12. n \in Nat /\ m \in Nat
  BY <1>3, VotesCounted, DueWithinBudget
<1>13. AttentionInv'
  <2> SUFFICES ASSUME NEW j \in Content, Live(j)'
               PROVE  Under(Cardinality(SimulatedOn(j)), j)'
    BY DEF AttentionInv
  <2>1. Live(j) /\ PoliciesAt(born[j])' = PoliciesAt(born[j])
    BY <1>2 DEF Live, PoliciesAt
  <2>2. CASE j # i
    <3>1. Under(Cardinality(SimulatedOn(j)), j)
      BY <2>1 DEF AttentionInv
    <3>2. SimulatedOn(j)' = SimulatedOn(j)
      BY <1>9, <2>2
    <3> QED  BY <2>1, <3>1, <3>2 DEF Under, sample_attention_budget
  <2>3. CASE j = i
    <3>1. CASE tick.tail = "none"
      <4> HIDE DEF n, m
      <4>1. n + 1 <= m
        BY <1>3, <1>11, <1>12, <3>1
      <4>2. p \in PoliciesAt(born[i])' /\ n + 1 <= sample_attention_budget(p, i)
        BY <1>11, <2>1, <2>3, <3>1, <4>1 DEF m
      <4> QED  BY <1>10, <2>3, <4>2 DEF Under, sample_attention_budget, n
    <3>2. CASE tick.tail # "none"
      <4>1. n = 0
        BY <1>11, <3>2, FS_EmptySet
      <4>2. Cardinality(SimulatedOn(i))' = 1
        BY <1>10, <4>1
      <4> QED  BY <2>3, <4>2 DEF Under
    <3> QED  BY <3>1, <3>2
  <2> QED  BY <2>2, <2>3
<1>14. DueInv'
  <2>1. CASE tick.tail # "none"
    BY <1>5, <2>1, NothingDue
  <2>2. CASE tick.tail = "none"
    <3>1. tick'.item = i /\ tick'.pc = "ordinals" /\ tick'.policy = p /\ tick'.due = tick.due
      BY <1>5, <2>2
    <3>2. Cardinality(SimulatedOn(tick.item))' = n + 1
      BY <1>9, <1>10, <3>1 DEF SimulatedOn
    <3>3. sample_attention_budget(tick.policy, tick.item)' = m
      BY <3>1 DEF sample_attention_budget
    <3>4. (tick.policy \in PoliciesAt(born[tick.item]))'
      BY <1>2, <1>11, <2>2, <3>1 DEF PoliciesAt
    <3> HIDE DEF n, m
    <3>5. n + 1 + tick.due <= m
      BY <1>3, <1>11, <1>12, <2>2
    <3> QED  BY <3>1, <3>2, <3>3, <3>4, <3>5 DEF DueInv, Fits
  <2> QED  BY <2>1, <2>2
<1> HIDE DEF n, m
<1>15. /\ \A w : SimulatedOf(w)' = IF w = v THEN SimulatedOf(w) \cup {new} ELSE SimulatedOf(w)
       /\ \A w : new \notin SimulatedOf(w)
  BY <1>2, <1>4 DEF SimulatedOf
<1>16. \A w : RecentOf(w, at)' = IF w = v THEN RecentOf(w, at) \cup {new} ELSE RecentOf(w, at)
  <2>1. new.at >= at - AnHour
    BY <1>3, <1>4, SimAssumed
  <2> QED  BY <1>15, <2>1 DEF RecentOf
<1>17. \A w \in Personas :
         Cardinality(RecentOf(w, at))' = Cardinality(RecentOf(w, at)) + (IF w = v THEN 1 ELSE 0)
  <2>1. \A w : new \notin RecentOf(w, at)
    BY <1>15 DEF RecentOf
  <2>2. Cardinality(RecentOf(v, at) \cup {new}) = Cardinality(RecentOf(v, at)) + 1
    BY <2>1, VotesCounted, FS_AddElement
  <2>3. \A w : Cardinality(RecentOf(w, at)) \in Nat
    BY VotesCounted
  <2> QED  BY <1>16, <2>2, <2>3
<1>18. \A w \in Personas : Cardinality(RecentOf(w, at))' <= tick.hourly[w]
  <2>1. \A w \in Personas : /\ Cardinality(RecentOf(w, at)) + PendingOf(w) <= tick.hourly[w]
                            /\ PendingOf(w) = IF w = v THEN 1 ELSE 0
    BY <1>1, <1>2 DEF CountInv, Underway, PendingOf
  <2> QED  BY <1>17, <2>1
<1>24. /\ \A w \in Personas : /\ IsFiniteSet(RecentOf(w, at)')
                              /\ Cardinality(RecentOf(w, at)') \in Nat
       /\ \A w \in Personas : Cardinality(RecentOf(w, clock)') \in Nat
  <2>1. \A w \in Personas : RecentOf(w, at)' \in SUBSET rows' /\ RecentOf(w, clock)' \in SUBSET rows'
    BY DEF RecentOf, SimulatedOf
  <2>2. IsFiniteSet(rows')
    BY <1>7 DEF RowsKept
  <2> QED  BY <2>1, <2>2, FS_Subset, FS_CardinalityType
<1>19. CountInv'
  <2>1. \A w \in Personas : PendingOf(w)' = 0 /\ RecentOf(w, tick.at)' = RecentOf(w, at)'
    BY <1>5 DEF PendingOf, RecentOf
  <2>2. \A w \in Personas : Cardinality(RecentOf(w, at))' \in Nat
    BY <1>24
  <2>3. \A w \in Personas : Cardinality(RecentOf(w, at))' + 0 <= tick.hourly[w]
    BY <1>18, <2>2
  <2>4. \A w \in Personas : Cardinality(RecentOf(w, tick.at))' + PendingOf(w)' <= tick'.hourly[w]
    BY <1>5, <2>1, <2>3
  <2> QED  BY <1>5, <2>4 DEF CountInv
<1>20. HourInv'
  <2> SUFFICES ASSUME NEW w \in Personas, SimulatedOf(w)' # {}
               PROVE  \E q \in DOMAIN policies : Cardinality(RecentOf(w, clock))' <= Cadence[q].cap
    BY <1>2 DEF HourInv
  <2>1. CASE w = v
    <3>1. RecentOf(v, clock)' \in SUBSET RecentOf(v, at)'
      <4>1. \A r \in SimulatedOf(v)' : r.at \in Nat
        BY <1>7 DEF RowsKept, SimulatedOf
      <4> QED  BY <1>2, <1>3, <4>1, SimAssumed DEF RecentOf
    <3>2. IsFiniteSet(RecentOf(v, at)') /\ Cardinality(RecentOf(v, at)') \in Nat
      BY <1>3, <1>24
    <3>3. Cardinality(RecentOf(v, clock)') <= Cardinality(RecentOf(v, at)')
      BY <3>1, <3>2, FS_Subset
    <3>4. Cardinality(RecentOf(v, clock)') \in Nat
      BY <1>3, <1>24
    <3>5. tick.hourly[v] <= Cadence[p].cap
      BY <1>1, <1>2 DEF CountInv
    <3>6. Cardinality(RecentOf(v, clock)') <= Cadence[p].cap
      BY <1>3, <1>18, <3>2, <3>3, <3>4, <3>5
    <3> QED  BY <1>3, <2>1, <3>6
  <2>2. CASE w # v
    <3>1. SimulatedOf(w)' = SimulatedOf(w) /\ RecentOf(w, clock)' = RecentOf(w, clock)
      BY <1>2, <1>15, <2>2 DEF RecentOf
    <3> QED  BY <3>1 DEF HourInv
  <2> QED  BY <2>1, <2>2
<1>21. /\ at <= tick.latest[v]
       /\ \A r \in SimulatedOf(v) : FarApart(at - r.at)
       /\ \A w \in Personas : \A r \in SimulatedOf(w) :
            r.at <= tick.latest[w] \/ r.at < at - AnHour \/ at <= tick.latest[w]
  BY <1>1, <1>2 DEF LatestInv, Underway
<1>22. LatestInv'
  <2>1. \A w \in Personas : \A r \in SimulatedOf(w)' :
          r.at <= tick'.latest[w] \/ r.at < tick'.at - AnHour \/ tick'.at <= tick'.latest[w]
    BY <1>5, <1>15, <1>21
  <2> QED  BY <1>5, <2>1 DEF LatestInv
<1>23. GapInv'
  <2>1. \A x : FarApart(x)' <=> FarApart(x)
    BY <1>2 DEF FarApart
  <2>2. \A s \in SimulatedOf(v) : FarApart(new.at - s.at)
    <3> SUFFICES ASSUME NEW s \in SimulatedOf(v) PROVE FarApart(new.at - s.at)
      OBVIOUS
    <3>1. s.at \in Nat
      BY DEF RowsKept, SimulatedOf
    <3>2. at - s.at \in Int /\ new.at - s.at \in Int /\ at - s.at <= new.at - s.at
      BY <1>3, <1>4, <3>1
    <3> QED  BY <1>21, <3>2, FarIsFar
  <2>3. \A w \in Personas : \A r, s \in SimulatedOf(w) :
          r # s => FarApart(r.at - s.at) \/ FarApart(s.at - r.at)
    BY DEF GapInv
  <2>4. \A w \in Personas : \A r, s \in SimulatedOf(w)' :
          r # s => FarApart(r.at - s.at) \/ FarApart(s.at - r.at)
    BY <1>15, <2>2, <2>3
  <2> QED  BY <2>1, <2>4 DEF GapInv
<1> QED  BY <1>6, <1>7, <1>8, <1>13, <1>14, <1>19, <1>20, <1>22, <1>23

-----------------------------------------------------------------------------
(* Simulated voting: what happens beside the tick *)

\* Whatever visitors, administrators and seeding do, no simulated vote
\* appears, no item is born again, no policy goes or changes.
BesideTick ==
  /\ UNCHANGED <<tick, missed>> /\ clock <= clock'
  /\ \A p \in DOMAIN policies : p \in DOMAIN policies' /\ policies'[p] = policies[p]
  /\ \A r \in rows' : r.source = "simulated" => r \in rows
  /\ \A i \in Content : born[i] # 0 => /\ born'[i] # 0
                                       /\ born'[i] > 0 => born'[i] = born[i]

\* Then there are no more simulated votes of anything than before.
LEMMA FewerVotes ==
  ASSUME SimInv, RowsKept', StoreKept', BesideTick
  PROVE  /\ \A i : SimulatedOn(i)' \subseteq SimulatedOn(i)
         /\ \A i : /\ Cardinality(SimulatedOn(i))' \in Nat
                   /\ Cardinality(SimulatedOn(i))' <= Cardinality(SimulatedOn(i))
         /\ \A v : SimulatedOf(v)' \subseteq SimulatedOf(v)
         /\ \A v, t : /\ Cardinality(RecentOf(v, t))' \in Nat
                      /\ Cardinality(RecentOf(v, t))' <= Cardinality(RecentOf(v, t))
         /\ \A v : /\ Cardinality(RecentOf(v, clock))' \in Nat
                   /\ Cardinality(RecentOf(v, clock))' <= Cardinality(RecentOf(v, clock))
<1>1. RowsKept /\ StoreKept
  BY DEF SimInv
<1>2. \A r \in rows' : r.source = "simulated" => r \in rows
  BY DEF BesideTick
<1>3. /\ \A i : SimulatedOn(i)' \in SUBSET SimulatedOn(i)
      /\ \A v : SimulatedOf(v)' \in SUBSET SimulatedOf(v)
  BY <1>2 DEF SimulatedOn, SimulatedOf
<1>4. \A v, t : RecentOf(v, t)' \in SUBSET RecentOf(v, t)
  BY <1>3 DEF RecentOf
<1>5. \A v : RecentOf(v, clock)' \in SUBSET RecentOf(v, clock)
  <2>1. clock \in Nat /\ clock' \in Nat /\ clock <= clock' /\ AnHour \in Nat
    BY <1>1, SimAssumed DEF StoreKept, BesideTick
  <2>2. \A v : \A r \in SimulatedOf(v) : r.at \in Nat
    BY <1>1 DEF RowsKept, SimulatedOf
  <2>3. \A n \in Nat : n >= clock' - AnHour => n >= clock - AnHour
    <3>1. PICK c \in Nat, d \in Nat, h \in Nat : c = clock /\ d = clock' /\ h = AnHour /\ c <= d
      BY <2>1
    <3>2. ASSUME NEW n \in Nat, n >= d - h PROVE n >= c - h
      <4>1. c \in Int /\ d \in Int /\ h \in Int /\ c <= d /\ n \in Int
        BY <3>1
      <4>2. c - h <= d - h /\ c - h \in Int /\ d - h \in Int
        BY <4>1
      <4> QED  BY <3>2, <4>1, <4>2
    <3> QED  BY <3>1, <3>2
  <2> QED  BY <1>3, <2>2, <2>3 DEF RecentOf
<1>6. /\ \A i : IsFiniteSet(SimulatedOn(i)) /\ Cardinality(SimulatedOn(i)) \in Nat
      /\ \A v, t : IsFiniteSet(RecentOf(v, t)) /\ Cardinality(RecentOf(v, t)) \in Nat
  BY <1>1, VotesCounted
<1>7. \A i : /\ Cardinality(SimulatedOn(i)') \in Nat
             /\ Cardinality(SimulatedOn(i)') <= Cardinality(SimulatedOn(i))
  BY <1>3, <1>6, FS_Subset, FS_CardinalityType
<1>8. \A v, t : /\ Cardinality(RecentOf(v, t)') \in Nat
                /\ Cardinality(RecentOf(v, t)') <= Cardinality(RecentOf(v, t))
  BY <1>4, <1>6, FS_Subset, FS_CardinalityType
<1>9. \A v : /\ Cardinality(RecentOf(v, clock)') \in Nat
             /\ Cardinality(RecentOf(v, clock)') <= Cardinality(RecentOf(v, clock))
  BY <1>5, <1>6, FS_Subset, FS_CardinalityType
<1> QED  BY <1>3, <1>7, <1>8, <1>9

LEMMA BesideTickKeeps ==
  ASSUME SimInv, RowsKept', StoreKept', BesideTick
  PROVE  SimInv'
<1> USE DEF SimInv
<1>1. /\ tick' = tick /\ missed' = missed /\ clock \in Nat /\ clock' \in Nat /\ clock <= clock'
      /\ \A p \in DOMAIN policies : p \in DOMAIN policies' /\ policies'[p] = policies[p]
      /\ \A i \in Content : born[i] # 0 => born'[i] # 0 /\ (born'[i] > 0 => born'[i] = born[i])
  BY DEF BesideTick, StoreKept
<1>2. /\ \A i : SimulatedOn(i)' \subseteq SimulatedOn(i)
      /\ \A i : /\ Cardinality(SimulatedOn(i))' \in Nat
                /\ Cardinality(SimulatedOn(i))' <= Cardinality(SimulatedOn(i))
      /\ \A v : SimulatedOf(v)' \subseteq SimulatedOf(v)
      /\ \A v, t : /\ Cardinality(RecentOf(v, t))' \in Nat
                   /\ Cardinality(RecentOf(v, t))' <= Cardinality(RecentOf(v, t))
      /\ \A v : /\ Cardinality(RecentOf(v, clock))' \in Nat
                /\ Cardinality(RecentOf(v, clock))' <= Cardinality(RecentOf(v, clock))
  BY FewerVotes
<1>3. /\ \A i : Cardinality(SimulatedOn(i)) \in Nat
      /\ \A v, t : Cardinality(RecentOf(v, t)) \in Nat
  BY VotesCounted
<1>4. /\ tick \in Ticks /\ tick.at \in Nat /\ tick.at <= clock /\ tick.due \in Int
      /\ tick.hourly \in [Personas -> Nat] /\ tick.item \in Content \cup {None}
      /\ tick.queue \subseteq Content
  BY DEF TickShape, Ticks
<1>5. TickShape' /\ TickPlace'
  <2>1. tick'.at <= clock'
    BY <1>1, <1>4
  <2>2. TickShape'
    BY <1>1, <2>1 DEF TickShape
  <2> QED  BY <1>1, <1>4, <2>2 DEF TickPlace
<1>6. \A t : PoliciesAt(t) \subseteq PoliciesAt(t)'
  BY <1>1 DEF PoliciesAt
<1>7. \A i \in Content : Live(i)' => (Live(i) /\ born'[i] = born[i]) \/ born[i] = 0
  BY <1>1 DEF Live
<1>8. AttentionInv'
  <2> SUFFICES ASSUME NEW i \in Content, Live(i)'
               PROVE  Under(Cardinality(SimulatedOn(i)), i)'
    BY DEF AttentionInv
  <2>1. CASE born[i] = 0
    <3>1. SimulatedOn(i) = {}
      BY <2>1 DEF SimulatedOn, RowsKept, Live
    <3>2. SimulatedOn(i)' = {}
      BY <1>2, <3>1
    <3>3. Cardinality(SimulatedOn(i))' <= 1
      BY <3>2, FS_EmptySet
    <3> QED  BY <3>3 DEF Under
  <2>2. CASE Live(i) /\ born'[i] = born[i]
    <3>1. PICK n \in Nat, m \in Nat :
            n = Cardinality(SimulatedOn(i)) /\ m = Cardinality(SimulatedOn(i))' /\ m <= n
      BY <1>2, <1>3
    <3>2. CASE n <= 1
      BY <3>1, <3>2 DEF Under
    <3>3. CASE ~ (n <= 1)
      <4>1. PICK p \in PoliciesAt(born[i]) : n <= sample_attention_budget(p, i)
        BY <2>2, <3>1, <3>3 DEF AttentionInv, Under
      <4>2. sample_attention_budget(p, i) \in Nat
        BY <4>1, DueWithinBudget DEF StoreKept, PoliciesAt
      <4>3. m <= sample_attention_budget(p, i)
        BY <3>1, <4>1, <4>2
      <4>4. p \in PoliciesAt(born[i])'
        BY <1>6, <2>2, <4>1 DEF PoliciesAt
      <4> QED  BY <3>1, <4>3, <4>4 DEF Under, sample_attention_budget
    <3> QED  BY <3>2, <3>3
  <2> QED  BY <1>7, <2>1, <2>2
<1>9. DueInv'
  <2>1. CASE ~ (tick.pc \in {"ordinals", "cast"} /\ Live(tick.item)')
    BY <1>1, <2>1 DEF DueInv, Live
  <2>2. CASE tick.pc \in {"ordinals", "cast"} /\ Live(tick.item)'
    <3>1. PICK i, p : i = tick.item /\ p = tick.policy
      OBVIOUS
    <3>2. /\ i \in Content /\ born[i] # 0 /\ Live(i) /\ p \in DOMAIN policies /\ born'[i] = born[i]
      BY <1>1, <1>4, <1>7, <2>2, <3>1, SimAssumed DEF TickPlace, None, Live
    <3>3. sample_attention_budget(p, i) \in Nat
      BY <3>2, DueWithinBudget DEF StoreKept
    <3>4. PICK n \in Nat, m \in Nat, b \in Nat :
            /\ n = Cardinality(SimulatedOn(i)) /\ m = Cardinality(SimulatedOn(i))' /\ m <= n
            /\ b = sample_attention_budget(p, i)
      BY <1>2, <1>3, <3>3
    <3>5. p \in PoliciesAt(born[i]) => p \in PoliciesAt(born[i])'
      BY <1>6, <3>2 DEF PoliciesAt
    <3>6. SimulatedOn(i) = {} => SimulatedOn(i)' = {}
      BY <1>2
    <3>7. /\ tick.tail = "none" => p \in PoliciesAt(born[i])
          /\ tick.pc = "ordinals" /\ tick.due > 0 => n + tick.due <= b
          /\ tick.pc = "cast" /\ tick.tail = "none" => tick.due >= 0 /\ n + tick.due + 1 <= b
          /\ tick.pc = "cast" /\ tick.tail # "none" => SimulatedOn(i) = {}
      BY <2>2, <3>1, <3>2, <3>4 DEF DueInv, Fits
    <3>8. /\ tick.tail = "none" => p \in PoliciesAt(born[i])'
          /\ tick.pc = "ordinals" /\ tick.due > 0 => m + tick.due <= b
          /\ tick.pc = "cast" /\ tick.tail = "none" => tick.due >= 0 /\ m + tick.due + 1 <= b
          /\ tick.pc = "cast" /\ tick.tail # "none" => SimulatedOn(i)' = {}
      <4>1. n + tick.due <= b => m + tick.due <= b
        BY <1>4, <3>4
      <4>2. n + tick.due + 1 <= b => m + tick.due + 1 <= b
        BY <1>4, <3>4
      <4> QED  BY <3>5, <3>6, <3>7, <4>1, <4>2
    <3>9. /\ tick'.pc = tick.pc /\ tick'.tail = tick.tail /\ tick'.due = tick.due
          /\ tick'.item = i /\ tick'.policy = p
      BY <1>1, <3>1
    <3>10. Fits(m)' <=> m <= b
      BY <3>4, <3>9 DEF Fits, sample_attention_budget
    <3>11. /\ \A k : Fits(k)' <=> k <= b
           /\ PoliciesAt(born[tick.item])' = PoliciesAt(born[i])'
           /\ SimulatedOn(tick.item)' = SimulatedOn(i)'
      BY <3>4, <3>9 DEF Fits, sample_attention_budget, PoliciesAt, SimulatedOn
    <3> QED  BY <3>4, <3>8, <3>9, <3>11 DEF DueInv
  <2> QED  BY <2>1, <2>2
<1>10. \A n : FarApart(n) => FarApart(n)'
  BY <1>1 DEF FarApart
<1>11. CountInv'
  <2>1. ASSUME Underway', NEW v \in Personas
        PROVE  Cardinality(RecentOf(v, tick.at))' + PendingOf(v)' <= tick'.hourly[v]
    <3>1. /\ Cardinality(RecentOf(v, tick.at)) + PendingOf(v) <= tick.hourly[v]
          /\ PendingOf(v)' = PendingOf(v) /\ PendingOf(v) \in Nat
      BY <1>1, <2>1 DEF CountInv, Underway, PendingOf
    <3>2. RecentOf(v, tick.at)' = {r \in SimulatedOf(v)' : r.at >= tick.at - AnHour}
      BY <1>1 DEF RecentOf
    <3>3. PICK t : t = tick.at
      OBVIOUS
    <3>4. RecentOf(v, tick.at)' = RecentOf(v, t)' /\ RecentOf(v, tick.at) = RecentOf(v, t)
      BY <1>1, <3>3 DEF RecentOf
    <3>5. /\ Cardinality(RecentOf(v, t))' \in Nat /\ Cardinality(RecentOf(v, t)) \in Nat
          /\ Cardinality(RecentOf(v, t))' <= Cardinality(RecentOf(v, t))
      BY <1>2, <1>3
    <3>6. tick'.hourly[v] = tick.hourly[v] /\ tick.hourly[v] \in Nat
      BY <1>1, <1>4
    <3> QED  BY <3>1, <3>4, <3>5, <3>6
  <2>2. tick'.pc = "cast" => tick'.hourly[tick'.voter] <= Cadence[tick'.policy].cap
    BY <1>1 DEF CountInv
  <2> QED  BY <2>1, <2>2 DEF CountInv
<1>12. HourInv'
  <2> SUFFICES ASSUME NEW v \in Personas, SimulatedOf(v)' # {}
               PROVE  (\E p \in DOMAIN policies : Cardinality(RecentOf(v, clock)) <= Cadence[p].cap)'
    BY DEF HourInv
  <2>1. SimulatedOf(v) # {}
    BY <1>2
  <2>2. PICK p \in DOMAIN policies : Cardinality(RecentOf(v, clock)) <= Cadence[p].cap
    BY <2>1 DEF HourInv
  <2>3. Cadence[p].cap \in Int /\ p \in DOMAIN policies'
    BY <1>1, SimAssumed DEF StoreKept
  <2>4. Cardinality(RecentOf(v, clock))' <= Cadence[p].cap
    BY <1>2, <1>3, <2>2, <2>3
  <2> QED  BY <2>3, <2>4
<1>13. LatestInv'
  <2>1. ASSUME Underway', NEW v \in Personas, NEW r \in SimulatedOf(v)'
        PROVE  r.at <= tick'.latest[v] \/ r.at < tick'.at - AnHour \/ tick'.at <= tick'.latest[v]
    BY <1>1, <1>2, <2>1 DEF LatestInv, Underway
  <2>2. ASSUME tick'.pc = "cast"
        PROVE  /\ tick'.at <= tick'.latest[tick'.voter]
               /\ \A r \in SimulatedOf(tick.voter)' : FarApart(tick.at - r.at)'
    <3>1. PICK v, at : v = tick.voter /\ at = tick.at
      OBVIOUS
    <3>2. /\ at <= tick.latest[v]
          /\ \A r \in SimulatedOf(v) : FarApart(at - r.at)
      BY <1>1, <2>2, <3>1 DEF LatestInv
    <3>3. \A r \in SimulatedOf(v)' : FarApart(at - r.at)'
      BY <1>2, <1>10, <3>2
    <3>4. SimulatedOf(tick.voter)' = SimulatedOf(v)'
      BY <1>1, <3>1 DEF SimulatedOf
    <3>5. \A r : FarApart(tick.at - r.at)' <=> FarApart(at - r.at)'
      BY <1>1, <3>1 DEF FarApart
    <3> QED  BY <1>1, <3>1, <3>2, <3>3, <3>4, <3>5
  <2> QED  BY <2>1, <2>2 DEF LatestInv
<1>14. GapInv'
  BY <1>2, <1>10 DEF GapInv
<1> QED  BY <1>5, <1>8, <1>9, <1>11, <1>12, <1>13, <1>14

\* The image of a finite set is finite.
LEMMA FiniteImage ==
  ASSUME NEW S, IsFiniteSet(S), NEW f, DOMAIN f = S
  PROVE  IsFiniteSet({f[x] : x \in S})
<1> DEFINE g == [x \in S |-> f[x]]
           T == {f[x] : x \in S}
<1>1. g \in [S -> T] /\ \A t \in T : \E x \in S : g[x] = t
  OBVIOUS
<1>2. g \in Surjection(S, T)
  <2> HIDE DEF g, T
  <2> QED  BY <1>1 DEF Surjection
<1>3. IsFiniteSet(T)
  <2> HIDE DEF g, T
  <2> QED  BY <1>2, FS_Surjection
<1> QED  BY <1>3

\* A vote of a persona or a visitor, as the table holds it.
LEMMA RowHolds ==
  ASSUME NEW v \in Personas \cup SimVisitors, NEW i \in Content, NEW s \in Sources, NEW t \in Nat
  PROVE  [voter |-> v, item |-> i, source |-> s, at |-> t]
           \in [voter : Personas \cup SimVisitors, item : Content, source : Sources, at : Nat]
OBVIOUS

LEMMA DeleteContentKeeps ==
  ASSUME SimInv, NEW i \in Content, DeleteContent(i)
  PROVE  SimInv'
<1>1. PICK lost \in SUBSET Content :
        /\ \A k \in lost : Live(k)
        /\ born' = [k \in Content |-> IF k \in lost THEN -1 ELSE born[k]]
        /\ rows' = {r \in rows : r.item \notin lost}
  BY DEF DeleteContent
<1>2. UNCHANGED <<clock, mode, policies, draft, tick, missed>>
  BY DEF DeleteContent
<1>3. RowsKept /\ StoreKept
  BY DEF SimInv
<1>4. RowsKept'
  <2>1. IsFiniteSet(rows')
    BY <1>1, <1>3, FS_Subset DEF RowsKept
  <2>2. \A r \in rows' : r \in rows /\ r.item \in Content /\ r.item \notin lost
    BY <1>1, <1>3 DEF RowsKept
  <2> QED  BY <1>1, <1>2, <1>3, <2>1, <2>2 DEF RowsKept, Live
<1>5. StoreKept'
  BY <1>1, <1>2, <1>3 DEF StoreKept
<1>6. BesideTick
  BY <1>1, <1>2, <1>3 DEF BesideTick, StoreKept, Live
<1> QED  BY <1>4, <1>5, <1>6, BesideTickKeeps

LEMMA CreateKeeps ==
  ASSUME SimInv, NEW i \in Content, NEW b \in SUBSET Backers, Create(i, b)
  PROVE  SimInv'
<1> DEFINE row(v) == [voter |-> v, item |-> i, source |-> "backfill", at |-> clock]
           new == {row(v) : v \in b}
<1>1. /\ born[i] = 0 /\ born' = [born EXCEPT ![i] = clock] /\ rows' = rows \cup new
      /\ UNCHANGED <<clock, mode, policies, draft, tick, missed, mishaps>>
  BY DEF Create
<1>2. RowsKept /\ StoreKept /\ clock \in Nat \ {0} /\ born \in [Content -> Int]
  BY DEF SimInv, StoreKept
<1>3. IsFiniteSet(new)
  <2>1. IsFiniteSet(b)
    BY SimulatedAssumption, FS_Subset
  <2>2. PICK f : f = [v \in b |-> row(v)]
    OBVIOUS
  <2>3. new = {f[v] : v \in b} /\ DOMAIN f = b
    BY <2>2
  <2> HIDE DEF row, new
  <2> QED  BY <2>1, <2>3, FiniteImage
<1>4. \A r \in new : /\ r \in [voter : Personas \cup SimVisitors, item : Content, source : Sources, at : Nat]
                     /\ r.item = i /\ r.at = clock /\ r.source = "backfill"
  <2>1. \A v \in b : v \in Personas \cup SimVisitors
    BY SimAssumed
  <2>2. "backfill" \in Sources /\ clock \in Nat
    BY <1>2 DEF Sources
  <2>3. \A v \in b : row(v) \in [voter : Personas \cup SimVisitors, item : Content, source : Sources, at : Nat]
    BY <2>1, <2>2, RowHolds
  <2>4. \A v \in b : row(v).item = i /\ row(v).at = clock /\ row(v).source = "backfill"
    OBVIOUS
  <2> HIDE DEF row
  <2> QED  BY <2>3, <2>4
<1> HIDE DEF new
<1>5. RowsKept'
  <2>1. IsFiniteSet(rows')
    BY <1>1, <1>2, <1>3, FS_Union DEF RowsKept
  <2>2. \A r \in rows : born'[r.item] = born[r.item] /\ r.item # i
    BY <1>1, <1>2 DEF RowsKept, Live
  <2>3. born'[i] = clock /\ clock' = clock /\ clock > 0
    BY <1>1, <1>2
  <2> QED  BY <1>1, <1>2, <1>4, <2>1, <2>2, <2>3 DEF RowsKept, Live
<1>6. StoreKept'
  BY <1>1, <1>2 DEF StoreKept
<1>7. BesideTick
  BY <1>1, <1>2, <1>4 DEF BesideTick
<1> QED  BY <1>5, <1>6, <1>7, BesideTickKeeps

LEMMA VisitorKeeps ==
  ASSUME SimInv, NEW i \in Content, NEW v \in SimVisitors, VisitorVotes(v, i) \/ VisitorClears(v, i)
  PROVE  SimInv'
<1>1. RowsKept /\ StoreKept /\ clock \in Nat
  BY DEF SimInv, StoreKept
<1>2. UNCHANGED <<clock, mode, policies, draft, born, tick, missed>>
  BY DEF VisitorVotes, VisitorClears
<1>3. StoreKept'
  BY <1>1, <1>2 DEF StoreKept
<1>4. CASE VisitorVotes(v, i)
  <2>1. PICK new : /\ new = [voter |-> v, item |-> i, source |-> "human", at |-> clock]
                   /\ rows' = rows \cup {new} /\ Live(i)
    BY <1>4 DEF VisitorVotes
  <2>2. /\ new \in [voter : Personas \cup SimVisitors, item : Content, source : Sources, at : Nat]
        /\ new.item = i /\ new.at = clock /\ new.source = "human"
    BY <1>1, <2>1, RowHolds DEF Sources
  <2>3. RowsKept'
    <3>1. IsFiniteSet(rows')
      BY <1>1, <2>1, FS_AddElement DEF RowsKept
    <3> QED  BY <1>1, <1>2, <2>1, <2>2, <3>1 DEF RowsKept, Live
  <2>4. BesideTick
    BY <1>1, <1>2, <2>1, <2>2 DEF BesideTick
  <2> QED  BY <1>3, <2>3, <2>4, BesideTickKeeps
<1>5. CASE VisitorClears(v, i)
  <2>1. rows' \in SUBSET rows
    BY <1>5 DEF VisitorClears
  <2>2. RowsKept'
    BY <1>1, <1>2, <2>1, FS_Subset DEF RowsKept, Live
  <2>3. BesideTick
    BY <1>1, <1>2, <2>1 DEF BesideTick
  <2> QED  BY <1>3, <2>2, <2>3, BesideTickKeeps
<1> QED  BY <1>4, <1>5

LEMMA OfficeKeeps ==
  ASSUME SimInv,
         \/ \E m \in {"off", "shadow", "live"} : SetMode(m)
         \/ \E p \in SimPolicies : StampPolicy(p)
         \/ CommitPolicy
         \/ ClockTicks
  PROVE  SimInv'
<1>1. RowsKept /\ StoreKept /\ clock \in Nat \ {0}
  BY DEF SimInv, StoreKept
<1>2. UNCHANGED <<born, rows, tick, missed>> /\ clock' \in Nat \ {0} /\ clock <= clock'
  BY <1>1 DEF SetMode, StampPolicy, CommitPolicy, ClockTicks
<1>3. RowsKept'
  BY <1>1, <1>2 DEF RowsKept, Live
<1>4. StoreKept' /\ \A p \in DOMAIN policies : p \in DOMAIN policies' /\ policies'[p] = policies[p]
  <2>1. CASE CommitPolicy
    <3>1. PICK p, t : p = draft[1] /\ t = draft[2]
      OBVIOUS
    <3>2. /\ policies' = [q \in DOMAIN policies \cup {p} |-> IF q = p THEN t ELSE policies[q]]
          /\ draft' = << >> /\ clock' = clock
          /\ p \in SimPolicies \ DOMAIN policies /\ ValidPolicy(Cadence[p]) /\ t \in 1..clock
      BY <1>1, <2>1, <3>1 DEF CommitPolicy, StoreKept
    <3> QED  BY <1>1, <1>2, <3>2 DEF StoreKept
  <2>2. CASE ClockTicks
    <3>1. UNCHANGED <<policies, draft, born>> /\ 1..clock \subseteq 1..clock'
      BY <1>1, <1>2, <2>2 DEF ClockTicks
    <3> QED  BY <1>1, <1>2, <3>1 DEF StoreKept
  <2>3. CASE \E p \in SimPolicies : StampPolicy(p)
    <3>1. PICK p \in SimPolicies : StampPolicy(p)
      BY <2>3
    <3>2. /\ draft'[1] = p /\ draft'[2] = clock /\ p \in SimPolicies \ DOMAIN policies
          /\ ValidPolicy(Cadence[p]) /\ clock \in 1..clock
          /\ UNCHANGED <<policies, born, clock>>
      BY <1>1, <3>1 DEF StampPolicy
    <3> QED  BY <1>1, <3>2 DEF StoreKept
  <2>4. CASE \E m \in {"off", "shadow", "live"} : SetMode(m)
    BY <1>1, <2>4 DEF SetMode, StoreKept
  <2> QED  BY <2>1, <2>2, <2>3, <2>4
<1>5. BesideTick
  BY <1>1, <1>2, <1>4 DEF BesideTick
<1> QED  BY <1>3, <1>4, <1>5, BesideTickKeeps

-----------------------------------------------------------------------------
(* Simulated voting: the theorems *)

LEMMA SimInvStep == SimInv /\ [SimNext]_simVars => SimInv'
<1> SUFFICES ASSUME SimInv, [SimNext]_simVars PROVE SimInv'
  OBVIOUS
<1>1. ASSUME TickInv', UNCHANGED simStored PROVE SimInv'
  BY <1>1, StoredKept DEF SimInv, TickInv
<1>2. CASE CastLands
  BY <1>2, CastLandsKeeps
<1>3. CASE BeginTick \/ ReadTargets \/ Examine \/ SelectVoter \/ TargetDone
  <2>1. UNCHANGED simStored
    BY <1>3 DEF BeginTick, ReadTargets, Examine, SelectVoter, TargetDone, world, simStored
  <2> QED  BY <1>1, <1>3, <2>1, BeginTickKeeps, ReadTargetsKeeps, ExamineKeeps, SelectVoterKeeps,
              TargetDoneKeeps
<1>4. CASE CastRefused \/ CastDry \/ ActiveDone \/ ReadArchive \/ ReadRevival \/ Expose
  <2>1. UNCHANGED simStored
    BY <1>4 DEF CastRefused, CastDry, ActiveDone, ReadArchive, ReadRevival, Expose, world, simStored
  <2> QED  BY <1>1, <1>4, <2>1, NoCastKeeps, ActiveDoneKeeps, ReadArchiveKeeps, ReadRevivalKeeps,
              ExposeKeeps
<1>5. CASE TailDone \/ RecordSummary \/ TickFails \/ WorkerDies
  <2>1. UNCHANGED simStored
    BY <1>5 DEF TailDone, RecordSummary, TickFails, WorkerDies, world, simStored
  <2> QED  BY <1>1, <1>5, <2>1, TickEndsKeep
<1>6. CASE \E i \in Content : DeleteContent(i)
  BY <1>6, DeleteContentKeeps
<1>7. CASE \E i \in Content, b \in SUBSET Backers : Create(i, b)
  BY <1>7, CreateKeeps
<1>8. CASE \E i \in Content, v \in SimVisitors : VisitorVotes(v, i) \/ VisitorClears(v, i)
  BY <1>8, VisitorKeeps
<1>9. CASE \/ \E m \in {"off", "shadow", "live"} : SetMode(m)
           \/ \E p \in SimPolicies : StampPolicy(p)
           \/ CommitPolicy
           \/ ClockTicks
  BY <1>9, OfficeKeeps
<1>10. CASE UNCHANGED simVars
  <2>1. UNCHANGED simStored /\ tick' = tick /\ missed' = missed
    BY <1>10 DEF simVars, simStored
  <2>2. RowsKept' /\ StoreKept' /\ BesideTick
    BY <2>1, StoredKept DEF BesideTick, simStored, SimInv, StoreKept
  <2> QED  BY <2>2, BesideTickKeeps
<1> QED  BY <1>2, <1>3, <1>4, <1>5, <1>6, <1>7, <1>8, <1>9, <1>10 DEF SimNext, TickStep

\* The health page's hourly summaries never count a vote that was not inserted,
\* whichever ticks fail, die, or cannot write their summary.
THEOREM SummariesNeverOverstate == SimSpec => []SummaryNeverOverstates
<1>1. SimInv => SummaryNeverOverstates
  BY DEF SimInv, TickPlace, SummaryNeverOverstates
<1> QED  BY <1>1, SimInvInit, SimInvStep, PTL DEF SimSpec

\* The budgets of an item under a set of policies.
LEMMA BudgetsBounded ==
  ASSUME StoreKept, NEW i \in Content, NEW t
  PROVE  LET budgets == {1} \cup {sample_attention_budget(p, i) : p \in PoliciesAt(t)}
         IN  Max(budgets) \in Int /\ \A y \in budgets : y <= Max(budgets)
<1> DEFINE P == PoliciesAt(t)
           B == {sample_attention_budget(p, i) : p \in P}
<1>1. IsFiniteSet(P) /\ P \in SUBSET DOMAIN policies
  BY SimAssumed, FS_Subset DEF StoreKept, PoliciesAt
<1>2. \A p \in P : sample_attention_budget(p, i) \in Nat
  BY <1>1, DueWithinBudget DEF StoreKept
<1>3. PICK f : f = [p \in P |-> sample_attention_budget(p, i)]
  OBVIOUS
<1>4. B = {f[p] : p \in P} /\ DOMAIN f = P
  BY <1>3
<1>5. IsFiniteSet(B)
  <2> HIDE DEF P, B
  <2> QED  BY <1>1, <1>4, FiniteImage
<1>6. {1} \cup B \in SUBSET Int /\ {1} \cup B # {}
  BY <1>2
<1>7. IsFiniteSet({1} \cup B)
  <2> HIDE DEF B
  <2>1. {1} \cup B = B \cup {1}
    OBVIOUS
  <2> QED  BY <1>5, <2>1, FS_AddElement
<1> HIDE DEF B
<1>8. Max({1} \cup B) \in Int /\ \A y \in {1} \cup B : y <= Max({1} \cup B)
  BY <1>6, <1>7, Greatest
<1> QED  BY <1>8 DEF B

\* The largest cap, and the smallest of the gaps and an hour.
LEMMA CapsAndGaps ==
  ASSUME StoreKept
  PROVE  /\ \A p \in DOMAIN policies :
              /\ Max({Cadence[q].cap : q \in DOMAIN policies}) \in Int
              /\ Cadence[p].cap <= Max({Cadence[q].cap : q \in DOMAIN policies})
         /\ LET least == Min({AnHour} \cup {Cadence[q].gap : q \in DOMAIN policies})
            IN  least \in Int /\ least <= AnHour /\ \A p \in DOMAIN policies : least <= Cadence[p].gap
<1> DEFINE P == DOMAIN policies
           Caps == {Cadence[q].cap : q \in P}
           Gaps == {Cadence[q].gap : q \in P}
<1>1. IsFiniteSet(P) /\ \A p \in P : Cadence[p].cap \in Int /\ Cadence[p].gap \in Int
  BY SimAssumed, FS_Subset DEF StoreKept
<1>2. PICK f, g : f = [q \in P |-> Cadence[q].cap] /\ g = [q \in P |-> Cadence[q].gap]
  OBVIOUS
<1>3. Caps = {f[q] : q \in P} /\ DOMAIN f = P /\ Gaps = {g[q] : q \in P} /\ DOMAIN g = P
  BY <1>2
<1>4. IsFiniteSet(Caps) /\ IsFiniteSet(Gaps)
  <2> HIDE DEF P, Caps, Gaps
  <2> QED  BY <1>1, <1>3, FiniteImage
<1>5. Caps \in SUBSET Int /\ {AnHour} \cup Gaps \in SUBSET Int /\ {AnHour} \cup Gaps # {}
  BY <1>1, SimAssumed
<1>6. \A p \in P : Cadence[p].cap \in Caps /\ Cadence[p].gap \in Gaps
  OBVIOUS
<1>7. IsFiniteSet({AnHour} \cup Gaps)
  <2> HIDE DEF Gaps
  <2>1. {AnHour} \cup Gaps = Gaps \cup {AnHour}
    OBVIOUS
  <2> QED  BY <1>4, <2>1, FS_AddElement
<1> HIDE DEF Caps, Gaps
<1>8. ASSUME NEW p \in P PROVE Max(Caps) \in Int /\ Cadence[p].cap <= Max(Caps)
  <2>1. Caps # {}
    BY <1>6
  <2> QED  BY <1>4, <1>5, <1>6, <2>1, Greatest
<1>9. Min({AnHour} \cup Gaps) \in Int /\ \A y \in {AnHour} \cup Gaps : Min({AnHour} \cup Gaps) <= y
  BY <1>5, <1>7, Smallest
<1>10. /\ Min({AnHour} \cup Gaps) <= AnHour
       /\ \A p \in P : Min({AnHour} \cup Gaps) <= Cadence[p].gap
  BY <1>6, <1>9
<1> QED  BY <1>8, <1>9, <1>10 DEF Caps, Gaps

LEMMA InvKeepsAttention == SimInv => AttentionKept
<1> SUFFICES ASSUME SimInv PROVE AttentionKept
  OBVIOUS
<1> USE DEF SimInv
<1>1. WithinAttention
  <2> SUFFICES ASSUME NEW i \in Content, Live(i)
               PROVE  Cardinality(SimulatedOn(i)) <=
                        Max({1} \cup {sample_attention_budget(p, i) : p \in PoliciesAt(born[i])})
    BY DEF WithinAttention
  <2> DEFINE budgets == {1} \cup {sample_attention_budget(p, i) : p \in PoliciesAt(born[i])}
  <2>1. Max(budgets) \in Int /\ \A y \in budgets : y <= Max(budgets)
    BY BudgetsBounded
  <2>2. Cardinality(SimulatedOn(i)) \in Nat /\ Under(Cardinality(SimulatedOn(i)), i)
    BY VotesCounted DEF AttentionInv
  <2>3. \E y \in budgets : y \in Int /\ Cardinality(SimulatedOn(i)) <= y
    <3>1. \A p \in PoliciesAt(born[i]) : sample_attention_budget(p, i) \in Nat
      BY DueWithinBudget DEF StoreKept, PoliciesAt
    <3> QED  BY <2>2, <3>1 DEF Under
  <2> HIDE DEF budgets
  <2>4. Cardinality(SimulatedOn(i)) <= Max(budgets)
    BY <2>1, <2>2, <2>3
  <2> QED  BY <2>4 DEF budgets
<1>2. ASSUME NEW v \in Personas, SimulatedOf(v) # {}
      PROVE  Cardinality({r \in SimulatedOf(v) : r.at >= clock - AnHour})
               <= Max({Cadence[p].cap : p \in DOMAIN policies})
  <2>1. PICK p \in DOMAIN policies : Cardinality(RecentOf(v, clock)) <= Cadence[p].cap
    BY <1>2 DEF HourInv
  <2>2. PICK n \in Nat, c \in Int, m \in Int :
          /\ n = Cardinality(RecentOf(v, clock)) /\ c = Cadence[p].cap
          /\ m = Max({Cadence[q].cap : q \in DOMAIN policies}) /\ c <= m
    BY VotesCounted, CapsAndGaps, SimAssumed DEF StoreKept
  <2>3. n <= m
    BY <2>1, <2>2
  <2> QED  BY <2>2, <2>3 DEF RecentOf
<1>3. ASSUME NEW v \in Personas, NEW r \in SimulatedOf(v), NEW s \in SimulatedOf(v), r # s
      PROVE  (IF r.at > s.at THEN r.at - s.at ELSE s.at - r.at)
               > Min({AnHour} \cup {Cadence[p].gap : p \in DOMAIN policies})
  <2>1. PICK least \in Int :
          /\ least = Min({AnHour} \cup {Cadence[p].gap : p \in DOMAIN policies})
          /\ least <= AnHour /\ \A p \in DOMAIN policies : least <= Cadence[p].gap
    BY CapsAndGaps
  <2>2. \A p \in DOMAIN policies : Cadence[p].gap \in Int
    BY SimAssumed DEF StoreKept
  <2>3. \A n \in Int : FarApart(n) => n > least
    BY <2>1, <2>2, SimAssumed DEF FarApart
  <2>4. PICK a \in Nat, b \in Nat : a = r.at /\ b = s.at
    BY DEF RowsKept, SimulatedOf
  <2>5. FarApart(a - b) \/ FarApart(b - a)
    BY <1>3, <2>4 DEF GapInv
  <2>6. a - b > least \/ b - a > least
    BY <2>3, <2>4, <2>5
  <2>7. (IF a > b THEN a - b ELSE b - a) > least
    BY <2>1, <2>4, <2>6
  <2> QED  BY <2>1, <2>4, <2>7
<1>4. PersonasPaced
  BY <1>2, <1>3 DEF PersonasPaced
<1> QED  BY <1>1, <1>4 DEF AttentionKept

\* Through restarts, failed ticks, rediscoveries and changes of policy, an item
\* never gets more simulated votes than the attention it was drawn for life,
\* and no persona casts more in an hour, or closer together, than some policy
\* ever saved allows.
THEOREM AttentionIsKept == SimSpec => []AttentionKept
BY SimInvInit, SimInvStep, InvKeepsAttention, PTL DEF SimSpec

-----------------------------------------------------------------------------
(* The administrator's deletes: totals of a set of votes *)

Ballots == (Members \cup Guests) \X Entries \X {1, -1}

LEMMA TalliesAreInts ==
  ASSUME NEW B \in SUBSET Ballots, IsFiniteSet(B)
  PROVE  Tally(B) \in Int \X Int
<1> DEFINE f == [b \in B |-> b[3]]
<1>1. f \in [B -> Int]
  BY DEF Ballots
<1> HIDE DEF f
<1>2. SumFunction(f) \in Int /\ Cardinality(B) \in Int
  BY <1>1, SumIsInt, FS_CardinalityType
<1> QED  BY <1>2 DEF Tally, f

LEMMA NoTally == Tally({}) = <<0, 0>>
<1> DEFINE f == [b \in {} |-> b[3]]
<1>1. DOMAIN f = {}
  OBVIOUS
<1>2. SumFunction(f) = 0
  <2> HIDE DEF f
  <2> QED  BY <1>1, SumOfNothing DEF SumFunction
<1> QED  BY <1>2, FS_EmptySet DEF Tally, f

\* One more vote adds its value and counts one.
LEMMA TallyGrows ==
  ASSUME NEW B \in SUBSET Ballots, IsFiniteSet(B), NEW x \in Ballots, x \notin B
  PROVE  /\ Tally(B \cup {x}) = <<Tally(B)[1] + x[3], Tally(B)[2] + 1>>
         /\ Tally(B)[1] \in Int
<1> DEFINE f == [b \in B |-> b[3]]
           e == [b \in B \cup {x} |-> b[3]]
<1>1. f \in [B -> Int] /\ e \in [B \cup {x} -> Int] /\ e[x] = x[3] /\ \A y \in B : e[y] = f[y]
  BY DEF Ballots
<1>2. /\ Tally(B) = <<SumFunction(f), Cardinality(B)>>
      /\ Tally(B \cup {x}) = <<SumFunction(e), Cardinality(B \cup {x})>>
  BY DEF Tally
<1> HIDE DEF f, e
<1>3. SumFunction(f) \in Int /\ SumFunction(e) = SumFunction(f) + x[3]
  BY <1>1, SumGrows
<1>4. Cardinality(B \cup {x}) = Cardinality(B) + 1
  BY FS_AddElement
<1> QED  BY <1>2, <1>3, <1>4

-----------------------------------------------------------------------------
(* The administrator's deletes: the inductive invariant *)

Scopes ==
  [kind : {"comment", "post", "community", "user"}, posts : SUBSET Posts,
   comments : SUBSET Comments, users : SUBSET Members, postAuthors : SUBSET Members,
   commentAuthors : SUBSET Members, voted : SUBSET Entries]

ModShape ==
  /\ members \subseteq Members /\ entries \subseteq Entries
  /\ parent \in [Comments -> Comments]
  /\ IsFiniteSet(ballots) /\ ballots \in SUBSET Ballots
  /\ points \in [Entries -> Int \X Int] /\ earned \in [Members -> [Kinds -> Int]]
  /\ request \in [Requests -> Scopes \cup {NoRequest}]

\* What is not there has no score, so it starts from zero when it is written.
GoneIsZero == \A e \in Entries \ entries : points[e] = <<0, 0>>

\* A delete knows every author of what it takes, and every entry its users
\* voted on, but for the votes they cast after it looked.
Knows(s) ==
  /\ s.postAuthors = AuthorsOf(s.posts) /\ s.commentAuthors = AuthorsOf(s.comments)
  /\ s.users # {} => s.kind = "user"
  /\ \A b \in ballots : b[1] \in s.users => b[2] \in s.voted \cup crossed
RequestsKnow == \A r \in Requests : request[r] # NoRequest => Knows(request[r])

ModInv == ModShape /\ NothingDangles /\ GoneIsZero /\ RequestsKnow /\ DeletesKeepTotals

LEMMA ModAssumed ==
  /\ Posts \cap Comments = {} /\ Members \cap Guests = {}
  /\ \A p \in Posts : p \in Entries /\ KindOf(p) = "post"
  /\ \A c \in Comments : c \in Entries /\ c \notin Posts /\ KindOf(c) = "comment" /\ ReplyTo[c] \in Comments
                         /\ On[c] \in Posts
  /\ \A e \in Entries : By[e] \in Members /\ KindOf(e) \in Kinds
BY ModerationAssumption DEF Entries, KindOf, Kinds

\* No delete was asked for: it does not look like one that was.
LEMMA ScopeIsRequest == \A s \in Scopes : s # NoRequest
BY DEF Scopes, NoRequest

\* The votes on an entry, and those an author earns with one kind of entry,
\* are finitely many.
VotesFor(u, k) == {b \in ballots : b[2] \in entries /\ By[b[2]] = u /\ KindOf(b[2]) = k}
LEMMA VotesAreFinite ==
  ASSUME ModShape
  PROVE  /\ \A e : BallotsOn(e) \in SUBSET Ballots /\ IsFiniteSet(BallotsOn(e))
         /\ \A u, k : /\ VotesFor(u, k) \in SUBSET Ballots /\ IsFiniteSet(VotesFor(u, k))
                      /\ EarnedFrom(ballots, entries, u, k) = Tally(VotesFor(u, k))[1]
<1>1. \A e : BallotsOn(e) \in SUBSET Ballots /\ IsFiniteSet(BallotsOn(e))
  BY FS_Subset DEF BallotsOn, ModShape
<1>2. \A u, k : VotesFor(u, k) \in SUBSET Ballots /\ IsFiniteSet(VotesFor(u, k))
  BY FS_Subset DEF VotesFor, ModShape
<1> QED  BY <1>1, <1>2 DEF EarnedFrom, VotesFor

LEMMA ModInvInit == ModInit => ModInv
<1> SUFFICES ASSUME ModInit PROVE ModInv
  OBVIOUS
<1> USE DEF ModInit
<1>1. ModShape
  <2>1. parent \in [Comments -> Comments]
    BY ModerationAssumption
  <2>2. earned \in [Members -> [Kinds -> Int]]
    OBVIOUS
  <2>3. IsFiniteSet(ballots)
    BY FS_EmptySet
  <2> QED  BY <2>1, <2>2, <2>3 DEF ModShape
<1>2. NothingDangles /\ GoneIsZero /\ RequestsKnow
  BY DEF NothingDangles, GoneIsZero, RequestsKnow
<1>3. DeletesKeepTotals
  <2>1. \A u, k : VotesFor(u, k) = {}
    BY DEF VotesFor
  <2>2. \A u, k : EarnedFrom(ballots, entries, u, k) = 0
    BY <1>1, <2>1, VotesAreFinite, NoTally
  <2>3. \A u \in Members, k \in Kinds : earned[u][k] = 0
    OBVIOUS
  <2> QED  BY <2>2, <2>3 DEF DeletesKeepTotals
<1> QED  BY <1>1, <1>2, <1>3 DEF ModInv

-----------------------------------------------------------------------------
(* The administrator's deletes: what users do *)

\* A new entry has no votes yet.
LEMMA WritingKeepsTotals ==
  ASSUME ModInv, NEW x \in Entries, x \notin entries, entries' = entries \cup {x},
         UNCHANGED <<members, ballots, points, earned, request, crossed>>
  PROVE  GoneIsZero' /\ RequestsKnow' /\ DeletesKeepTotals'
<1> USE DEF ModInv
<1>1. \A e : BallotsOn(e)' = BallotsOn(e)
  BY DEF BallotsOn
<1>2. BallotsOn(x) = {}
  BY DEF BallotsOn, NothingDangles
<1>3. \A e \in entries' \ crossed' : points'[e] = Tally(BallotsOn(e)')
  <2>1. points[x] = Tally(BallotsOn(x))
    BY <1>2, NoTally DEF GoneIsZero
  <2> QED  BY <1>1, <2>1 DEF DeletesKeepTotals
<1>4. \A u, k : VotesFor(u, k)' = VotesFor(u, k)
  <2>1. \A b \in ballots : b[2] \in entries /\ b[2] \in entries'
    BY DEF NothingDangles
  <2> QED  BY <2>1 DEF VotesFor
<1>5. \A u, k : EarnedFrom(ballots, entries, u, k)' = EarnedFrom(ballots, entries, u, k)
  <2>1. \A u, k : /\ EarnedFrom(ballots, entries, u, k) = Tally(VotesFor(u, k))[1]
                  /\ EarnedFrom(ballots, entries, u, k)' = Tally(VotesFor(u, k)')[1]
    BY DEF EarnedFrom, VotesFor
  <2> QED  BY <1>4, <2>1
<1>6. DeletesKeepTotals'
  <2>1. \A e \in entries' \ crossed' : points'[e] = Tally(BallotsOn(e))'
    BY <1>3
  <2>2. ASSUME NEW u \in members', NEW k \in Kinds, u \notin AuthorsOf(crossed')
        PROVE  earned'[u][k] = EarnedFrom(ballots, entries, u, k)'
    BY <1>5, <2>2 DEF DeletesKeepTotals
  <2> QED  BY <2>1, <2>2 DEF DeletesKeepTotals
<1>7. GoneIsZero' /\ RequestsKnow'
  BY DEF GoneIsZero, RequestsKnow, Knows
<1> QED  BY <1>6, <1>7

LEMMA WritePostKeeps ==
  ASSUME ModInv, NEW p \in Posts, WritePost(p)
  PROVE  ModInv'
<1> USE DEF ModInv
<1>1. /\ p \in Entries /\ p \notin entries /\ entries' = entries \cup {p} /\ By[p] \in members /\ community
      /\ UNCHANGED <<members, community, parent, ballots, points, earned, request, crossed>>
  BY ModAssumed DEF WritePost
<1>2. GoneIsZero' /\ RequestsKnow' /\ DeletesKeepTotals'
  BY <1>1, WritingKeepsTotals
<1>3. ModShape'
  BY <1>1 DEF ModShape
<1>4. NothingDangles'
  <2>1. p \notin Comments
    BY ModAssumed
  <2> QED  BY <1>1, <2>1 DEF NothingDangles
<1> QED  BY <1>2, <1>3, <1>4

LEMMA WriteCommentKeeps ==
  ASSUME ModInv, NEW c \in Comments, WriteComment(c)
  PROVE  ModInv'
<1> USE DEF ModInv
<1>1. /\ c \in Entries /\ c \notin entries /\ entries' = entries \cup {c} /\ By[c] \in members
      /\ On[c] \in entries /\ ReplyTo[c] \in entries \cup {c} /\ ReplyTo[c] \in Comments
      /\ parent' = [parent EXCEPT ![c] = ReplyTo[c]]
      /\ UNCHANGED <<members, community, ballots, points, earned, request, crossed>>
  BY ModAssumed DEF WriteComment
<1>2. GoneIsZero' /\ RequestsKnow' /\ DeletesKeepTotals'
  BY <1>1, WritingKeepsTotals
<1>3. ModShape'
  BY <1>1 DEF ModShape
<1>4. NothingDangles'
  <2>1. c \notin Posts
    BY ModAssumed
  <2>2. \A d \in Comments : parent'[d] = IF d = c THEN ReplyTo[c] ELSE parent[d]
    BY <1>1 DEF ModShape
  <2> QED  BY <1>1, <2>1, <2>2 DEF NothingDangles
<1> QED  BY <1>2, <1>3, <1>4

LEMMA BallotKeeps ==
  ASSUME ModInv, NEW v \in Members \cup Guests, NEW e \in Entries, NEW value \in {1, -1},
         Ballot(v, e, value)
  PROVE  ModInv'
<1> USE DEF ModInv
<1>1. PICK x : x = <<v, e, value>>
  OBVIOUS
<1>2. /\ x \in Ballots /\ x[1] = v /\ x[2] = e /\ x[3] = value /\ value \in Int
  BY <1>1 DEF Ballots
<1>3. /\ e \in entries /\ v \in members \cup Guests /\ x \notin ballots
      /\ ballots' = ballots \cup {x}
      /\ points' = [points EXCEPT ![e] = <<points[e][1] + value, points[e][2] + 1>>]
      /\ earned' = [earned EXCEPT ![By[e]][KindOf(e)] = earned[By[e]][KindOf(e)] + value]
      /\ crossed' = IF \E r \in Requests : request[r].kind = "user" /\ v \in request[r].users
                    THEN crossed \cup {e} ELSE crossed
      /\ UNCHANGED <<members, community, entries, parent, request>>
  BY <1>1 DEF Ballot, BallotsOn
<1>4. By[e] \in Members /\ KindOf(e) \in Kinds
  BY ModAssumed
<1>5. ModShape'
  <2>1. IsFiniteSet(ballots') /\ ballots' \in SUBSET Ballots
    BY <1>2, <1>3, FS_AddElement DEF ModShape
  <2>2. points' \in [Entries -> Int \X Int]
    <3>1. points[e] \in Int \X Int /\ points \in [Entries -> Int \X Int]
      BY DEF ModShape
    <3>2. <<points[e][1] + value, points[e][2] + 1>> \in Int \X Int
      BY <1>2, <3>1
    <3> QED  BY <1>3, <3>1, <3>2
  <2>3. earned' \in [Members -> [Kinds -> Int]]
    <3>1. earned \in [Members -> [Kinds -> Int]] /\ earned[By[e]][KindOf(e)] + value \in Int
      BY <1>2, <1>4 DEF ModShape
    <3> QED  BY <1>3, <1>4, <3>1
  <2> QED  BY <1>3, <2>1, <2>2, <2>3 DEF ModShape
<1>6. NothingDangles'
  BY <1>2, <1>3 DEF NothingDangles
<1>7. GoneIsZero'
  BY <1>3 DEF GoneIsZero, ModShape
<1>8. RequestsKnow'
  <2> SUFFICES ASSUME NEW r \in Requests, request[r] # NoRequest
               PROVE  Knows(request[r])'
    BY <1>3 DEF RequestsKnow
  <2>1. PICK s : s = request[r] /\ request'[r] = s
    BY <1>3
  <2>2. Knows(s)
    BY <2>1 DEF RequestsKnow
  <2>3. v \in s.users => e \in crossed'
    <3>1. v \in s.users => s.kind = "user"
      BY <2>2 DEF Knows
    <3> QED  BY <1>3, <2>1, <3>1
  <2>4. \A b \in ballots' : b[1] \in s.users => b[2] \in s.voted \cup crossed'
    BY <1>2, <1>3, <2>2, <2>3 DEF Knows
  <2> QED  BY <2>1, <2>2, <2>4 DEF Knows
<1>9. \A d \in entries \ crossed' : points'[d] = Tally(BallotsOn(d))'
  <2> SUFFICES ASSUME NEW d \in entries \ crossed' PROVE points'[d] = Tally(BallotsOn(d)')
    BY DEF BallotsOn
  <2>1. d \notin crossed /\ points[d] = Tally(BallotsOn(d)) /\ d \in Entries
    BY <1>3 DEF DeletesKeepTotals, ModShape
  <2>2. CASE d = e
    <3>1. BallotsOn(e)' = BallotsOn(e) \cup {x} /\ x \notin BallotsOn(e)
      BY <1>2, <1>3 DEF BallotsOn
    <3>2. Tally(BallotsOn(e)') = <<Tally(BallotsOn(e))[1] + value, Tally(BallotsOn(e))[2] + 1>>
      BY <1>2, <3>1, VotesAreFinite, TallyGrows
    <3>3. points'[e] = <<points[e][1] + value, points[e][2] + 1>>
      BY <1>3 DEF ModShape
    <3> QED  BY <2>1, <2>2, <3>2, <3>3
  <2>3. CASE d # e
    <3>1. BallotsOn(d)' = BallotsOn(d)
      BY <1>2, <1>3, <2>3 DEF BallotsOn
    <3>2. points'[d] = points[d]
      BY <1>3, <2>1, <2>3 DEF ModShape
    <3> QED  BY <2>1, <3>1, <3>2
  <2> QED  BY <2>2, <2>3
<1>10. ASSUME NEW u \in members, NEW k \in Kinds, u \notin AuthorsOf(crossed')
       PROVE  earned'[u][k] = EarnedFrom(ballots, entries, u, k)'
  <2>1. u \notin AuthorsOf(crossed) /\ u \in Members
    BY <1>3, <1>10 DEF AuthorsOf, ModShape
  <2>2. /\ earned[u][k] = Tally(VotesFor(u, k))[1]
        /\ EarnedFrom(ballots, entries, u, k)' = Tally(VotesFor(u, k)')[1]
    <3>1. EarnedFrom(ballots, entries, u, k)' = Tally(VotesFor(u, k)')[1]
      BY DEF EarnedFrom, VotesFor
    <3> QED  BY <2>1, <3>1, VotesAreFinite DEF DeletesKeepTotals
  <2>3. CASE u = By[e] /\ k = KindOf(e)
    <3>1. VotesFor(u, k)' = VotesFor(u, k) \cup {x} /\ x \notin VotesFor(u, k)
      BY <1>2, <1>3, <2>3 DEF VotesFor
    <3>2. Tally(VotesFor(u, k)')[1] = Tally(VotesFor(u, k))[1] + value
      BY <1>2, <3>1, VotesAreFinite, TallyGrows
    <3>3. earned'[u][k] = earned[u][k] + value
      BY <1>3, <1>4, <2>1, <2>3 DEF ModShape
    <3> QED  BY <2>2, <3>2, <3>3
  <2>4. CASE ~ (u = By[e] /\ k = KindOf(e))
    <3>1. VotesFor(u, k)' = VotesFor(u, k)
      BY <1>2, <1>3, <2>4 DEF VotesFor
    <3>2. earned'[u][k] = earned[u][k]
      BY <1>3, <1>4, <2>1, <2>4 DEF ModShape
    <3> QED  BY <2>2, <3>1, <3>2
  <2> QED  BY <2>3, <2>4
<1>11. DeletesKeepTotals'
  BY <1>3, <1>9, <1>10 DEF DeletesKeepTotals
<1> QED  BY <1>5, <1>6, <1>7, <1>8, <1>11

-----------------------------------------------------------------------------
(* The administrator's deletes: a delete begins, commits or fails *)

LEMMA ScopeKnows ==
  ASSUME ModInv, NEW kind \in {"comment", "post", "community", "user"}, NEW P \in SUBSET Posts,
         NEW C, NEW U \in SUBSET Members, U # {} => kind = "user"
  PROVE  Scope(kind, P, C, U) \in Scopes /\ Knows(Scope(kind, P, C, U))
<1> DEFINE D == WithDescendants(C)
           A == AuthorsOf(P)
           B == AuthorsOf(D)
           V == VotedBy(U)
           s == Scope(kind, P, C, U)
<1>1. D \in SUBSET Comments
  BY DEF WithDescendants
<1>2. A \in SUBSET Members /\ B \in SUBSET Members
  BY <1>1, ModAssumed DEF AuthorsOf
<1>3. V \in SUBSET Entries
  BY DEF ModInv, ModShape, Ballots, VotedBy
<1>4. s = [kind |-> kind, posts |-> P, comments |-> D, users |-> U, postAuthors |-> A,
           commentAuthors |-> B, voted |-> V]
  BY DEF Scope
<1>5. \A b \in ballots : b[1] \in U => b[2] \in V
  BY DEF VotedBy
<1>6. A = AuthorsOf(P) /\ B = AuthorsOf(D)
  OBVIOUS
<1> HIDE DEF D, A, B, V, s
<1>7. s \in Scopes
  BY <1>1, <1>2, <1>3, <1>4 DEF Scopes
<1>8. Knows(s)
  BY <1>4, <1>5, <1>6 DEF Knows
<1> QED  BY <1>7, <1>8 DEF s

\* The forum stays as it is while a request is noted or dropped.
LEMMA AskingKeeps ==
  ASSUME ModInv, NEW r \in Requests, NEW s \in Scopes \cup {NoRequest},
         s # NoRequest => Knows(s), request' = [request EXCEPT ![r] = s],
         UNCHANGED <<forum, crossed>>
  PROVE  ModInv'
<1> USE DEF ModInv, forum
<1>1. ModShape'
  BY DEF ModShape
<1>2. RequestsKnow'
  <2>1. \A q \in Requests : request'[q] = IF q = r THEN s ELSE request[q]
    BY DEF ModShape
  <2>2. \A t : Knows(t) => Knows(t)'
    BY DEF Knows
  <2>3. ASSUME NEW q \in Requests, request'[q] # NoRequest
        PROVE  Knows(request[q])'
    <3>1. PICK t : t = request'[q]
      OBVIOUS
    <3>2. Knows(t)'
      BY <2>1, <2>2, <2>3, <3>1 DEF RequestsKnow
    <3> QED  BY <3>1, <3>2 DEF Knows
  <2> QED  BY <2>3 DEF RequestsKnow
<1>3. NothingDangles' /\ GoneIsZero'
  BY DEF NothingDangles, GoneIsZero
<1>4. DeletesKeepTotals'
  BY DEF DeletesKeepTotals, BallotsOn, EarnedFrom
<1> QED  BY <1>1, <1>2, <1>3, <1>4

LEMMA BeginDeleteKeeps ==
  ASSUME ModInv, NEW r \in Requests,
         \/ \E c \in Comments : DeleteComment(r, c)
         \/ \E C \in SUBSET Comments : DeleteComments(r, C)
         \/ \E p \in Posts : DeletePost(r, p)
         \/ \E P \in SUBSET Posts : DeletePosts(r, P)
         \/ DeleteCommunity(r)
         \/ \E u \in Members : DeleteUser(r, u)
         \/ \E U \in SUBSET Members : DeleteUsers(r, U)
  PROVE  ModInv'
<1>1. ASSUME NEW s \in Scopes, Knows(s), BeginDelete(r, s)
      PROVE  ModInv'
  BY <1>1, AskingKeeps DEF BeginDelete
<1>2. ASSUME NEW C \in SUBSET Comments, DeleteComments(r, C)
      PROVE  ModInv'
  BY <1>1, <1>2, ScopeKnows DEF DeleteComments
<1>3. ASSUME NEW P \in SUBSET Posts, DeletePosts(r, P)
      PROVE  ModInv'
  BY <1>1, <1>3, ScopeKnows DEF DeletePosts
<1>4. ASSUME DeleteCommunity(r)
      PROVE  ModInv'
  <2>1. Posts \cap entries \in SUBSET Posts
    OBVIOUS
  <2> QED  BY <1>1, <1>4, <2>1, ScopeKnows DEF DeleteCommunity
<1>5. ASSUME NEW U \in SUBSET Members, DeleteUsers(r, U)
      PROVE  ModInv'
  <2>1. {p \in Posts \cap entries : By[p] \in U} \in SUBSET Posts
    OBVIOUS
  <2> QED  BY <1>1, <1>5, <2>1, ScopeKnows DEF DeleteUsers
<1>6. ASSUME NEW c \in Comments, DeleteComment(r, c)
      PROVE  ModInv'
  BY <1>2, <1>6 DEF DeleteComment
<1>7. ASSUME NEW p \in Posts, DeletePost(r, p)
      PROVE  ModInv'
  BY <1>3, <1>7 DEF DeletePost
<1>8. ASSUME NEW u \in Members, DeleteUser(r, u)
      PROVE  ModInv'
  BY <1>5, <1>8 DEF DeleteUser
<1> QED  BY <1>2, <1>3, <1>4, <1>5, <1>6, <1>7, <1>8

LEMMA CommitDeleteKeeps ==
  ASSUME ModInv, NEW r \in Requests, CommitDelete(r)
  PROVE  ModInv'
<1> USE DEF ModInv
<1>1. PICK s, left :
        /\ s = request[r] /\ left = entries \ (s.posts \cup s.comments)
  OBVIOUS
<1>2. /\ s # NoRequest /\ ~ Blocked(s) /\ entries' = left /\ members' = members \ s.users
      /\ community' = (community /\ s.kind # "community")
      /\ parent' = [c \in Comments |-> IF parent[c] \in s.comments THEN c ELSE parent[c]]
      /\ ballots' = Kept(s)
      /\ points' = [e \in Entries |->
            IF e \notin left THEN <<0, 0>>
            ELSE IF e \in s.voted THEN Tally({b \in Kept(s) : b[2] = e}) ELSE points[e]]
      /\ earned' = [u \in Members |-> [k \in Kinds |->
            IF u \in s.users THEN 0
            ELSE IF u \in Refreshed(s, k) THEN EarnedFrom(Kept(s), left, u, k)
            ELSE earned[u][k]]]
      /\ request' = [request EXCEPT ![r] = NoRequest]
      /\ crossed' = crossed
  BY <1>1 DEF CommitDelete
<1>3. /\ s \in Scopes /\ Knows(s)
  BY <1>1, <1>2 DEF ModShape, RequestsKnow
<1>4. /\ s.posts \subseteq Posts /\ s.comments \subseteq Comments /\ s.users \subseteq Members
      /\ s.voted \subseteq Entries
      /\ s.postAuthors = AuthorsOf(s.posts) /\ s.commentAuthors = AuthorsOf(s.comments)
      /\ \A b \in ballots : b[1] \in s.users => b[2] \in s.voted \cup crossed
  BY <1>3 DEF Scopes, Knows
<1>5. /\ \A c \in Comments \cap left : On[c] \notin s.posts
      /\ s.kind = "community" => Posts \cap left = {}
      /\ \A e \in left : By[e] \notin s.users
  BY <1>1, <1>2 DEF Blocked
<1>6. /\ ballots' \in SUBSET ballots
      /\ \A b \in ballots : b \in ballots' <=> /\ b[2] \notin s.posts \cup s.comments
                                              /\ b[1] \notin s.users
  BY <1>2 DEF Kept
<1>7. \A B \in SUBSET ballots : B \in SUBSET Ballots /\ IsFiniteSet(B) /\ Tally(B) \in Int \X Int
  <2>1. \A B \in SUBSET ballots : B \in SUBSET Ballots /\ IsFiniteSet(B)
    BY FS_Subset DEF ModShape
  <2> QED  BY <2>1, TalliesAreInts
<1>8. \A u, k : EarnedFrom(ballots', left, u, k) \in Int
  <2>1. \A u, k : {b \in ballots' : b[2] \in left /\ By[b[2]] = u /\ KindOf(b[2]) = k} \in SUBSET ballots
    BY <1>6
  <2>2. \A T \in Int \X Int : T[1] \in Int
    OBVIOUS
  <2> QED  BY <1>7, <2>1, <2>2 DEF EarnedFrom
<1>9. ModShape'
  <2>1. members' \subseteq Members /\ entries' \subseteq Entries
    BY <1>1, <1>2 DEF ModShape
  <2>2. parent' \in [Comments -> Comments]
    BY <1>2 DEF ModShape
  <2>3. IsFiniteSet(ballots') /\ ballots' \in SUBSET Ballots
    BY <1>6, <1>7
  <2>4. points' \in [Entries -> Int \X Int]
    <3>1. \A e \in Entries : points'[e] \in Int \X Int
      <4>1. \A e : {b \in ballots' : b[2] = e} \in SUBSET ballots
        BY <1>6
      <4>2. \A e : Tally({b \in ballots' : b[2] = e}) \in Int \X Int
        BY <1>7, <4>1
      <4>3. \A e \in Entries : points[e] \in Int \X Int /\ <<0, 0>> \in Int \X Int
        BY DEF ModShape
      <4> QED  BY <1>2, <4>2, <4>3
    <3>2. points' = [e \in Entries |-> points'[e]]
      BY <1>2
    <3> QED  BY <3>1, <3>2
  <2>5. earned' \in [Members -> [Kinds -> Int]]
    <3>1. \A u \in Members, k \in Kinds : earned[u][k] \in Int
      BY DEF ModShape
    <3>2. \A u \in Members, k \in Kinds :
            (IF u \in s.users THEN 0
             ELSE IF u \in Refreshed(s, k) THEN EarnedFrom(Kept(s), left, u, k)
             ELSE earned[u][k]) \in Int
      BY <1>2, <1>8, <3>1
    <3> QED  BY <1>2, <3>2
  <2>6. request' \in [Requests -> Scopes \cup {NoRequest}]
    BY <1>2 DEF ModShape
  <2> QED  BY <2>1, <2>2, <2>3, <2>4, <2>5, <2>6 DEF ModShape
<1>10. NothingDangles'
  <2>1. \A e \in left : By[e] \in members'
    BY <1>1, <1>2, <1>5 DEF NothingDangles
  <2>2. Posts \cap left # {} => community'
    BY <1>1, <1>2, <1>5 DEF NothingDangles
  <2>3. ASSUME NEW c \in Comments \cap left
        PROVE  On[c] \in left /\ parent'[c] \in left
    <3>1. c \in entries /\ On[c] \in entries /\ parent[c] \in entries /\ On[c] \in Posts
          /\ parent[c] \in Comments /\ parent[c] \notin Posts /\ On[c] \notin Comments
      BY <1>1, ModAssumed, ModerationAssumption DEF NothingDangles, ModShape
    <3> QED  BY <1>1, <1>2, <1>4, <1>5, <2>3, <3>1
  <2>4. \A b \in ballots' : b[2] \in left /\ b[1] \in members' \cup Guests
    BY <1>1, <1>2, <1>6 DEF NothingDangles
  <2> QED  BY <1>2, <2>1, <2>2, <2>3, <2>4 DEF NothingDangles
<1>11. GoneIsZero'
  BY <1>2 DEF GoneIsZero
<1>12. RequestsKnow'
  <2> SUFFICES ASSUME NEW q \in Requests, request'[q] # NoRequest
               PROVE  Knows(request[q])'
    BY DEF RequestsKnow
  <2>1. PICK t : t = request'[q] /\ t = request[q]
    BY <1>2 DEF ModShape
  <2>2. Knows(t)
    BY <2>1 DEF RequestsKnow
  <2> QED  BY <1>2, <1>6, <2>1, <2>2 DEF Knows
<1>13. ASSUME NEW e \in left \ crossed PROVE points'[e] = Tally(BallotsOn(e)')
  <2>1. e \in entries /\ e \in Entries /\ e \notin s.posts \cup s.comments
    BY <1>1, <1>13 DEF ModShape
  <2>2. BallotsOn(e)' = {b \in Kept(s) : b[2] = e}
    BY <1>2 DEF BallotsOn
  <2>3. CASE e \in s.voted
    BY <1>2, <2>1, <2>2, <2>3
  <2>4. CASE e \notin s.voted
    <3>1. BallotsOn(e)' = BallotsOn(e)
      BY <1>4, <1>6, <1>13, <2>1, <2>4 DEF BallotsOn
    <3>2. points'[e] = points[e]
      BY <1>2, <2>1, <2>4
    <3> QED  BY <1>13, <2>1, <3>1, <3>2 DEF DeletesKeepTotals
  <2> QED  BY <2>3, <2>4
<1>14. ASSUME NEW u \in members', NEW k \in Kinds, u \notin AuthorsOf(crossed)
       PROVE  earned'[u][k] = EarnedFrom(ballots', left, u, k)
  <2>1. u \in members /\ u \in Members /\ u \notin s.users
    BY <1>2 DEF ModShape
  <2>2. CASE u \in Refreshed(s, k)
    BY <1>2, <2>1, <2>2
  <2>3. CASE u \notin Refreshed(s, k)
    <3>1. earned'[u][k] = earned[u][k] /\ earned[u][k] = EarnedFrom(ballots, entries, u, k)
      BY <1>2, <1>14, <2>1, <2>3 DEF DeletesKeepTotals
    <3> DEFINE old == {b \in ballots : b[2] \in entries /\ By[b[2]] = u /\ KindOf(b[2]) = k}
               new == {b \in ballots' : b[2] \in left /\ By[b[2]] = u /\ KindOf(b[2]) = k}
    <3>2. ASSUME NEW b \in old PROVE b \in new
      <4>1. b \in ballots /\ b[2] \in Entries /\ By[b[2]] = u /\ KindOf(b[2]) = k
        BY DEF ModShape, Ballots
      <4>2. b[2] \notin crossed
        BY <1>14, <4>1 DEF AuthorsOf
      <4>3. b[2] \notin s.posts
        BY <1>4, <2>3, <4>1, ModAssumed DEF AuthorsOf, Refreshed
      <4>4. b[2] \notin s.comments
        BY <1>4, <2>3, <4>1, ModAssumed DEF AuthorsOf, Refreshed
      <4>5. b[2] \notin s.voted
        <5>1. CASE b[2] \in Posts
          BY <2>3, <4>1, <5>1, ModAssumed DEF Refreshed
        <5>2. CASE b[2] \in Comments
          BY <2>3, <4>1, <5>2, ModAssumed DEF Refreshed
        <5> QED  BY <4>1, <5>1, <5>2 DEF Entries
      <4>6. b[1] \notin s.users
        BY <1>4, <4>1, <4>2, <4>5
      <4> QED  BY <1>1, <1>6, <4>1, <4>3, <4>4, <4>6
    <3>3. ASSUME NEW b \in new PROVE b \in old
      BY <1>1, <1>6
    <3>4. old = new
      BY <3>2, <3>3
    <3> QED  BY <3>1, <3>4 DEF EarnedFrom
  <2> QED  BY <2>2, <2>3
<1>15. DeletesKeepTotals'
  <2>1. \A e \in entries' \ crossed' : points'[e] = Tally(BallotsOn(e))'
    <3>1. \A e : Tally(BallotsOn(e))' = Tally(BallotsOn(e)')
      BY DEF BallotsOn
    <3> QED  BY <1>2, <1>13, <3>1
  <2>2. \A u \in members', k \in Kinds :
          u \notin AuthorsOf(crossed') => earned'[u][k] = EarnedFrom(ballots, entries, u, k)'
    BY <1>2, <1>14
  <2> QED  BY <2>1, <2>2 DEF DeletesKeepTotals
<1> QED  BY <1>9, <1>10, <1>11, <1>12, <1>15

-----------------------------------------------------------------------------
(* The administrator's deletes: the theorem *)

LEMMA ModInvStep == ModInv /\ [ModNext]_modVars => ModInv'
<1> SUFFICES ASSUME ModInv, [ModNext]_modVars PROVE ModInv'
  OBVIOUS
<1>1. CASE \E p \in Posts : WritePost(p)
  BY <1>1, WritePostKeeps
<1>2. CASE \E c \in Comments : WriteComment(c)
  BY <1>2, WriteCommentKeeps
<1>3. CASE \E v \in Members \cup Guests, e \in Entries, value \in {1, -1} : Ballot(v, e, value)
  BY <1>3, BallotKeeps
<1>4. ASSUME NEW r \in Requests,
             \/ \E c \in Comments : DeleteComment(r, c)
             \/ \E C \in SUBSET Comments : DeleteComments(r, C)
             \/ \E p \in Posts : DeletePost(r, p)
             \/ \E P \in SUBSET Posts : DeletePosts(r, P)
             \/ DeleteCommunity(r)
             \/ \E u \in Members : DeleteUser(r, u)
             \/ \E U \in SUBSET Members : DeleteUsers(r, U)
      PROVE  ModInv'
  BY <1>4, BeginDeleteKeeps
<1>5. ASSUME NEW r \in Requests, CommitDelete(r)
      PROVE  ModInv'
  BY <1>5, CommitDeleteKeeps
<1>6. ASSUME NEW r \in Requests, DeleteFails(r)
      PROVE  ModInv'
  BY <1>6, AskingKeeps DEF DeleteFails
<1>7. CASE UNCHANGED modVars
  <2> USE <1>7 DEF modVars, ModInv
  <2>1. ModShape' /\ NothingDangles' /\ GoneIsZero'
    BY DEF ModShape, NothingDangles, GoneIsZero
  <2>2. RequestsKnow' /\ DeletesKeepTotals'
    BY DEF RequestsKnow, Knows, DeletesKeepTotals, BallotsOn, EarnedFrom
  <2> QED  BY <2>1, <2>2
<1> QED  BY <1>1, <1>2, <1>3, <1>4, <1>5, <1>6, <1>7 DEF ModNext

\* Whatever deletes, posts and votes cross, no row refers to one that is gone,
\* and scores, counts and karma are the sums of the votes that remain, but for
\* entries a user voted on while that user was being deleted.
THEOREM DeletesAreSound == ModSpec => []DeletesSound
<1>1. ModInv => DeletesSound
  BY DEF ModInv, DeletesSound
<1> QED  BY <1>1, ModInvInit, ModInvStep, PTL DEF ModSpec

-----------------------------------------------------------------------------
(* Seeding: the inductive invariant *)

MadeVote == [voter : Usernames, item : Nat, madeUp : BOOLEAN, value : {-1, 1}]
SeededItem ==
  [by : Usernames, on : Nat, under : Nat, depth : Nat, at : Int, run : Nat]
Backfill == [item : Nat, target : Int, rows : SUBSET MadeVote]
SeedSteps == {"idle", "people", "content", "votes", "pool", "voting", "repair"}
SeedRun ==
  [step : SeedSteps, plan : SUBSET Planned, authors : SUBSET Usernames, from : Nat,
   left : SUBSET Nat, capacity : Nat, pool : SUBSET Usernames, hit : Backfill \cup {NoHit},
   batch : SUBSET Backfill]

SeedTypes ==
  /\ day \in Nat /\ anchor \in Int
  /\ folk \in [Usernames -> {"none", "persona", "human"}]
  /\ seeded \in Seq(SeededItem) /\ mark \in Seq(Int) /\ Len(mark) = Len(seeded)
  /\ fame \in [Usernames -> Int] /\ seedRuns \in Seq(Nat)
  /\ ballot \in SUBSET MadeVote
  /\ seeding \in SeedRun /\ settled \in SUBSET Nat /\ loose \in BOOLEAN /\ meddling \in Nat

\* Runs are numbered, the first one set the anchor, and one that is going on is the last.
RunsKnown ==
  /\ settled \subseteq 1..Len(seedRuns)
  /\ anchor = (IF seedRuns = << >> THEN Never ELSE seedRuns[1])
  /\ \A i \in 1..Len(seeded) : seeded[i].run \in 1..Len(seedRuns)
  /\ \A n \in Others : folk[n] = "human"
  /\ \A v \in ballot : v.item \in 1..Len(seeded)

\* The run in progress: what it made, and where it stands.
RunInOrder ==
  seeding.step # "idle" =>
    /\ seedRuns # << >> /\ ThisRun \notin settled
    /\ seeding.from <= Len(seeded)
    /\ \A i \in MadeSoFar : seeded[i].run = ThisRun
    /\ seeding.left \subseteq MadeSoFar
    /\ seeding.pool \cap Others = {}
    /\ seeding.step \in {"votes", "pool", "voting"} => RunDay - anchor < DecayDays

\* Made-up votes of an item: to a side, by some who may, and no more than the ceiling.
HitSound(h) ==
  /\ h.item \in MadeSoFar
  /\ \A v \in h.rows : /\ v.item = h.item /\ v.madeUp
                       /\ v.voter # seeded[h.item].by /\ v.voter \notin Others
  /\ Total(h.rows, h.item) = h.target
  /\ IsFiniteSet(h.rows) /\ Cardinality(h.rows) <= SeedVoteMax

\* An item is voted on once: what waits, is at hand or in the batch has no made-up vote.
MadeVotesOf(i) == {v \in BallotsFor(ballot, i) : v.madeUp}
VotesPending ==
  /\ seeding.step # "voting" => seeding.hit = NoHit /\ seeding.batch = {}
  /\ seeding.hit # NoHit => HitSound(seeding.hit) /\ seeding.hit.item \in seeding.left
  /\ \A h \in seeding.batch :
       /\ HitSound(h) /\ h.item \notin seeding.left /\ MadeVotesOf(h.item) = {}
       /\ \A g \in seeding.batch : g.item = h.item => g = h
  /\ \A i \in seeding.left : MadeVotesOf(i) = {}
  /\ seeding.step \in {"people", "content", "votes", "pool"} =>
       \A i \in MadeSoFar : MadeVotesOf(i) = {}

\* A comment is on the last post before it.
ThreadsInOrder ==
  \A i \in 1..Len(seeded) :
    /\ seeded[i].on \in 1..i /\ seeded[i].under \in 0..Len(seeded)
    /\ seeded[seeded[i].on].on = seeded[i].on
    /\ \A j \in 1..i : j > seeded[i].on => seeded[j].on = seeded[i].on

SeedInv ==
  SeedTypes /\ RunsKnown /\ RunInOrder /\ VotesPending /\ ThreadsInOrder /\ SeedingSound

LEMMA SeedAssumed ==
  /\ Planned \cap Others = {} /\ IsFiniteSet(Usernames) /\ Arrivals \subseteq 0..Window
  /\ Window \in Nat /\ DecayDays \in Nat /\ SeedVoteMax \in Nat
  /\ Planned \subseteq Usernames /\ Others \subseteq Usernames
BY SeedingAssumption DEF Usernames

\* The votes of one item are few enough to be counted.
LEMMA VotesOfItem ==
  ASSUME NEW B \in SUBSET MadeVote, NEW i
  PROVE  /\ IsFiniteSet(BallotsFor(B, i))
         /\ \A x : IsFiniteSet(Cast(B, i, x)) /\ Cardinality(Cast(B, i, x)) \in Nat
         /\ Total(B, i) \in Int
<1> DEFINE Kinds4 == Usernames \X (BOOLEAN \X {-1, 1})
           f == [k \in Kinds4 |-> [voter |-> k[1], item |-> i, madeUp |-> k[2][1], value |-> k[2][2]]]
<1>1. IsFiniteSet(Kinds4)
  <2>1. IsFiniteSet({-1, 1}) /\ IsFiniteSet(BOOLEAN)
    <3>1. {-1, 1} = ({} \cup {-1}) \cup {1} /\ BOOLEAN = ({} \cup {TRUE}) \cup {FALSE}
      OBVIOUS
    <3>2. IsFiniteSet(({} \cup {-1}) \cup {1})
      BY FS_EmptySet, FS_AddElement
    <3>3. IsFiniteSet(({} \cup {TRUE}) \cup {FALSE})
      BY FS_EmptySet, FS_AddElement
    <3>4. IsFiniteSet({-1, 1})
      BY <3>1, <3>2
    <3>5. IsFiniteSet(BOOLEAN)
      BY <3>1, <3>3
    <3> QED  BY <3>4, <3>5
  <2>2. IsFiniteSet(BOOLEAN \X {-1, 1})
    BY <2>1, FS_Product
  <2> QED  BY <2>2, SeedAssumed, FS_Product
<1>2. IsFiniteSet({f[k] : k \in Kinds4})
  <2>1. DOMAIN f = Kinds4
    OBVIOUS
  <2> HIDE DEF f, Kinds4
  <2> QED  BY <1>1, <2>1, FiniteImage
<1>3. BallotsFor(B, i) \in SUBSET {f[k] : k \in Kinds4}
  <2> SUFFICES ASSUME NEW v \in BallotsFor(B, i) PROVE \E k \in Kinds4 : v = f[k]
    OBVIOUS
  <2>1. v \in MadeVote /\ v.item = i
    BY DEF BallotsFor
  <2>2. /\ v = [voter |-> v.voter, item |-> v.item, madeUp |-> v.madeUp, value |-> v.value]
        /\ v.voter \in Usernames /\ v.madeUp \in BOOLEAN /\ v.value \in {-1, 1}
    BY <2>1 DEF MadeVote
  <2>3. <<v.voter, <<v.madeUp, v.value>>>> \in Kinds4
    BY <2>2
  <2>4. f[<<v.voter, <<v.madeUp, v.value>>>>] = v
    BY <2>1, <2>2, <2>3
  <2> QED  BY <2>3, <2>4
<1>4. IsFiniteSet(BallotsFor(B, i))
  <2> HIDE DEF f, Kinds4
  <2> QED  BY <1>2, <1>3, FS_Subset
<1>5. ASSUME NEW x PROVE IsFiniteSet(Cast(B, i, x)) /\ Cardinality(Cast(B, i, x)) \in Nat
  BY <1>4, FS_Subset, FS_CardinalityType DEF Cast
<1> QED  BY <1>4, <1>5 DEF Total

\* New votes are added to what an item has.
LEMMA TotalsAdd ==
  ASSUME NEW B \in SUBSET MadeVote, NEW R \in SUBSET MadeVote, NEW i,
         \A v \in R : v.item = i => v \notin B
  PROVE  Total(B \cup R, i) = Total(B, i) + Total(R, i)
<1>1. ASSUME NEW x PROVE Cardinality(Cast(B \cup R, i, x))
                           = Cardinality(Cast(B, i, x)) + Cardinality(Cast(R, i, x))
  <2>1. Cast(B \cup R, i, x) = Cast(B, i, x) \cup Cast(R, i, x)
    BY DEF Cast, BallotsFor
  <2>2. Cast(B, i, x) \cap Cast(R, i, x) = {}
    BY DEF Cast, BallotsFor
  <2>3. /\ IsFiniteSet(Cast(B, i, x)) /\ Cardinality(Cast(B, i, x)) \in Nat
        /\ IsFiniteSet(Cast(R, i, x)) /\ Cardinality(Cast(R, i, x)) \in Nat
    BY VotesOfItem
  <2>4. Cardinality(Cast(B, i, x) \cap Cast(R, i, x)) = 0
    BY <2>2, FS_EmptySet
  <2>5. Cardinality(Cast(B, i, x) \cup Cast(R, i, x))
          = Cardinality(Cast(B, i, x)) + Cardinality(Cast(R, i, x))
              - Cardinality(Cast(B, i, x) \cap Cast(R, i, x))
    BY <2>3, FS_Union
  <2>6. Cardinality(Cast(B, i, x) \cup Cast(R, i, x))
          = Cardinality(Cast(B, i, x)) + Cardinality(Cast(R, i, x))
    BY <2>3, <2>4, <2>5
  <2> QED  BY <2>1, <2>6
<1>2. \A x : Cardinality(Cast(B, i, x)) \in Nat /\ Cardinality(Cast(R, i, x)) \in Nat
  BY VotesOfItem
<1>3. /\ Cardinality(Cast(B \cup R, i, 1)) = Cardinality(Cast(B, i, 1)) + Cardinality(Cast(R, i, 1))
      /\ Cardinality(Cast(B \cup R, i, -1)) = Cardinality(Cast(B, i, -1)) + Cardinality(Cast(R, i, -1))
  BY <1>1
<1> QED  BY <1>2, <1>3 DEF Total

LEMMA TotalOfNone ==
  ASSUME NEW B, NEW i, \A v \in B : v.item # i
  PROVE  Total(B, i) = 0
<1>1. \A x : Cast(B, i, x) = {}
  BY DEF Cast, BallotsFor
<1> QED  BY <1>1, FS_EmptySet DEF Total

LEMMA TotalOfOne ==
  ASSUME NEW v \in MadeVote
  PROVE  Total({v}, v.item) = v.value
<1>1. Cast({v}, v.item, v.value) = {v} /\ Cast({v}, v.item, -v.value) = {}
  BY DEF Cast, BallotsFor, MadeVote
<1>2. Cardinality({v}) = 1 /\ Cardinality({}) = 0
  BY FS_Singleton, FS_EmptySet
<1>3. CASE v.value = 1
  BY <1>1, <1>2, <1>3 DEF Total
<1>4. CASE v.value = -1
  BY <1>1, <1>2, <1>4 DEF Total
<1> QED  BY <1>3, <1>4 DEF MadeVote

\* Nothing but what is stored matters to what has been made.
LEMMA SeedingStepKeeps ==
  ASSUME SeedInv, UNCHANGED <<anchor, stored, seedRuns, settled, loose>>,
         day' \in Nat, meddling' \in Nat, seeding' \in SeedRun,
         folk' \in [Usernames -> {"none", "persona", "human"}], \A n \in Others : folk'[n] = "human",
         RunInOrder', VotesPending'
  PROVE  SeedInv'
<1>1. /\ anchor' = anchor /\ seeded' = seeded /\ ballot' = ballot /\ mark' = mark /\ fame' = fame
      /\ seedRuns' = seedRuns /\ settled' = settled /\ loose' = loose
  BY DEF stored
<1>2. SeedTypes'
  BY <1>1 DEF SeedInv, SeedTypes
<1>3. RunsKnown'
  BY <1>1 DEF SeedInv, RunsKnown
<1>4. ThreadsInOrder'
  BY <1>1 DEF SeedInv, ThreadsInOrder
<1>5. SeedingSound'
  BY <1>1 DEF SeedInv, SeedingSound, TotalsExplained, MadeUpVotesFade, ThreadsCausal, Total, Cast,
     BallotsFor, Earned, ItemsOf
<1> QED  BY <1>2, <1>3, <1>4, <1>5 DEF SeedInv

\* A run that ends leaves what is stored as it is.
LEMMA BreaksOffKeeps ==
  ASSUME SeedInv, BreaksOff, UNCHANGED <<day, folk, anchor, stored, seedRuns, settled, loose, meddling>>
  PROVE  SeedInv'
<1>1. seeding' = NotSeeding
  BY DEF BreaksOff
<1>2. seeding' \in SeedRun
  BY <1>1 DEF NotSeeding, SeedRun, SeedSteps
<1>3. /\ seeding'.step = "idle" /\ seeding'.hit = NoHit /\ seeding'.batch = {}
      /\ seeding'.left = {}
  BY <1>1 DEF NotSeeding
<1>4. RunInOrder' /\ VotesPending'
  BY <1>3 DEF RunInOrder, VotesPending
<1> QED  BY <1>2, <1>4, SeedingStepKeeps DEF SeedInv, SeedTypes, RunsKnown

\* Beside the run: its own state and what is stored stay.
LEMMA BesideRunKeeps ==
  ASSUME SeedInv, UNCHANGED <<anchor, stored, seeding, seedRuns, settled, loose>>,
         day' \in Nat, meddling' \in Nat,
         folk' \in [Usernames -> {"none", "persona", "human"}], \A n \in Others : folk'[n] = "human"
  PROVE  SeedInv'
<1>1. /\ anchor' = anchor /\ seeded' = seeded /\ ballot' = ballot /\ seeding' = seeding
      /\ seedRuns' = seedRuns /\ settled' = settled
  BY DEF stored
<1>2. RunInOrder'
  BY <1>1 DEF SeedInv, RunInOrder, ThisRun, RunDay, MadeSoFar
<1>3. \A h : HitSound(h)' <=> HitSound(h)
  BY <1>1 DEF HitSound, MadeSoFar
<1>4. \A i : MadeVotesOf(i)' = MadeVotesOf(i)
  BY <1>1 DEF MadeVotesOf
<1>5. VotesPending'
  BY <1>1, <1>3, <1>4 DEF SeedInv, VotesPending, MadeSoFar
<1> QED  BY <1>1, <1>2, <1>5, SeedingStepKeeps DEF SeedInv, SeedTypes

\* The run goes from one step of its course to another, short of the votes.
LEMMA CourseKeeps ==
  ASSUME SeedInv, UNCHANGED <<day, anchor, stored, seedRuns, settled, loose, meddling>>,
         seeding' \in SeedRun,
         folk' \in [Usernames -> {"none", "persona", "human"}], \A n \in Others : folk'[n] = "human",
         seeding.step \notin {"idle", "voting"}, seeding'.step # "voting",
         seeding'.from = seeding.from, seeding'.left = seeding.left, seeding'.hit = seeding.hit,
         seeding'.batch = seeding.batch, seeding'.pool = seeding.pool,
         seeding'.step \in {"people", "content", "votes", "pool"} => seeding.step # "repair",
         seeding'.step \in {"votes", "pool"} => RunDay - anchor < DecayDays
  PROVE  SeedInv'
<1>1. /\ anchor' = anchor /\ seeded' = seeded /\ ballot' = ballot
      /\ seedRuns' = seedRuns /\ settled' = settled /\ day' = day /\ meddling' = meddling
  BY DEF stored
<1>2. /\ ThisRun' = ThisRun /\ RunDay' = RunDay /\ MadeSoFar' = MadeSoFar
      /\ \A i : MadeVotesOf(i)' = MadeVotesOf(i)
  BY <1>1 DEF ThisRun, RunDay, MadeSoFar, MadeVotesOf
<1>3. RunInOrder'
  BY <1>1, <1>2 DEF SeedInv, RunInOrder
<1>4. seeding.step \in {"people", "content", "votes", "pool", "repair"}
  BY DEF SeedInv, SeedTypes, SeedRun, SeedSteps
<1>5. seeding'.hit = NoHit /\ seeding'.batch = {}
  BY DEF SeedInv, VotesPending
<1>6. VotesPending'
  BY <1>1, <1>2, <1>4, <1>5 DEF SeedInv, VotesPending
<1> QED  BY <1>1, <1>3, <1>6, SeedingStepKeeps DEF SeedInv, SeedTypes

LEMMA StartSeedingKeeps == SeedInv /\ StartSeeding => SeedInv'
<1> SUFFICES ASSUME SeedInv, StartSeeding PROVE SeedInv'
  OBVIOUS
<1>1. /\ seeded' = seeded /\ ballot' = ballot /\ mark' = mark /\ fame' = fame
      /\ settled' = settled /\ loose' = loose /\ day' = day /\ folk' = folk /\ meddling' = meddling
      /\ anchor' = (IF anchor = Never THEN day ELSE anchor)
      /\ seedRuns' = Append(seedRuns, day)
      /\ seeding' = [NotSeeding EXCEPT !.step = "people", !.plan = FreshNames,
                       !.from = Len(seeded), !.authors = SyntheticUsers \cup FreshNames]
  BY DEF StartSeeding, stored
<1>2. SeedTypes /\ RunsKnown
  BY DEF SeedInv
<1>3. /\ Len(seedRuns') = Len(seedRuns) + 1 /\ Len(seedRuns) \in Nat
      /\ \A r \in 1..Len(seedRuns) : seedRuns'[r] = seedRuns[r]
      /\ seedRuns'[Len(seedRuns) + 1] = day /\ seedRuns' \in Seq(Nat) /\ seedRuns' # << >>
  <2>1. seedRuns \in Seq(Nat) /\ day \in Nat /\ seedRuns' = Append(seedRuns, day)
    BY <1>1, <1>2 DEF SeedTypes
  <2>2. seedRuns' \in Seq(Nat) /\ Len(seedRuns') = Len(seedRuns) + 1 /\ Len(seedRuns) \in Nat
    BY <2>1
  <2>3. \A r \in 1..Len(seedRuns) : seedRuns'[r] = seedRuns[r]
    BY <2>1
  <2>4. seedRuns'[Len(seedRuns) + 1] = day
    BY <2>1
  <2>5. seedRuns' # << >>
    BY <2>2
  <2> QED  BY <2>2, <2>3, <2>4, <2>5
<1>4. /\ seeding'.step = "people" /\ seeding'.hit = NoHit /\ seeding'.batch = {}
      /\ seeding'.left = {} /\ seeding'.pool = {} /\ seeding'.from = Len(seeded)
  BY <1>1 DEF NotSeeding
<1>5. seeding' \in SeedRun
  <2>1. FreshNames \in SUBSET Planned /\ SyntheticUsers \cup FreshNames \in SUBSET Usernames
    BY SeedAssumed DEF FreshNames, SyntheticUsers
  <2>2. Len(seeded) \in Nat
    BY <1>2 DEF SeedTypes
  <2> QED  BY <1>1, <2>1, <2>2 DEF NotSeeding, SeedRun, SeedSteps
<1>6. SeedTypes'
  BY <1>1, <1>2, <1>3, <1>5 DEF SeedTypes
<1>7. RunsKnown'
  <2>1. anchor' = (IF seedRuns' = << >> THEN Never ELSE seedRuns'[1])
    <3>1. CASE seedRuns = << >>
      <4>1. anchor = Never /\ Len(seedRuns) = 0
        BY <1>2, <3>1 DEF RunsKnown
      <4> QED  BY <1>1, <1>3, <4>1
    <3>2. CASE seedRuns # << >>
      <4>1. anchor = seedRuns[1] /\ Len(seedRuns) >= 1 /\ seedRuns[1] \in Nat
        BY <1>2, <3>2 DEF RunsKnown, SeedTypes
      <4>2. anchor # Never
        BY <4>1 DEF Never
      <4> QED  BY <1>1, <1>3, <4>1, <4>2
    <3> QED  BY <3>1, <3>2
  <2>2. settled' \subseteq 1..Len(seedRuns')
    BY <1>1, <1>2, <1>3 DEF RunsKnown
  <2>3. \A i \in 1..Len(seeded') : seeded'[i].run \in 1..Len(seedRuns')
    BY <1>1, <1>2, <1>3 DEF RunsKnown
  <2> QED  BY <1>1, <1>2, <2>1, <2>2, <2>3 DEF RunsKnown
<1>8. MadeSoFar' = {} /\ ThisRun' = Len(seedRuns) + 1
  BY <1>1, <1>2, <1>3, <1>4 DEF MadeSoFar, ThisRun, SeedTypes
<1>9. RunInOrder'
  <2>1. ThisRun' \notin settled' /\ seedRuns' # << >>
    BY <1>1, <1>2, <1>3, <1>8 DEF RunsKnown
  <2>2. seeding'.from <= Len(seeded')
    BY <1>1, <1>2, <1>4 DEF SeedTypes
  <2> QED  BY <1>4, <1>8, <2>1, <2>2 DEF RunInOrder
<1>10. VotesPending'
  BY <1>4, <1>8 DEF VotesPending
<1>11. ThreadsInOrder'
  BY <1>1 DEF SeedInv, ThreadsInOrder
<1>12. SeedingSound'
  <2>1. DOMAIN seeded = 1..Len(seeded)
    BY <1>2 DEF SeedTypes
  <2>2. \A i \in DOMAIN seeded : /\ seedRuns'[seeded[i].run] = seedRuns[seeded[i].run]
                                 /\ seedRuns'[1] = seedRuns[1]
    <3> SUFFICES ASSUME NEW i \in DOMAIN seeded
                 PROVE  /\ seedRuns'[seeded[i].run] = seedRuns[seeded[i].run]
                        /\ seedRuns'[1] = seedRuns[1]
      OBVIOUS
    <3>1. seeded[i].run \in 1..Len(seedRuns)
      BY <1>2, <2>1 DEF RunsKnown
    <3>2. 1 \in 1..Len(seedRuns)
      BY <1>3, <3>1
    <3>3. \A r \in 1..Len(seedRuns) : seedRuns'[r] = seedRuns[r]
      BY <1>3
    <3> QED  BY <3>1, <3>2, <3>3
  <2>3. TotalsExplained'
    <3>1. \A i : BallotsFor(ballot, i)' = BallotsFor(ballot, i) /\ Total(ballot, i)' = Total(ballot, i)
      BY <1>1 DEF Total, Cast, BallotsFor
    <3>2. \A n : Earned(mark, n)' = Earned(mark, n)
      BY <1>1 DEF Earned, ItemsOf
    <3> QED  BY <1>1, <3>1, <3>2 DEF SeedInv, SeedingSound, TotalsExplained
  <2>4. MadeUpVotesFade'
    BY <1>1, <2>2 DEF SeedInv, SeedingSound, MadeUpVotesFade
  <2>5. ThreadsCausal'
    BY <1>1, <2>2 DEF SeedInv, SeedingSound, ThreadsCausal
  <2> QED  BY <2>3, <2>4, <2>5 DEF SeedingSound
<1> QED  BY <1>6, <1>7, <1>9, <1>10, <1>11, <1>12 DEF SeedInv

LEMMA PersistUserKeeps == SeedInv /\ PersistUser => SeedInv'
<1> SUFFICES ASSUME SeedInv, PersistUser PROVE SeedInv'
  OBVIOUS
<1>1. PICK n \in seeding.plan :
        IF folk[n] # "none" THEN BreaksOff /\ UNCHANGED folk
        ELSE /\ folk' = [folk EXCEPT ![n] = "persona"]
             /\ seeding' = [seeding EXCEPT !.plan = @ \ {n}]
  BY DEF PersistUser
<1>2. UNCHANGED <<day, anchor, stored, seedRuns, settled, loose, meddling>> /\ seeding.step = "people"
  BY DEF PersistUser
<1>3. CASE folk[n] # "none"
  BY <1>1, <1>2, <1>3, BreaksOffKeeps
<1>4. CASE folk[n] = "none"
  <2>1. /\ folk' = [folk EXCEPT ![n] = "persona"] /\ seeding' = [seeding EXCEPT !.plan = @ \ {n}]
    BY <1>1, <1>4
  <2>2. folk \in [Usernames -> {"none", "persona", "human"}] /\ seeding \in SeedRun
    BY DEF SeedInv, SeedTypes
  <2>3. n \notin Others
    BY <1>4 DEF SeedInv, RunsKnown
  <2>4. /\ folk' \in [Usernames -> {"none", "persona", "human"}]
        /\ \A m \in Others : folk'[m] = "human"
    BY <2>1, <2>2, <2>3, SeedAssumed DEF SeedInv, RunsKnown
  <2>5. seeding' \in SeedRun
    BY <2>1, <2>2 DEF SeedRun
  <2>6. /\ seeding'.from = seeding.from /\ seeding'.left = seeding.left
        /\ seeding'.hit = seeding.hit /\ seeding'.batch = seeding.batch
        /\ seeding'.pool = seeding.pool /\ seeding'.step = "people"
    BY <1>2, <2>1, <2>2 DEF SeedRun
  <2> QED  BY <1>2, <2>4, <2>5, <2>6, CourseKeeps
<1> QED  BY <1>3, <1>4

LEMMA CourseStepsKeep ==
  SeedInv /\ (PeopleDone \/ ContentDone \/ CountVoters) => SeedInv'
<1> SUFFICES ASSUME SeedInv, PeopleDone \/ ContentDone \/ CountVoters PROVE SeedInv'
  OBVIOUS
<1>1. /\ folk \in [Usernames -> {"none", "persona", "human"}] /\ seeding \in SeedRun
      /\ \A n \in Others : folk[n] = "human"
  BY DEF SeedInv, SeedTypes, RunsKnown
<1>2. UNCHANGED <<day, folk, anchor, stored, seedRuns, settled, loose, meddling>>
  BY DEF PeopleDone, ContentDone, CountVoters
<1>3. CASE PeopleDone
  <2>1. seeding' = [seeding EXCEPT !.step = "content"] /\ seeding.step = "people"
    BY <1>3 DEF PeopleDone
  <2>2. /\ seeding' \in SeedRun
        /\ seeding'.from = seeding.from /\ seeding'.left = seeding.left
        /\ seeding'.hit = seeding.hit /\ seeding'.batch = seeding.batch
        /\ seeding'.pool = seeding.pool /\ seeding'.step = "content"
    BY <1>1, <2>1 DEF SeedRun, SeedSteps
  <2> QED  BY <1>1, <1>2, <2>1, <2>2, CourseKeeps
<1>4. CASE ContentDone
  <2>1. /\ seeding' = [seeding EXCEPT !.step = IF VotesLeft(anchor) THEN "votes" ELSE "repair"]
        /\ seeding.step = "content"
    BY <1>4 DEF ContentDone
  <2>2. /\ seeding' \in SeedRun
        /\ seeding'.from = seeding.from /\ seeding'.left = seeding.left
        /\ seeding'.hit = seeding.hit /\ seeding'.batch = seeding.batch
        /\ seeding'.pool = seeding.pool
        /\ seeding'.step = IF VotesLeft(anchor) THEN "votes" ELSE "repair"
    BY <1>1, <2>1 DEF SeedRun, SeedSteps
  <2> QED  BY <1>1, <1>2, <2>1, <2>2, CourseKeeps DEF VotesLeft
<1>5. CASE CountVoters
  <2>1. /\ seeding.step = "votes"
        /\ \/ seeding' = [seeding EXCEPT !.step = "repair"]
           \/ /\ Cardinality(SyntheticUsers) > 1
              /\ seeding' = [seeding EXCEPT !.step = "pool",
                                            !.capacity = Cardinality(SyntheticUsers) - 1]
    <3>1. Cardinality(SyntheticUsers) \in Nat
      BY SeedAssumed, FS_Subset, FS_CardinalityType DEF SyntheticUsers
    <3> QED  BY <1>5, <3>1 DEF CountVoters
  <2>2. Cardinality(SyntheticUsers) > 1 => Cardinality(SyntheticUsers) - 1 \in Nat
    BY SeedAssumed, FS_Subset, FS_CardinalityType DEF SyntheticUsers
  <2>3. /\ seeding' \in SeedRun
        /\ seeding'.from = seeding.from /\ seeding'.left = seeding.left
        /\ seeding'.hit = seeding.hit /\ seeding'.batch = seeding.batch
        /\ seeding'.pool = seeding.pool /\ seeding'.step \in {"pool", "repair"}
    BY <1>1, <2>1, <2>2 DEF SeedRun, SeedSteps
  <2>4. RunDay - anchor < DecayDays
    BY <2>1 DEF SeedInv, RunInOrder
  <2> QED  BY <1>1, <1>2, <2>1, <2>3, <2>4, CourseKeeps
<1> QED  BY <1>3, <1>4, <1>5

\* One of each: as many as there were.
LEMMA ImageCounted ==
  ASSUME NEW S, IsFiniteSet(S), NEW f, DOMAIN f = S,
         \A x \in S, y \in S : f[x] = f[y] => x = y
  PROVE  /\ IsFiniteSet({f[x] : x \in S})
         /\ Cardinality({f[x] : x \in S}) = Cardinality(S)
<1> DEFINE g == [x \in S |-> f[x]]
           T == {f[x] : x \in S}
<1>1. /\ g \in [S -> T] /\ \A t \in T : \E x \in S : g[x] = t
      /\ \A x \in S, y \in S : g[x] = g[y] => x = y
  OBVIOUS
<1>2. g \in Surjection(S, T)
  <2> HIDE DEF g, T
  <2> QED  BY <1>1 DEF Surjection
<1>3. g \in Injection(S, T)
  <2> HIDE DEF g, T
  <2> QED  BY <1>1 DEF Injection, IsInjective
<1>4. IsFiniteSet(T) /\ Cardinality(T) = Cardinality(S)
  <2> HIDE DEF g, T
  <2> QED  BY <1>2, <1>3, FS_Surjection
<1> QED  BY <1>4

\* So many up and so many down make the target, with the pairs that cancel out.
LEMMA OnesCounted ==
  ASSUME NEW target \in Int, NEW k \in Nat
  PROVE  /\ Ones(target, k)[1] \in Nat /\ Ones(target, k)[2] \in Nat
         /\ Ones(target, k)[1] - Ones(target, k)[2] = target
         /\ Ones(target, k)[1] + Ones(target, k)[2] = Magnitude(target) + 2 * k
         /\ Magnitude(target) \in Nat
<1>1. \A x \in Int : Max({x, 0}) \in {x, 0} /\ Max({x, 0}) >= x /\ Max({x, 0}) >= 0
  <2> SUFFICES ASSUME NEW x \in Int
               PROVE  Max({x, 0}) \in {x, 0} /\ Max({x, 0}) >= x /\ Max({x, 0}) >= 0
    OBVIOUS
  <2>1. {x, 0} = ({} \cup {x}) \cup {0} /\ {x, 0} \in SUBSET Int /\ {x, 0} # {}
    OBVIOUS
  <2>2. IsFiniteSet(({} \cup {x}) \cup {0})
    BY FS_EmptySet, FS_AddElement
  <2>3. IsFiniteSet({x, 0})
    BY <2>1, <2>2
  <2>4. Max({x, 0}) \in {x, 0} /\ \A y \in {x, 0} : y <= Max({x, 0})
    BY <2>1, <2>3, Greatest
  <2> QED  BY <2>4
<1>2. \A x \in Int : Max({x, 0}) = IF x < 0 THEN 0 ELSE x
  BY <1>1
<1> QED  BY <1>2 DEF Ones, Magnitude

LEMMA NextUpKnown ==
  ASSUME SeedInv, seeding.step # "idle", seeding.left # {}
  PROVE  NextUp \in seeding.left /\ NextUp \in MadeSoFar
<1>1. seeding.left \in SUBSET Nat /\ seeding.left \subseteq MadeSoFar
  BY DEF SeedInv, SeedTypes, SeedRun, RunInOrder
<1>2. ASSUME NEW S \in SUBSET Nat, S # {} PROVE Min(S) \in S
  <2>1. \E n \in S : \A m \in S : n <= m
    BY <1>2, LeastNat
  <2> QED  BY <2>1 DEF Min
<1> DEFINE posts == seeding.left \cap PostsSoFar
           some == IF posts # {} THEN posts ELSE seeding.left
<1>3. some \in SUBSET Nat /\ some # {} /\ some \subseteq seeding.left
  BY <1>1
<1>4. NextUp = Min(some)
  BY DEF NextUp
<1> HIDE DEF some
<1> QED  BY <1>1, <1>2, <1>3, <1>4

\* What the vote pass does to its own state keeps the rest.
LEMMA PassKeeps ==
  ASSUME SeedInv, UNCHANGED <<day, folk, anchor, stored, seedRuns, settled, loose, meddling>>,
         seeding.step # "idle", seeding' \in SeedRun, seeding'.step = "voting",
         seeding'.from = seeding.from, seeding'.left \subseteq MadeSoFar,
         seeding'.pool \cap Others = {}, RunDay - anchor < DecayDays,
         seeding'.hit # NoHit => HitSound(seeding'.hit) /\ seeding'.hit.item \in seeding'.left,
         \A h \in seeding'.batch :
            /\ HitSound(h) /\ h.item \notin seeding'.left /\ MadeVotesOf(h.item) = {}
            /\ \A g \in seeding'.batch : g.item = h.item => g = h,
         \A i \in seeding'.left : MadeVotesOf(i) = {}
  PROVE  SeedInv'
<1>1. /\ anchor' = anchor /\ seeded' = seeded /\ ballot' = ballot /\ folk' = folk
      /\ seedRuns' = seedRuns /\ settled' = settled /\ day' = day /\ meddling' = meddling
  BY DEF stored
<1>2. /\ ThisRun' = ThisRun /\ RunDay' = RunDay /\ MadeSoFar' = MadeSoFar
      /\ \A i : MadeVotesOf(i)' = MadeVotesOf(i)
      /\ \A h : HitSound(h)' <=> HitSound(h)
  BY <1>1 DEF ThisRun, RunDay, MadeSoFar, MadeVotesOf, HitSound
<1>3. RunInOrder'
  BY <1>1, <1>2 DEF SeedInv, RunInOrder
<1>4. VotesPending'
  BY <1>1, <1>2 DEF VotesPending
<1> QED  BY <1>1, <1>3, <1>4, SeedingStepKeeps DEF SeedInv, SeedTypes, RunsKnown

LEMMA ReadPoolKeeps == SeedInv /\ ReadPool => SeedInv'
<1> SUFFICES ASSUME SeedInv, ReadPool PROVE SeedInv'
  OBVIOUS
<1>1. /\ seeding.step = "pool"
      /\ seeding' = [seeding EXCEPT !.step = "voting", !.pool = SyntheticUsers, !.left = MadeSoFar]
      /\ UNCHANGED <<day, folk, anchor, stored, seedRuns, settled, loose, meddling>>
  BY DEF ReadPool
<1>2. seeding \in SeedRun /\ seeding.hit = NoHit /\ seeding.batch = {} /\ RunDay - anchor < DecayDays
  BY <1>1 DEF SeedInv, SeedTypes, VotesPending, RunInOrder
<1>3. SyntheticUsers \in SUBSET Usernames /\ SyntheticUsers \cap Others = {}
  BY DEF SeedInv, RunsKnown, SyntheticUsers
<1>4. MadeSoFar \in SUBSET Nat
  BY DEF MadeSoFar, SeedInv, SeedTypes, SeedRun
<1>5. /\ seeding' \in SeedRun /\ seeding'.step = "voting" /\ seeding'.from = seeding.from
      /\ seeding'.left = MadeSoFar /\ seeding'.pool = SyntheticUsers
      /\ seeding'.hit = NoHit /\ seeding'.batch = {}
  BY <1>1, <1>2, <1>3, <1>4 DEF SeedRun, SeedSteps
<1>6. \A i \in MadeSoFar : MadeVotesOf(i) = {}
  BY <1>1 DEF SeedInv, VotesPending
<1> QED  BY <1>1, <1>2, <1>3, <1>5, <1>6, PassKeeps

LEMMA PassItemKeeps == SeedInv /\ PassItem => SeedInv'
<1> SUFFICES ASSUME SeedInv, PassItem PROVE SeedInv'
  OBVIOUS
<1>1. /\ seeding.step = "voting" /\ seeding.hit = NoHit
      /\ seeding' = [seeding EXCEPT !.left = @ \ {NextUp}]
      /\ UNCHANGED <<day, folk, anchor, stored, seedRuns, settled, loose, meddling>>
  BY DEF PassItem
<1>2. seeding \in SeedRun
  BY DEF SeedInv, SeedTypes
<1>3. /\ seeding' \in SeedRun /\ seeding'.step = "voting" /\ seeding'.from = seeding.from
      /\ seeding'.left = seeding.left \ {NextUp} /\ seeding'.pool = seeding.pool
      /\ seeding'.hit = NoHit /\ seeding'.batch = seeding.batch
  BY <1>1, <1>2 DEF SeedRun
<1>4. /\ seeding'.left \subseteq seeding.left /\ seeding.left \subseteq MadeSoFar
      /\ seeding.pool \cap Others = {} /\ RunDay - anchor < DecayDays
  BY <1>1, <1>3 DEF SeedInv, RunInOrder
<1>5. /\ \A h \in seeding.batch :
           /\ HitSound(h) /\ h.item \notin seeding.left /\ MadeVotesOf(h.item) = {}
           /\ \A g \in seeding.batch : g.item = h.item => g = h
      /\ \A i \in seeding.left : MadeVotesOf(i) = {}
  BY DEF SeedInv, VotesPending
<1> QED  BY <1>1, <1>3, <1>4, <1>5, PassKeeps

LEMMA FlushItemKeeps == SeedInv /\ FlushItem => SeedInv'
<1> SUFFICES ASSUME SeedInv, FlushItem PROVE SeedInv'
  OBVIOUS
<1> DEFINE h == seeding.hit
<1>1. /\ seeding.step = "voting" /\ h # NoHit
      /\ \/ BreaksOff
         \/ seeding' = [seeding EXCEPT !.batch = @ \cup {h}, !.hit = NoHit, !.left = @ \ {h.item}]
      /\ UNCHANGED <<day, folk, anchor, stored, seedRuns, settled, loose, meddling>>
  BY DEF FlushItem
<1>2. CASE BreaksOff
  BY <1>1, <1>2, BreaksOffKeeps
<1>3. CASE seeding' = [seeding EXCEPT !.batch = @ \cup {h}, !.hit = NoHit, !.left = @ \ {h.item}]
  <2>1. seeding \in SeedRun /\ h \in Backfill
    BY <1>1 DEF SeedInv, SeedTypes, SeedRun
  <2>2. /\ seeding' \in SeedRun /\ seeding'.step = "voting" /\ seeding'.from = seeding.from
        /\ seeding'.left = seeding.left \ {h.item} /\ seeding'.pool = seeding.pool
        /\ seeding'.hit = NoHit /\ seeding'.batch = seeding.batch \cup {h}
    BY <1>1, <1>3, <2>1 DEF SeedRun
  <2>3. /\ seeding.left \subseteq MadeSoFar
        /\ seeding.pool \cap Others = {} /\ RunDay - anchor < DecayDays
    BY <1>1 DEF SeedInv, RunInOrder
  <2>4. /\ \A e \in seeding.batch :
             /\ HitSound(e) /\ e.item \notin seeding.left /\ MadeVotesOf(e.item) = {}
             /\ \A g \in seeding.batch : g.item = e.item => g = e
        /\ \A i \in seeding.left : MadeVotesOf(i) = {}
        /\ HitSound(h) /\ h.item \in seeding.left
    BY <1>1 DEF SeedInv, VotesPending
  <2> HIDE DEF h
  <2>5. \A e \in seeding'.batch :
             /\ HitSound(e) /\ e.item \notin seeding'.left /\ MadeVotesOf(e.item) = {}
             /\ \A g \in seeding'.batch : g.item = e.item => g = e
    BY <2>2, <2>4
  <2>6. seeding'.left \subseteq seeding.left
    BY <2>2
  <2> QED  BY <1>1, <2>2, <2>3, <2>4, <2>5, <2>6, PassKeeps
<1> QED  BY <1>1, <1>2, <1>3

\* The rows of an item's votes: each voter once, so many up and so many down.
LEMMA BackfillCounted ==
  ASSUME NEW all \in SUBSET Usernames, NEW up \in SUBSET all, NEW i,
         NEW given, given = {[voter |-> v, item |-> i, madeUp |-> TRUE,
                            value |-> IF v \in up THEN 1 ELSE -1] : v \in all}
  PROVE  /\ IsFiniteSet(given) /\ Cardinality(given) = Cardinality(all)
         /\ Total(given, i) = Cardinality(up) - (Cardinality(all) - Cardinality(up))
         /\ Cardinality(all) \in Nat /\ Cardinality(up) \in Nat
<1> DEFINE f == [v \in all |-> [voter |-> v, item |-> i, madeUp |-> TRUE,
                                value |-> IF v \in up THEN 1 ELSE -1]]
<1>1. DOMAIN f = all /\ given = {f[v] : v \in all}
  OBVIOUS
<1>2. \A v \in all : /\ f[v].voter = v /\ f[v].item = i
                     /\ f[v].value = IF v \in up THEN 1 ELSE -1
  OBVIOUS
<1> HIDE DEF f
<1>3. IsFiniteSet(all) /\ IsFiniteSet(up) /\ IsFiniteSet(all \ up)
  BY SeedAssumed, FS_Subset
<1>4. IsFiniteSet(given) /\ Cardinality(given) = Cardinality(all)
  BY <1>1, <1>2, <1>3, ImageCounted
<1>5. ASSUME NEW V \in SUBSET all
      PROVE  Cardinality({f[v] : v \in V}) = Cardinality(V)
  <2> DEFINE e == [v \in V |-> f[v]]
  <2>1. DOMAIN e = V /\ \A x \in V, y \in V : e[x] = e[y] => x = y
    BY <1>2
  <2>2. IsFiniteSet(V) /\ {e[v] : v \in V} = {f[v] : v \in V}
    BY <1>3, FS_Subset
  <2> HIDE DEF e
  <2>3. Cardinality({e[v] : v \in V}) = Cardinality(V)
    BY <2>1, <2>2, ImageCounted
  <2> QED  BY <2>2, <2>3
<1>6. Cast(given, i, 1) = {f[v] : v \in up} /\ Cast(given, i, -1) = {f[v] : v \in all \ up}
  BY <1>1, <1>2 DEF Cast, BallotsFor
<1>7. Cardinality(Cast(given, i, 1)) = Cardinality(up)
  BY <1>5, <1>6
<1>8. Cardinality(Cast(given, i, -1)) = Cardinality(all \ up)
  BY <1>5, <1>6, all \ up \in SUBSET all
<1>9. /\ Cardinality(all) \in Nat /\ Cardinality(up) \in Nat /\ Cardinality(all \ up) \in Nat
      /\ Cardinality(all) = Cardinality(up) + Cardinality(all \ up)
  <2>1. Cardinality(all) \in Nat /\ Cardinality(up) \in Nat /\ Cardinality(all \ up) \in Nat
    BY <1>3, FS_CardinalityType
  <2>2. Cardinality(up \cup (all \ up))
          = Cardinality(up) + Cardinality(all \ up) - Cardinality(up \cap (all \ up))
    BY <1>3, FS_Union
  <2>3. up \cup (all \ up) = all /\ up \cap (all \ up) = {}
    OBVIOUS
  <2>4. Cardinality(up \cap (all \ up)) = 0
    BY <2>3, FS_EmptySet
  <2>5. Cardinality(all) = Cardinality(up \cup (all \ up))
    BY <2>3
  <2>6. Cardinality(up \cup (all \ up)) = Cardinality(up) + Cardinality(all \ up)
    BY <2>1, <2>2, <2>4
  <2> QED  BY <2>1, <2>5, <2>6
<1>10. Total(given, i) = Cardinality(up) - Cardinality(all \ up)
  BY <1>7, <1>8 DEF Total
<1> QED  BY <1>4, <1>9, <1>10

LEMMA VoteItemKeeps ==
  ASSUME SeedInv, NEW target \in (-SeedVoteMax)..SeedVoteMax, NEW k \in 0..SeedVoteMax,
         VoteItem(target, k)
  PROVE  SeedInv'
<1> DEFINE i == NextUp
           bound == Min({SeedVoteMax, seeding.capacity})
           ones == Ones(target, k)
           row(v, up) == [voter |-> v, item |-> i, madeUp |-> TRUE,
                          value |-> IF v \in up THEN 1 ELSE -1]
<1>1. /\ seeding.step = "voting" /\ seeding.left # {} /\ seeding.hit = NoHit
      /\ UNCHANGED <<day, folk, anchor, stored, seedRuns, settled, loose, meddling>>
      /\ Magnitude(target) <= bound /\ k <= (bound - Magnitude(target)) \div 2
  BY DEF VoteItem
<1>2. PICK all \in Picks(i, ones[1] + ones[2]) : \E up \in SUBSET all :
        /\ Cardinality(up) = ones[1]
        /\ seeding' = [seeding EXCEPT !.hit = [item |-> i, target |-> target,
                                               rows |-> {row(v, up) : v \in all}]]
  BY DEF VoteItem
<1>3. PICK up \in SUBSET all :
        /\ Cardinality(up) = ones[1]
        /\ seeding' = [seeding EXCEPT !.hit = [item |-> i, target |-> target,
                                               rows |-> {row(v, up) : v \in all}]]
  BY <1>2
<1> DEFINE given == {row(v, up) : v \in all}
           h == [item |-> i, target |-> target, rows |-> given]
<1>4. /\ seeding \in SeedRun /\ seeding.pool \in SUBSET Usernames /\ seeding.capacity \in Nat
  BY DEF SeedInv, SeedTypes, SeedRun
<1>5. i \in seeding.left /\ i \in MadeSoFar /\ i \in Nat
  <2>1. NextUp \in seeding.left /\ NextUp \in MadeSoFar
    BY <1>1, NextUpKnown
  <2> QED  BY <1>4, <2>1 DEF SeedRun
<1>6. /\ all \in SUBSET (seeding.pool \ {seeded[i].by}) /\ Cardinality(all) = ones[1] + ones[2]
  BY <1>2 DEF Picks
<1>7. all \in SUBSET Usernames
  BY <1>4, <1>6
<1>8. /\ IsFiniteSet(given) /\ Cardinality(given) = Cardinality(all)
      /\ Total(given, i) = Cardinality(up) - (Cardinality(all) - Cardinality(up))
      /\ Cardinality(all) \in Nat /\ Cardinality(up) \in Nat
  BY <1>7, BackfillCounted
<1>9. target \in Int /\ k \in Nat /\ SeedVoteMax \in Nat
  BY SeedAssumed
<1>10. /\ ones[1] \in Nat /\ ones[2] \in Nat /\ ones[1] - ones[2] = target
       /\ ones[1] + ones[2] = Magnitude(target) + 2 * k /\ Magnitude(target) \in Nat
  BY <1>9, OnesCounted
<1>11. bound \in Int /\ bound <= SeedVoteMax
  <2> DEFINE c == seeding.capacity
  <2>1. c \in Int /\ SeedVoteMax \in Int
    BY <1>4, <1>9
  <2> HIDE DEF c
  <2>2. Min({SeedVoteMax, c}) \in {SeedVoteMax, c} /\ Min({SeedVoteMax, c}) <= SeedVoteMax
    BY <2>1, OfTwo
  <2> QED  BY <2>1, <2>2 DEF c
<1>12. Cardinality(given) <= SeedVoteMax /\ Total(given, i) = target
  <2>1. Cardinality(given) = Magnitude(target) + 2 * k
    BY <1>6, <1>8, <1>10
  <2>2. Total(given, i) = ones[1] - ones[2]
    BY <1>3, <1>6, <1>8, <1>10
  <2>3. Magnitude(target) + 2 * k <= bound
    <3> HIDE DEF bound
    <3> QED  BY <1>1, <1>9, <1>10, <1>11
  <2> HIDE DEF bound, ones, given
  <2> QED  BY <1>9, <1>10, <1>11, <2>1, <2>2, <2>3
<1>13. given \in SUBSET MadeVote
  <2>1. \A v \in all : v \in Usernames /\ (IF v \in up THEN 1 ELSE -1) \in {-1, 1}
    BY <1>7
  <2> DEFINE worth(v) == IF v \in up THEN 1 ELSE -1
  <2>2. \A v \in all : v \in Usernames /\ worth(v) \in {-1, 1}
    BY <2>1
  <2>3. given = {[voter |-> v, item |-> i, madeUp |-> TRUE, value |-> worth(v)] : v \in all}
    OBVIOUS
  <2> HIDE DEF worth, i, given
  <2>4. \A v \in all : [voter |-> v, item |-> i, madeUp |-> TRUE, value |-> worth(v)] \in MadeVote
    BY <1>5, <2>2 DEF MadeVote
  <2> QED  BY <2>3, <2>4
<1>14. h \in Backfill
  BY <1>5, <1>9, <1>13 DEF Backfill
<1>15. h.item = i /\ h.target = target /\ h.rows = given
  OBVIOUS
<1>16. \A v \in given : /\ v.item = i /\ v.madeUp /\ v.voter # seeded[i].by
                       /\ v.voter \notin Others
  <2>1. seeding.pool \cap Others = {}
    BY <1>1 DEF SeedInv, RunInOrder
  <2>2. \A v \in all : v # seeded[i].by /\ v \notin Others
    BY <1>6, <2>1
  <2> QED  BY <2>2
<1> HIDE DEF h, given
<1>17. HitSound(h)
  BY <1>5, <1>8, <1>12, <1>15, <1>16 DEF HitSound
<1>18. seeding' = [seeding EXCEPT !.hit = h]
  BY <1>3 DEF h, given
<1>19. /\ seeding' \in SeedRun /\ seeding'.step = "voting" /\ seeding'.from = seeding.from
       /\ seeding'.left = seeding.left /\ seeding'.pool = seeding.pool
       /\ seeding'.hit = h /\ seeding'.batch = seeding.batch
  BY <1>1, <1>4, <1>14, <1>18 DEF SeedRun
<1>20. /\ seeding.left \subseteq MadeSoFar /\ seeding.pool \cap Others = {}
       /\ RunDay - anchor < DecayDays
  BY <1>1 DEF SeedInv, RunInOrder
<1>21. /\ \A e \in seeding.batch :
            /\ HitSound(e) /\ e.item \notin seeding.left /\ MadeVotesOf(e.item) = {}
            /\ \A g \in seeding.batch : g.item = e.item => g = e
       /\ \A j \in seeding.left : MadeVotesOf(j) = {}
  BY DEF SeedInv, VotesPending
<1> QED  BY <1>1, <1>5, <1>15, <1>17, <1>19, <1>20, <1>21, PassKeeps

\* A table over the first n ids is a sequence.
LEMMA TableIsSeq ==
  ASSUME NEW n \in Nat, NEW T, NEW f, DOMAIN f = 1..n, f = [x \in 1..n |-> f[x]],
         \A x \in 1..n : f[x] \in T
  PROVE  f \in Seq(T) /\ Len(f) = n
<1>1. f \in [1..n -> T]
  BY Zenon
<1> QED  BY <1>1

\* What is committed: the batch's votes, and its targets as scores.
LEMMA BatchCommitted ==
  ASSUME SeedInv, CommitBatch
  PROVE  /\ ballot' \in SUBSET MadeVote
         /\ \A v \in ballot' : v.item \in 1..Len(seeded)
         /\ \A h \in seeding.batch :
              /\ {v \in BallotsFor(ballot', h.item) : v.madeUp} = h.rows
              /\ BallotsFor(ballot, h.item) \subseteq BallotsFor(ballot', h.item)
              /\ Total(ballot', h.item) = Total(ballot, h.item) + h.target
              /\ mark'[h.item] = h.target
         /\ \A i \in 1..Len(seeded) : (\A h \in seeding.batch : h.item # i) =>
              /\ BallotsFor(ballot', i) = BallotsFor(ballot, i)
              /\ Total(ballot', i) = Total(ballot, i)
              /\ mark'[i] = mark[i]
         /\ mark' \in Seq(Int) /\ Len(mark') = Len(mark)
         /\ seeding.batch = {} => mark' = mark
<1> DEFINE B == seeding.batch
           R == UNION {h.rows : h \in B}
           of(i) == CHOOSE h \in B : h.item = i
<1>1. /\ ballot' = ballot \cup R
      /\ mark' = [i \in DOMAIN mark |-> IF \E h \in B : h.item = i THEN of(i).target ELSE mark[i]]
      /\ seeding.step = "voting"
  BY DEF CommitBatch
<1>2. /\ B \in SUBSET Backfill /\ ballot \in SUBSET MadeVote /\ mark \in Seq(Int)
      /\ Len(mark) = Len(seeded) /\ Len(seeded) \in Nat /\ DOMAIN mark = 1..Len(seeded)
  BY DEF SeedInv, SeedTypes, SeedRun
<1>3. \A h \in B : /\ HitSound(h) /\ MadeVotesOf(h.item) = {} /\ h.item \in 1..Len(seeded)
                   /\ \A g \in B : g.item = h.item => g = h
  <2>1. MadeSoFar \subseteq 1..Len(seeded)
    BY DEF SeedInv, SeedTypes, SeedRun, MadeSoFar
  <2>2. \A h \in B : /\ HitSound(h) /\ MadeVotesOf(h.item) = {}
                     /\ \A g \in B : g.item = h.item => g = h
    BY DEF SeedInv, VotesPending
  <2> QED  BY <2>1, <2>2 DEF HitSound
<1>4. \A h \in B : \A v \in h.rows : v.item = h.item /\ v.madeUp /\ v \in MadeVote
  BY <1>2, <1>3 DEF HitSound, Backfill
<1>5. \A h \in B : h.rows \in SUBSET R /\ h.target \in Int
  BY <1>2 DEF Backfill
<1>6. \A v \in R : \E h \in B : v \in h.rows
  OBVIOUS
<1> HIDE DEF R
<1>7. R \in SUBSET MadeVote /\ ballot' \in SUBSET MadeVote
  BY <1>1, <1>2, <1>4, <1>6
<1>8. \A v \in ballot' : v.item \in 1..Len(seeded)
  BY <1>1, <1>3, <1>4, <1>6 DEF SeedInv, RunsKnown
<1>9. \A h \in B : of(h.item) = h
  <2> SUFFICES ASSUME NEW h \in B PROVE of(h.item) = h
    OBVIOUS
  <2>1. of(h.item) \in B /\ of(h.item).item = h.item
    OBVIOUS
  <2> QED  BY <1>3, <2>1
<1> HIDE DEF of, B
<1>10. ASSUME NEW h \in B
       PROVE  /\ {v \in BallotsFor(ballot', h.item) : v.madeUp} = h.rows
              /\ BallotsFor(ballot, h.item) \subseteq BallotsFor(ballot', h.item)
              /\ Total(ballot', h.item) = Total(ballot, h.item) + h.target
              /\ mark'[h.item] = h.target
  <2>1. \A v \in R : v.item = h.item => v \in h.rows
    BY <1>3, <1>4, <1>6
  <2>2. \A v \in ballot : v.item = h.item => ~ v.madeUp
    BY <1>3 DEF MadeVotesOf, BallotsFor
  <2>3. BallotsFor(R, h.item) = h.rows /\ BallotsFor(h.rows, h.item) = h.rows
    BY <1>4, <1>5, <2>1 DEF BallotsFor
  <2>4. {v \in BallotsFor(ballot', h.item) : v.madeUp} = h.rows
    BY <1>1, <1>4, <1>5, <2>1, <2>2 DEF BallotsFor
  <2>5. BallotsFor(ballot, h.item) \subseteq BallotsFor(ballot', h.item)
    BY <1>1 DEF BallotsFor
  <2>6. Total(R, h.item) = Total(h.rows, h.item)
    BY <2>3 DEF Total, Cast
  <2>7. \A v \in R : v.item = h.item => v \notin ballot
    BY <1>4, <2>1, <2>2
  <2>8. Total(ballot \cup R, h.item) = Total(ballot, h.item) + Total(R, h.item)
    BY <1>2, <1>7, <2>7, TotalsAdd
  <2>9. Total(h.rows, h.item) = h.target
    BY <1>3 DEF HitSound
  <2>10. Total(ballot', h.item) = Total(ballot, h.item) + h.target
    BY <1>1, <2>6, <2>8, <2>9
  <2>11. mark'[h.item] = h.target
    BY <1>1, <1>2, <1>3, <1>9
  <2> QED  BY <2>4, <2>5, <2>10, <2>11
<1>11. ASSUME NEW i \in 1..Len(seeded), \A h \in B : h.item # i
       PROVE  /\ BallotsFor(ballot', i) = BallotsFor(ballot, i)
              /\ Total(ballot', i) = Total(ballot, i)
              /\ mark'[i] = mark[i]
  <2>1. BallotsFor(ballot', i) = BallotsFor(ballot, i)
    BY <1>1, <1>4, <1>6, <1>11 DEF BallotsFor
  <2>2. Total(ballot', i) = Total(ballot, i)
    BY <2>1 DEF Total, Cast
  <2>3. mark'[i] = mark[i]
    BY <1>1, <1>2, <1>11
  <2> QED  BY <2>1, <2>2, <2>3
<1>12. mark' \in Seq(Int) /\ Len(mark') = Len(mark)
  <2>1. DOMAIN mark' = 1..Len(mark) /\ mark' = [i \in 1..Len(mark) |-> mark'[i]]
    BY <1>1, <1>2
  <2>2. \A i \in 1..Len(mark) : mark'[i] \in Int
    BY <1>2, <1>5, <1>10, <1>11
  <2>3. Len(mark) \in Nat
    BY <1>2
  <2> QED  BY <2>1, <2>2, <2>3, TableIsSeq
<1>13. B = {} => mark' = mark
  <2> SUFFICES ASSUME B = {} PROVE mark' = mark
    OBVIOUS
  <2>1. DOMAIN mark' = DOMAIN mark /\ \A i \in DOMAIN mark : mark'[i] = mark[i]
    BY <1>1
  <2>2. mark' = [i \in DOMAIN mark |-> mark[i]]
    BY <1>1
  <2> QED  BY <1>2, <2>2
<1> QED  BY <1>7, <1>8, <1>10, <1>11, <1>12, <1>13 DEF B

LEMMA CommitBatchKeeps == SeedInv /\ CommitBatch => SeedInv'
<1> SUFFICES ASSUME SeedInv, CommitBatch PROVE SeedInv'
  OBVIOUS
<1> DEFINE B == seeding.batch
<1>1. /\ seeding.step = "voting" /\ seeding.hit = NoHit
      /\ loose' = (loose \/ B # {})
      /\ seeding' = [seeding EXCEPT !.batch = {}, !.step = IF seeding.left = {} THEN "repair" ELSE @]
      /\ day' = day /\ folk' = folk /\ anchor' = anchor /\ seeded' = seeded /\ fame' = fame
      /\ seedRuns' = seedRuns /\ settled' = settled /\ meddling' = meddling
  BY DEF CommitBatch
<1>2. /\ ballot' \in SUBSET MadeVote
      /\ \A v \in ballot' : v.item \in 1..Len(seeded)
      /\ \A h \in B :
           /\ {v \in BallotsFor(ballot', h.item) : v.madeUp} = h.rows
           /\ BallotsFor(ballot, h.item) \subseteq BallotsFor(ballot', h.item)
           /\ Total(ballot', h.item) = Total(ballot, h.item) + h.target
           /\ mark'[h.item] = h.target
      /\ \A i \in 1..Len(seeded) : (\A h \in B : h.item # i) =>
           /\ BallotsFor(ballot', i) = BallotsFor(ballot, i)
           /\ Total(ballot', i) = Total(ballot, i)
           /\ mark'[i] = mark[i]
      /\ mark' \in Seq(Int) /\ Len(mark') = Len(mark)
      /\ B = {} => mark' = mark
  BY BatchCommitted
<1>3. SeedTypes /\ seeding \in SeedRun /\ Len(seeded) \in Nat /\ DOMAIN seeded = 1..Len(seeded)
  BY DEF SeedInv, SeedTypes
<1>4. /\ seeding' \in SeedRun /\ seeding'.step \in {"voting", "repair"}
      /\ seeding'.from = seeding.from
      /\ seeding'.left = seeding.left /\ seeding'.pool = seeding.pool
      /\ seeding'.hit = NoHit /\ seeding'.batch = {}
  BY <1>1, <1>3 DEF SeedRun, SeedSteps
<1>5. /\ seedRuns # << >> /\ ThisRun \notin settled /\ seeding.from <= Len(seeded)
      /\ \A i \in MadeSoFar : seeded[i].run = ThisRun
      /\ seeding.left \subseteq MadeSoFar /\ seeding.pool \cap Others = {}
      /\ RunDay - anchor < DecayDays
  BY <1>1 DEF SeedInv, RunInOrder
<1>6. /\ MadeSoFar \subseteq 1..Len(seeded) /\ MadeSoFar' = MadeSoFar
      /\ ThisRun' = ThisRun /\ RunDay' = RunDay
  <2>1. seeding.from \in Nat
    BY <1>3 DEF SeedRun
  <2>2. MadeSoFar \subseteq 1..Len(seeded)
    BY <1>3, <2>1 DEF MadeSoFar
  <2>3. MadeSoFar' = MadeSoFar /\ ThisRun' = ThisRun /\ RunDay' = RunDay
    BY <1>1, <1>4 DEF MadeSoFar, ThisRun, RunDay
  <2> QED  BY <2>2, <2>3
<1>7. \A h \in B : HitSound(h) /\ h.item \in MadeSoFar /\ h.item \notin seeding.left
                   /\ MadeVotesOf(h.item) = {}
  BY DEF SeedInv, VotesPending, HitSound
<1>8. SeedTypes'
  <2>1. loose' \in BOOLEAN
    BY <1>1
  <2> HIDE DEF B
  <2> QED  BY <1>1, <1>2, <1>3, <1>4, <2>1 DEF SeedTypes
<1>9. RunsKnown'
  BY <1>1, <1>2 DEF SeedInv, RunsKnown
<1>10. RunInOrder'
  BY <1>1, <1>4, <1>5, <1>6 DEF RunInOrder
<1>11. VotesPending'
  <2>1. ASSUME NEW i \in seeding.left PROVE MadeVotesOf(i)' = {}
    <3>1. \A h \in B : h.item # i
      BY <1>7
    <3>2. BallotsFor(ballot', i) = BallotsFor(ballot, i)
      BY <1>2, <1>5, <1>6, <3>1
    <3>3. MadeVotesOf(i) = {}
      BY DEF SeedInv, VotesPending
    <3> QED  BY <3>2, <3>3 DEF MadeVotesOf
  <2> QED  BY <1>4, <2>1 DEF VotesPending
<1>12. ThreadsInOrder'
  BY <1>1 DEF SeedInv, ThreadsInOrder
<1>13. TotalsExplained'
  <2>1. ASSUME NEW i \in 1..Len(seeded), mark'[i] # Total(ballot', i)
        PROVE  seeded[i].run \notin settled /\ \E v \in BallotsFor(ballot', i) : ~ v.madeUp
    <3>1. CASE \A h \in B : h.item # i
      <4>1. /\ BallotsFor(ballot', i) = BallotsFor(ballot, i)
            /\ Total(ballot', i) = Total(ballot, i) /\ mark'[i] = mark[i]
        BY <1>2, <3>1
      <4> QED  BY <1>3, <2>1, <4>1 DEF SeedInv, SeedingSound, TotalsExplained
    <3>2. ASSUME NEW h \in B, h.item = i
          PROVE  seeded[i].run \notin settled /\ \E v \in BallotsFor(ballot', i) : ~ v.madeUp
      <4>1. /\ BallotsFor(ballot, i) \subseteq BallotsFor(ballot', i)
            /\ Total(ballot', i) = Total(ballot, i) + h.target /\ mark'[i] = h.target
        BY <1>2, <3>2
      <4>2. Total(ballot, i) \in Int /\ h.target \in Int
        <5>1. ballot \in SUBSET MadeVote /\ h \in Backfill
          BY <1>3, <3>2 DEF SeedTypes, SeedRun
        <5> QED  BY <5>1, VotesOfItem DEF Backfill
      <4>3. Total(ballot, i) # 0
        BY <2>1, <4>1, <4>2
      <4>4. PICK v \in ballot : v.item = i
        BY <4>3, TotalOfNone
      <4>5. v \in BallotsFor(ballot, i) /\ ~ v.madeUp
        BY <1>7, <3>2, <4>4 DEF MadeVotesOf, BallotsFor
      <4>6. seeded[i].run = ThisRun
        BY <1>5, <1>7, <3>2
      <4> QED  BY <1>5, <4>1, <4>5, <4>6
    <3> QED  BY <3>1, <3>2
  <2>2. ASSUME ~ loose' PROVE \A n \in Usernames : fame'[n] = Earned(mark, n)'
    <3>1. mark' = mark /\ ~ loose
      BY <1>1, <1>2, <2>2
    <3>2. \A n : Earned(mark, n)' = Earned(mark, n)
      BY <1>1, <3>1 DEF Earned, ItemsOf
    <3> QED  BY <1>1, <3>1, <3>2 DEF SeedInv, SeedingSound, TotalsExplained
  <2>3. DOMAIN seeded' = 1..Len(seeded)
    BY <1>1, <1>3
  <2>4. \A i : BallotsFor(ballot, i)' = BallotsFor(ballot', i) /\ Total(ballot, i)' = Total(ballot', i)
    BY DEF BallotsFor, Total, Cast
  <2> QED  BY <1>1, <2>1, <2>2, <2>3, <2>4 DEF TotalsExplained
<1>14. MadeUpVotesFade'
  <2> DEFINE fine(i, made) ==
        /\ Cardinality(made) <= SeedVoteMax
        /\ \A v \in made : v.voter # seeded[i].by /\ v.voter \notin Others
        /\ made # {} => seedRuns[seeded[i].run] - seedRuns[1] < DecayDays
  <2>1. ASSUME NEW i \in 1..Len(seeded)
        PROVE  fine(i, {v \in BallotsFor(ballot', i) : v.madeUp})
    <3>1. CASE \A h \in B : h.item # i
      <4>1. BallotsFor(ballot', i) = BallotsFor(ballot, i)
        BY <1>2, <3>1
      <4> QED  BY <1>3, <4>1 DEF SeedInv, SeedingSound, MadeUpVotesFade
    <3>2. ASSUME NEW h \in B, h.item = i
          PROVE  fine(i, {v \in BallotsFor(ballot', i) : v.madeUp})
      <4>1. {v \in BallotsFor(ballot', i) : v.madeUp} = h.rows
        BY <1>2, <3>2
      <4>2. seeded[i].run = ThisRun
        BY <1>5, <1>7, <3>2
      <4>3. seedRuns[seeded[i].run] - seedRuns[1] < DecayDays
        BY <1>5, <4>2 DEF SeedInv, RunsKnown, RunDay
      <4>4. fine(i, h.rows)
        BY <1>7, <3>2, <4>3 DEF HitSound
      <4> HIDE DEF fine
      <4> QED  BY <4>1, <4>4
    <3> QED  BY <3>1, <3>2
  <2>2. DOMAIN seeded' = 1..Len(seeded)
    BY <1>1, <1>3
  <2>3. \A i : BallotsFor(ballot, i)' = BallotsFor(ballot', i)
    BY DEF BallotsFor
  <2> QED  BY <1>1, <2>1, <2>2, <2>3 DEF MadeUpVotesFade
<1>15. ThreadsCausal'
  BY <1>1 DEF SeedInv, SeedingSound, ThreadsCausal
<1> QED  BY <1>8, <1>9, <1>10, <1>11, <1>12, <1>13, <1>14, <1>15 DEF SeedInv, SeedingSound

\* e is f with a value for x too.
Extends(S, x, f, e) ==
  /\ IsFiniteSet(S) /\ x \notin S /\ f \in [S -> Int]
  /\ e \in [S \cup {x} -> Int] /\ \A y \in S : e[y] = f[y]

LEMMA SumExtends ==
  \A S, x, f, e :
    Extends(S, x, f, e) => SumFunction(f) \in Int /\ SumFunction(e) = SumFunction(f) + e[x]
<1> SUFFICES ASSUME NEW S, NEW x, NEW f, NEW e, IsFiniteSet(S), x \notin S, f \in [S -> Int],
                    e \in [S \cup {x} -> Int], \A y \in S : e[y] = f[y]
             PROVE  SumFunction(f) \in Int /\ SumFunction(e) = SumFunction(f) + e[x]
  BY DEF Extends
<1> QED  BY SumGrows

\* Items are few, so karma is a number.
LEMMA ItemsAdded ==
  ASSUME SeedTypes, NEW m \in Seq(Int), Len(m) = Len(seeded), NEW n
  PROVE  /\ IsFiniteSet(ItemsOf(n)) /\ ItemsOf(n) \subseteq 1..Len(seeded)
         /\ [i \in ItemsOf(n) |-> m[i]] \in [ItemsOf(n) -> Int]
         /\ Earned(m, n) \in Int
<1>1. Len(seeded) \in Nat /\ DOMAIN seeded = 1..Len(seeded)
  BY DEF SeedTypes
<1>2. ItemsOf(n) \subseteq 1..Len(seeded) /\ IsFiniteSet(1..Len(seeded))
  BY <1>1, FS_Interval DEF ItemsOf
<1>3. IsFiniteSet(ItemsOf(n))
  BY <1>2, FS_Subset
<1>4. [i \in ItemsOf(n) |-> m[i]] \in [ItemsOf(n) -> Int]
  BY <1>2
<1> QED  BY <1>2, <1>3, <1>4, SumIsInt DEF Earned

LEMMA RepairAllKeeps == SeedInv /\ RepairAll => SeedInv'
<1> SUFFICES ASSUME SeedInv, RepairAll PROVE SeedInv'
  OBVIOUS
<1>1. /\ seeding.step = "repair" /\ seeding' = NotSeeding
      /\ mark' = [i \in DOMAIN mark |-> Total(ballot, i)]
      /\ fame' = [n \in Usernames |-> Earned(mark', n)]
      /\ settled' = settled \cup {ThisRun} /\ loose' = FALSE
      /\ day' = day /\ folk' = folk /\ anchor' = anchor /\ seeded' = seeded /\ ballot' = ballot
      /\ seedRuns' = seedRuns /\ meddling' = meddling
  BY DEF RepairAll
<1>2. /\ SeedTypes /\ ballot \in SUBSET MadeVote /\ mark \in Seq(Int) /\ Len(mark) = Len(seeded)
      /\ Len(mark) \in Nat /\ DOMAIN seeded = 1..Len(mark) /\ DOMAIN mark = 1..Len(mark)
      /\ Len(seedRuns) \in Nat
  BY DEF SeedInv, SeedTypes
<1>3. \A i \in 1..Len(mark) : mark'[i] = Total(ballot, i) /\ Total(ballot, i) \in Int
  BY <1>1, <1>2, VotesOfItem
<1>4. mark' \in Seq(Int) /\ Len(mark') = Len(mark)
  <2>1. DOMAIN mark' = 1..Len(mark) /\ mark' = [i \in 1..Len(mark) |-> mark'[i]]
    BY <1>1, <1>2
  <2>2. \A i \in 1..Len(mark) : mark'[i] \in Int
    BY <1>3
  <2> QED  BY <1>2, <2>1, <2>2, TableIsSeq
<1>5. fame' \in [Usernames -> Int]
  <2>1. \A n \in Usernames : Earned(mark', n) \in Int
    BY <1>2, <1>4, ItemsAdded
  <2> QED  BY <1>1, <2>1
<1>6. /\ seeding' \in SeedRun /\ seeding'.step = "idle" /\ seeding'.hit = NoHit
      /\ seeding'.batch = {} /\ seeding'.left = {}
  BY <1>1 DEF NotSeeding, SeedRun, SeedSteps
<1>7. ThisRun \in 1..Len(seedRuns)
  <2>1. seedRuns # << >> /\ seedRuns \in Seq(Nat)
    BY <1>1, <1>2 DEF SeedInv, RunInOrder, SeedTypes
  <2> QED  BY <2>1 DEF ThisRun
<1>8. SeedTypes'
  <2>1. settled' \in SUBSET Nat
    BY <1>1, <1>2, <1>7 DEF SeedTypes
  <2> QED  BY <1>1, <1>2, <1>4, <1>5, <1>6, <2>1 DEF SeedTypes
<1>9. RunsKnown'
  BY <1>1, <1>7 DEF SeedInv, RunsKnown
<1>10. RunInOrder' /\ VotesPending'
  BY <1>6 DEF RunInOrder, VotesPending
<1>11. ThreadsInOrder'
  BY <1>1 DEF SeedInv, ThreadsInOrder
<1>12. TotalsExplained'
  <2>1. \A i \in 1..Len(mark) : mark'[i] = Total(ballot, i)'
    BY <1>1, <1>3 DEF Total, Cast, BallotsFor
  <2>2. \A n \in Usernames : fame'[n] = Earned(mark, n)'
    BY <1>1 DEF Earned, ItemsOf
  <2> QED  BY <1>1, <1>2, <2>1, <2>2 DEF TotalsExplained
<1>13. MadeUpVotesFade' /\ ThreadsCausal'
  BY <1>1 DEF SeedInv, SeedingSound, MadeUpVotesFade, ThreadsCausal, BallotsFor
<1> QED  BY <1>8, <1>9, <1>10, <1>11, <1>12, <1>13 DEF SeedInv, SeedingSound

\* A new item keeps what was promised of the others, whatever it answers.
LEMMA PersistItemKeeps ==
  ASSUME SeedInv, NEW item \in SeededItem, NEW comment, PersistItem(item, comment),
         item.run = ThisRun, item.at <= RunDay, item.at >= RunDay - Window,
         item.on \in 1..(Len(seeded) + 1), item.under \in 0..Len(seeded),
         item.on # Len(seeded) + 1 =>
           /\ seeded[item.on].on = item.on /\ item.at > seeded[item.on].at
           /\ \A j \in 1..Len(seeded) : j > item.on => seeded[j].on = item.on,
         item.under # 0 => /\ item.at > seeded[item.under].at
                           /\ seeded[item.under].on = item.on
  PROVE  SeedInv'
<1> DEFINE N == Len(seeded)
<1>1. /\ seeding.step = "content"
      /\ UNCHANGED <<day, folk, anchor, seedRuns, settled, loose, meddling>>
      /\ \/ BreaksOff /\ UNCHANGED stored
         \/ /\ seeded' = Append(seeded, item) /\ mark' = Append(mark, 0)
            /\ UNCHANGED <<ballot, fame, seeding>>
  BY DEF PersistItem
<1>2. CASE BreaksOff /\ UNCHANGED stored
  BY <1>1, <1>2, BreaksOffKeeps
<1>3. CASE /\ seeded' = Append(seeded, item) /\ mark' = Append(mark, 0)
           /\ UNCHANGED <<ballot, fame, seeding>>
  <2>1. /\ SeedTypes /\ seeded \in Seq(SeededItem) /\ mark \in Seq(Int) /\ Len(mark) = N
        /\ N \in Nat /\ DOMAIN seeded = 1..N /\ ballot \in SUBSET MadeVote
        /\ Len(seedRuns) \in Nat
    BY DEF SeedInv, SeedTypes
  <2>2. /\ seeded' \in Seq(SeededItem) /\ Len(seeded') = N + 1 /\ DOMAIN seeded' = 1..(N + 1)
        /\ \A i \in 1..N : seeded'[i] = seeded[i]
        /\ seeded'[N + 1] = item
    <3> HIDE DEF N
    <3>1. /\ seeded' \in Seq(SeededItem) /\ Len(seeded') = N + 1
      BY <1>3, <2>1 DEF N
    <3>2. DOMAIN seeded' = 1..(N + 1)
      BY <3>1
    <3>3. \A i \in 1..N : seeded'[i] = seeded[i]
      BY <1>3, <2>1 DEF N
    <3>4. seeded'[N + 1] = item
      BY <1>3, <2>1 DEF N
    <3> QED  BY <3>1, <3>2, <3>3, <3>4
  <2>3. /\ mark' \in Seq(Int) /\ Len(mark') = N + 1
        /\ \A i \in 1..N : mark'[i] = mark[i]
        /\ mark'[N + 1] = 0
    <3> HIDE DEF N
    <3>1. mark' \in Seq(Int) /\ Len(mark') = N + 1
      BY <1>3, <2>1
    <3>2. \A i \in 1..N : mark'[i] = mark[i]
      BY <1>3, <2>1
    <3>3. mark'[N + 1] = 0
      BY <1>3, <2>1
    <3> QED  BY <3>1, <3>2, <3>3
  <2> HIDE DEF N
  <2>4. /\ day' = day /\ folk' = folk /\ anchor' = anchor /\ seedRuns' = seedRuns
        /\ settled' = settled /\ loose' = loose /\ meddling' = meddling
        /\ ballot' = ballot /\ fame' = fame /\ seeding' = seeding
    BY <1>1, <1>3
  <2>5. \A v \in ballot : v.item \in 1..N
    BY DEF SeedInv, RunsKnown, N
  <2>6. SeedTypes'
    BY <2>1, <2>2, <2>3, <2>4 DEF SeedTypes
  <2>7. ThisRun \in 1..Len(seedRuns) /\ seeding.from \in Nat /\ seeding.from <= N
    <3>1. seedRuns # << >> /\ seedRuns \in Seq(Nat) /\ seeding.from <= N
      BY <1>1, <2>1 DEF SeedInv, RunInOrder, SeedTypes, N
    <3> QED  BY <2>1, <3>1 DEF ThisRun, SeedTypes, SeedRun
  <2>8. RunsKnown'
    <3>1. \A i \in 1..(N + 1) : i \in 1..N \/ i = N + 1
      BY <2>1
    <3>2. \A i \in 1..N : seeded[i].run \in 1..Len(seedRuns)
      BY DEF SeedInv, RunsKnown, N
    <3>3. \A i \in 1..(N + 1) : seeded'[i].run \in 1..Len(seedRuns)
      BY <2>2, <2>7, <3>1, <3>2
    <3>4. \A v \in ballot : v.item \in 1..(N + 1)
      BY <2>1, <2>5
    <3> QED  BY <2>2, <2>4, <3>3, <3>4 DEF SeedInv, RunsKnown
  <2>9. /\ MadeSoFar = (seeding.from + 1)..N /\ MadeSoFar' = (seeding.from + 1)..(N + 1)
        /\ ThisRun' = ThisRun /\ RunDay' = RunDay
        /\ \A i \in MadeSoFar' : i = N + 1 \/ (i \in MadeSoFar /\ i \in 1..N)
        /\ MadeSoFar \subseteq MadeSoFar'
    <3>1. /\ MadeSoFar = (seeding.from + 1)..N /\ MadeSoFar' = (seeding.from + 1)..(N + 1)
          /\ ThisRun' = ThisRun /\ RunDay' = RunDay
      BY <2>2, <2>4 DEF MadeSoFar, ThisRun, RunDay, N
    <3>2. \A k \in Nat : \A i \in (k + 1)..(N + 1) :
            i = N + 1 \/ (i \in (k + 1)..N /\ i \in 1..N)
      BY <2>1
    <3>3. \A k \in Nat : (k + 1)..N \subseteq (k + 1)..(N + 1)
      BY <2>1
    <3>4. \A i \in MadeSoFar' : i = N + 1 \/ (i \in MadeSoFar /\ i \in 1..N)
      BY <2>7, <3>1, <3>2
    <3>5. MadeSoFar \subseteq MadeSoFar'
      BY <2>7, <3>1, <3>3
    <3> QED  BY <3>1, <3>4, <3>5
  <2>10. RunInOrder'
    <3>1. /\ seedRuns # << >> /\ ThisRun \notin settled
          /\ \A i \in MadeSoFar : seeded[i].run = ThisRun
          /\ seeding.left \subseteq MadeSoFar /\ seeding.pool \cap Others = {}
          /\ seeding.step \in {"votes", "pool", "voting"} => RunDay - anchor < DecayDays
      BY <1>1 DEF SeedInv, RunInOrder
    <3>2. \A i \in MadeSoFar' : seeded'[i].run = ThisRun
      BY <2>2, <2>9, <3>1
    <3>3. seeding.from <= N + 1
      BY <2>1, <2>7
    <3> QED  BY <2>2, <2>4, <2>9, <3>1, <3>2, <3>3 DEF RunInOrder
  <2>11. VotesPending'
    <3>1. \A i : MadeVotesOf(i)' = MadeVotesOf(i)
      BY <2>4 DEF MadeVotesOf
    <3>2. MadeVotesOf(N + 1) = {}
      BY <2>1, <2>5 DEF MadeVotesOf, BallotsFor
    <3>3. /\ seeding.hit = NoHit /\ seeding.batch = {}
          /\ \A i \in seeding.left : MadeVotesOf(i) = {}
          /\ \A i \in MadeSoFar : MadeVotesOf(i) = {}
      BY <1>1 DEF SeedInv, VotesPending
    <3>4. \A i \in MadeSoFar' : MadeVotesOf(i) = {}
      BY <2>9, <3>2, <3>3
    <3> QED  BY <2>4, <3>1, <3>3, <3>4 DEF VotesPending
  <2>12. ThreadsInOrder'
    <3>1. ASSUME NEW i \in 1..N
          PROVE  /\ seeded'[i].on \in 1..i /\ seeded'[i].under \in 0..(N + 1)
                 /\ seeded'[seeded'[i].on].on = seeded'[i].on
                 /\ \A j \in 1..i : j > seeded'[i].on => seeded'[j].on = seeded'[i].on
      <4>1. /\ seeded[i].on \in 1..i /\ seeded[i].under \in 0..N
            /\ seeded[seeded[i].on].on = seeded[i].on
            /\ \A j \in 1..i : j > seeded[i].on => seeded[j].on = seeded[i].on
        BY DEF SeedInv, ThreadsInOrder, N
      <4>2. 1..i \subseteq 1..N /\ 0..N \subseteq 0..(N + 1)
        BY <2>1
      <4> QED  BY <2>2, <4>1, <4>2
    <3>2. /\ item.on \in 1..(N + 1) /\ item.under \in 0..(N + 1)
          /\ seeded'[item.on].on = item.on
          /\ \A j \in 1..(N + 1) : j > item.on => seeded'[j].on = item.on
      <4>1. item.on \in 1..(N + 1) /\ item.under \in 0..(N + 1)
        BY <2>1 DEF N
      <4>2. \A j \in 1..(N + 1) : j \in 1..N \/ j = N + 1
        BY <2>1
      <4>3. CASE item.on = N + 1
        BY <2>1, <2>2, <4>3
      <4>4. CASE item.on # N + 1
        <5>1. /\ seeded[item.on].on = item.on /\ item.on \in 1..N
              /\ \A j \in 1..N : j > item.on => seeded[j].on = item.on
          BY <4>1, <4>2, <4>4 DEF N
        <5>2. seeded'[item.on].on = item.on
          BY <2>2, <5>1
        <5>3. \A j \in 1..N : j > item.on => seeded'[j].on = item.on
          BY <2>2, <5>1
        <5>4. seeded'[N + 1].on = item.on
          BY <2>2
        <5>5. \A j \in 1..(N + 1) : j > item.on => seeded'[j].on = item.on
          BY <4>2, <5>3, <5>4
        <5> QED  BY <4>1, <5>2, <5>5
      <4> QED  BY <4>1, <4>3, <4>4
    <3>3. \A i \in 1..(N + 1) : i \in 1..N \/ i = N + 1
      BY <2>1
    <3> QED  BY <2>2, <3>1, <3>2, <3>3 DEF ThreadsInOrder
  <2>13. TotalsExplained'
    <3>1. \A i : BallotsFor(ballot, i)' = BallotsFor(ballot, i) /\ Total(ballot, i)' = Total(ballot, i)
      BY <2>4 DEF BallotsFor, Total, Cast
    <3>2. Total(ballot, N + 1) = 0
      <4>1. \A v \in ballot : v.item # N + 1
        BY <2>1, <2>5
      <4> QED  BY <4>1, TotalOfNone
    <3>3. \A i \in 1..(N + 1) : i \in 1..N \/ i = N + 1
      BY <2>1
    <3>4. ASSUME NEW i \in 1..(N + 1), mark'[i] # Total(ballot, i)
          PROVE  /\ seeded'[i].run \notin settled
                 /\ \E v \in BallotsFor(ballot, i) : ~ v.madeUp
      <4>1. i \in 1..N
        BY <2>3, <3>2, <3>3, <3>4
      <4> QED  BY <2>1, <2>2, <2>3, <3>4, <4>1 DEF SeedInv, SeedingSound, TotalsExplained
    <3>5. ASSUME ~ loose, NEW n \in Usernames
          PROVE  fame[n] = Earned(mark, n)'
      <4> DEFINE f == [i \in ItemsOf(n) |-> mark[i]]
      <4>1. fame[n] = SumFunction(f)
        BY <3>5 DEF SeedInv, SeedingSound, TotalsExplained, Earned
      <4>2. IsFiniteSet(ItemsOf(n)) /\ ItemsOf(n) \subseteq 1..N /\ f \in [ItemsOf(n) -> Int]
        BY <2>1, ItemsAdded DEF N
      <4>3. CASE item.by = n
        <5> DEFINE e == [i \in ItemsOf(n) \cup {N + 1} |-> mark'[i]]
        <5>1. ItemsOf(n)' = ItemsOf(n) \cup {N + 1}
          BY <2>1, <2>2, <3>3, <4>3 DEF ItemsOf
        <5>2. Earned(mark, n)' = SumFunction(e)
          BY <5>1 DEF Earned
        <5>3. /\ e \in [ItemsOf(n) \cup {N + 1} -> Int] /\ \A i \in ItemsOf(n) : e[i] = f[i]
              /\ e[N + 1] = 0 /\ N + 1 \notin ItemsOf(n)
          BY <2>1, <2>3, <4>2
        <5> HIDE DEF e, f
        <5>4. SumFunction(f) \in Int /\ SumFunction(e) = SumFunction(f) + e[N + 1]
          <6>1. Extends(ItemsOf(n), N + 1, f, e)
            BY <4>2, <5>3 DEF Extends
          <6> QED  BY <6>1, SumExtends
        <5> QED  BY <4>1, <5>2, <5>3, <5>4
      <4>4. CASE item.by # n
        <5>1. ItemsOf(n)' = ItemsOf(n)
          BY <2>1, <2>2, <3>3, <4>4 DEF ItemsOf
        <5>2. [i \in ItemsOf(n) |-> mark'[i]] = f
          BY <2>3, <4>2
        <5>3. Earned(mark, n)' = SumFunction([i \in ItemsOf(n) |-> mark'[i]])
          BY <5>1 DEF Earned
        <5> QED  BY <4>1, <5>2, <5>3
      <4> QED  BY <4>3, <4>4
    <3> QED  BY <2>2, <2>4, <3>1, <3>4, <3>5 DEF TotalsExplained
  <2>14. MadeUpVotesFade'
    <3> DEFINE made(i) == {v \in BallotsFor(ballot, i) : v.madeUp}
               fine(i, V) ==
                 /\ Cardinality(V) <= SeedVoteMax
                 /\ \A v \in V : v.voter # seeded'[i].by /\ v.voter \notin Others
                 /\ V # {} => seedRuns[seeded'[i].run] - seedRuns[1] < DecayDays
    <3>1. \A i : BallotsFor(ballot, i)' = BallotsFor(ballot, i)
      BY <2>4 DEF BallotsFor
    <3>2. BallotsFor(ballot, N + 1) = {}
      BY <2>1, <2>5 DEF BallotsFor
    <3>3. Cardinality({}) = 0 /\ SeedVoteMax \in Nat
      BY FS_EmptySet, SeedAssumed
    <3>4. ASSUME NEW i \in 1..(N + 1)
          PROVE  fine(i, made(i))
      <4>1. CASE i \in 1..N
        BY <2>1, <2>2, <4>1 DEF SeedInv, SeedingSound, MadeUpVotesFade
      <4>2. CASE i = N + 1
        <5>1. made(i) = {}
          BY <3>2, <4>2
        <5> HIDE DEF made
        <5> QED  BY <3>3, <5>1
      <4> QED  BY <2>1, <4>1, <4>2
    <3> QED  BY <2>2, <2>4, <3>1, <3>4 DEF MadeUpVotesFade
  <2>15. ThreadsCausal'
    <3> DEFINE good(s, i) ==
          /\ s[i].at <= seedRuns[s[i].run] /\ s[i].at >= seedRuns[s[i].run] - Window
          /\ s[i].on # i => s[i].at > s[s[i].on].at
          /\ s[i].under # 0 => s[i].at > s[s[i].under].at /\ s[s[i].under].on = s[i].on
    <3>1. ASSUME NEW i \in 1..N PROVE good(seeded', i)
      <4>1. good(seeded, i)
        BY <2>1 DEF SeedInv, SeedingSound, ThreadsCausal
      <4>2. seeded[i].on \in 1..N /\ seeded[i].under \in 0..N
        BY <2>1 DEF SeedInv, ThreadsInOrder, N
      <4>3. seeded[i].under # 0 => seeded[i].under \in 1..N
        BY <2>1, <4>2
      <4> QED  BY <2>2, <4>1, <4>2, <4>3
    <3>2. good(seeded', N + 1)
      <4>1. item.on # N + 1 => item.on \in 1..N
        BY <2>1 DEF N
      <4>2. item.under # 0 => item.under \in 1..N
        BY <2>1 DEF N
      <4>3. item.at <= seedRuns[item.run] /\ item.at >= seedRuns[item.run] - Window
        BY DEF RunDay
      <4>4. item.on # N + 1 => item.at > seeded'[item.on].at
        BY <2>2, <4>1 DEF N
      <4>5. item.under # 0 => item.at > seeded'[item.under].at /\ seeded'[item.under].on = item.on
        BY <2>2, <4>2
      <4> QED  BY <2>2, <4>3, <4>4, <4>5
    <3>3. \A i \in 1..(N + 1) : i \in 1..N \/ i = N + 1
      BY <2>1
    <3>4. \A i \in 1..(N + 1) : good(seeded', i)
      BY <3>1, <3>2, <3>3
    <3> QED  BY <2>2, <2>4, <3>4 DEF ThreadsCausal
  <2> QED  BY <2>6, <2>8, <2>10, <2>11, <2>12, <2>13, <2>14, <2>15 DEF SeedInv, SeedingSound
<1> QED  BY <1>1, <1>2, <1>3

LEMMA PersistPostKeeps ==
  ASSUME SeedInv, NEW n \in seeding.authors, NEW at \in Int, PersistPost(n, at)
  PROVE  SeedInv'
<1> DEFINE item == [by |-> n, on |-> Len(seeded) + 1, under |-> 0, depth |-> 0, at |-> at,
                    run |-> ThisRun]
<1>1. RunDay - at \in Arrivals /\ PersistItem(item, FALSE)
  BY DEF PersistPost
<1>2. /\ Len(seeded) \in Nat /\ n \in Usernames /\ seedRuns \in Seq(Nat) /\ seedRuns # << >>
      /\ ThisRun \in Nat /\ RunDay \in Nat
  <2>1. seedRuns \in Seq(Nat) /\ Len(seeded) \in Nat /\ seeding.authors \in SUBSET Usernames
    BY DEF SeedInv, SeedTypes, SeedRun
  <2>2. seedRuns # << >>
    BY <1>1 DEF SeedInv, RunInOrder, PersistItem
  <2> QED  BY <2>1, <2>2 DEF ThisRun, RunDay
<1>3. item \in SeededItem
  BY <1>2 DEF SeededItem
<1>4. /\ item.run = ThisRun /\ item.on = Len(seeded) + 1 /\ item.under = 0 /\ item.at = at
  OBVIOUS
<1> HIDE DEF item
<1>5. item.at <= RunDay /\ item.at >= RunDay - Window
  BY <1>1, <1>2, <1>4, SeedAssumed
<1>6. /\ item.on \in 1..(Len(seeded) + 1) /\ item.under \in 0..Len(seeded)
      /\ item.on = Len(seeded) + 1 /\ item.under = 0
  BY <1>2, <1>4
<1> QED  BY <1>1, <1>3, <1>4, <1>5, <1>6, PersistItemKeeps

\* Whatever a comment answers, it is on the last post, as all that came since.
LEMMA PersistCommentKeeps ==
  ASSUME SeedInv, NEW n \in seeding.authors, NEW under \in {0} \cup DOMAIN seeded, NEW at \in Int,
         PersistComment(n, under, at)
  PROVE  SeedInv'
<1> DEFINE post == Max(PostsSoFar)
           answered == IF under = 0 THEN post ELSE under
           item == [by |-> n, on |-> post, under |-> under, depth |-> seeded[answered].depth + 1,
                    at |-> at, run |-> ThisRun]
<1>1. /\ PostsSoFar # {} /\ (under = 0 \/ under > post)
      /\ at \in Moments(seeded[answered].at) /\ PersistItem(item, TRUE)
  BY DEF PersistComment
<1>2. /\ seeding.step = "content" /\ seedRuns \in Seq(Nat) /\ seedRuns # << >>
      /\ Len(seeded) \in Nat /\ seeding.authors \in SUBSET Usernames /\ seeding.from \in Nat
      /\ DOMAIN seeded = 1..Len(seeded) /\ ThisRun \in Nat /\ RunDay \in Nat
      /\ \A i \in MadeSoFar : seeded[i].run = ThisRun
      /\ \A i \in 1..Len(seeded) : seeded[i] \in SeededItem
  <2>1. seeding.step = "content"
    BY <1>1 DEF PersistItem
  <2>2. /\ seedRuns \in Seq(Nat) /\ Len(seeded) \in Nat /\ seeding.authors \in SUBSET Usernames
        /\ seeding.from \in Nat /\ DOMAIN seeded = 1..Len(seeded)
        /\ \A i \in 1..Len(seeded) : seeded[i] \in SeededItem
    BY DEF SeedInv, SeedTypes, SeedRun
  <2>3. seedRuns # << >> /\ \A i \in MadeSoFar : seeded[i].run = ThisRun
    BY <2>1 DEF SeedInv, RunInOrder
  <2> QED  BY <2>1, <2>2, <2>3 DEF ThisRun, RunDay
<1>3. MadeSoFar = (seeding.from + 1)..Len(seeded) /\ MadeSoFar \subseteq 1..Len(seeded)
  BY <1>2 DEF MadeSoFar
<1>4. post \in PostsSoFar /\ \A i \in PostsSoFar : i <= post
  <2>1. PostsSoFar \in SUBSET (1..Len(seeded)) /\ IsFiniteSet(1..Len(seeded))
    BY <1>2, <1>3, FS_Interval DEF PostsSoFar
  <2>2. IsFiniteSet(PostsSoFar)
    BY <2>1, FS_Subset
  <2>3. PostsSoFar \in SUBSET Int
    BY <2>1
  <2> QED  BY <1>1, <2>2, <2>3, Greatest
<1>5. post \in MadeSoFar /\ post \in 1..Len(seeded) /\ seeded[post].on = post
  BY <1>3, <1>4 DEF PostsSoFar
<1> HIDE DEF post
<1>6. \A j \in 1..Len(seeded) : j > post => seeded[j].on = post
  <2> SUFFICES ASSUME NEW j \in 1..Len(seeded), j > post PROVE seeded[j].on = post
    OBVIOUS
  <2> DEFINE o == seeded[j].on
  <2>1. /\ o \in 1..j /\ seeded[o].on = o
        /\ \A k \in 1..j : k > o => seeded[k].on = o
    BY DEF SeedInv, ThreadsInOrder
  <2> HIDE DEF o
  <2>2. ~ (o < post)
    <3>1. post \in 1..j
      BY <1>2, <1>5
    <3> QED  BY <1>5, <2>1, <3>1
  <2>3. ~ (o > post)
    <3> SUFFICES ASSUME o > post PROVE FALSE
      OBVIOUS
    <3>1. o \in MadeSoFar
      BY <1>2, <1>3, <1>5, <2>1
    <3>2. o \in PostsSoFar
      BY <2>1, <3>1 DEF PostsSoFar
    <3> QED  BY <1>2, <1>4, <1>5, <2>1, <3>2
  <2>4. o = post
    BY <1>2, <1>5, <2>1, <2>2, <2>3
  <2> QED  BY <2>4 DEF o
<1>7. /\ answered \in MadeSoFar /\ answered \in 1..Len(seeded)
      /\ under # 0 => under \in 1..Len(seeded) /\ under > post
  BY <1>1, <1>2, <1>3, <1>5
<1>8. answered = under \/ (under = 0 /\ answered = post)
  OBVIOUS
<1> HIDE DEF answered
<1>9. seeded[answered].at \in Int /\ seeded[answered].depth \in Nat /\ seeded[answered].run = ThisRun
  BY <1>2, <1>7 DEF SeededItem
<1>10. at > seeded[answered].at /\ at <= RunDay
  <2> DEFINE after == seeded[answered].at
             last == after + 3
             limit == Min({last, RunDay})
  <2>1. limit \in Int /\ limit <= RunDay
    <3>1. last \in Int /\ RunDay \in Int
      BY <1>2, <1>9
    <3> HIDE DEF last
    <3> QED  BY <3>1, OfTwo
  <2>2. at \in (after + 1)..limit
    BY <1>1 DEF Moments
  <2> HIDE DEF limit
  <2> QED  BY <1>2, <1>9, <2>1, <2>2
<1>11. \A i \in 1..Len(seeded) :
         /\ seeded[i].at >= seedRuns[seeded[i].run] - Window
         /\ seeded[i].on # i => seeded[i].at > seeded[seeded[i].on].at
  BY <1>2 DEF SeedInv, SeedingSound, ThreadsCausal
<1>12. at >= RunDay - Window
  <2>1. seeded[answered].at >= RunDay - Window
    BY <1>7, <1>9, <1>11 DEF RunDay
  <2> QED  BY <1>2, <1>9, <1>10, <2>1, SeedAssumed
<1>13. at > seeded[post].at
  <2>1. CASE under = 0
    <3>1. answered = post
      BY <1>8, <1>7, <2>1
    <3> QED  BY <1>10, <3>1
  <2>2. CASE under # 0
    <3>1. answered = under /\ under \in 1..Len(seeded) /\ under > post
      BY <1>7, <1>8, <2>2
    <3>2. seeded[under].on = post /\ under # post
      BY <1>2, <1>5, <1>6, <3>1
    <3>3. seeded[under].at > seeded[post].at
      BY <1>11, <3>1, <3>2
    <3>4. seeded[post].at \in Int
      BY <1>2, <1>5 DEF SeededItem
    <3> QED  BY <1>9, <1>10, <3>1, <3>3, <3>4
  <2> QED  BY <2>1, <2>2
<1>14. under # 0 => at > seeded[under].at /\ seeded[under].on = post
  <2> SUFFICES ASSUME under # 0
               PROVE  at > seeded[under].at /\ seeded[under].on = post
    OBVIOUS
  <2>1. answered = under /\ under \in 1..Len(seeded)
    BY ONLY <1>7, <1>8, under # 0
  <2>2. seeded[under].on = post
    BY <1>6, <1>7, <2>1
  <2> QED  BY <1>10, <2>1, <2>2
<1>15. item \in SeededItem
  <2>1. n \in Usernames /\ post \in Nat /\ under \in Nat /\ seeded[answered].depth + 1 \in Nat
    BY <1>2, <1>5, <1>7, <1>9
  <2> QED  BY <1>2, <2>1 DEF SeededItem
<1>16. item.run = ThisRun /\ item.on = post /\ item.under = under /\ item.at = at
  OBVIOUS
<1> HIDE DEF item
<1>17. /\ item.on \in 1..(Len(seeded) + 1) /\ item.under \in 0..Len(seeded)
       /\ item.on # Len(seeded) + 1
  BY <1>2, <1>5, <1>7, <1>16
<1>18. /\ seeded[item.on].on = item.on /\ item.at > seeded[item.on].at
       /\ \A j \in 1..Len(seeded) : j > item.on => seeded[j].on = item.on
  BY <1>5, <1>6, <1>13, <1>16
<1>19. item.under # 0 => /\ item.at > seeded[item.under].at
                         /\ seeded[item.under].on = item.on
  BY <1>14, <1>16
<1>20. item.at <= RunDay /\ item.at >= RunDay - Window
  BY <1>10, <1>12, <1>16
<1> QED  BY <1>1, <1>15, <1>16, <1>17, <1>18, <1>19, <1>20, PersistItemKeeps

LEMMA LiveVoteKeeps ==
  ASSUME SeedInv, NEW n \in Usernames, NEW i \in DOMAIN seeded, NEW value \in {-1, 1},
         LiveVote(n, i, value)
  PROVE  SeedInv'
<1> DEFINE vote1 == [voter |-> n, item |-> i, value |-> value, madeUp |-> FALSE]
           N == Len(seeded)
           a == seeded[i].by
<1>1. /\ seeding.batch = {} /\ \A v \in BallotsFor(ballot, i) : v.voter # n
      /\ ballot' = ballot \cup {vote1}
      /\ mark' = [mark EXCEPT ![i] = @ + value]
      /\ fame' = [fame EXCEPT ![a] = @ + value]
      /\ meddling' = meddling + 1
      /\ day' = day /\ folk' = folk /\ anchor' = anchor /\ seeded' = seeded /\ seeding' = seeding
      /\ seedRuns' = seedRuns /\ settled' = settled /\ loose' = loose
  BY DEF LiveVote, Meddles, Blocking
<1>2. /\ SeedTypes /\ ballot \in SUBSET MadeVote /\ mark \in Seq(Int) /\ Len(mark) = N
      /\ N \in Nat /\ DOMAIN seeded = 1..N /\ DOMAIN mark = 1..N
      /\ fame \in [Usernames -> Int] /\ i \in 1..N /\ a \in Usernames /\ value \in Int
      /\ meddling \in Nat
  <2>1. seeded[i] \in SeededItem
    BY DEF SeedInv, SeedTypes
  <2>2. a \in Usernames
    BY <2>1 DEF SeededItem
  <2> QED  BY <2>2 DEF SeedInv, SeedTypes
<1>3. /\ vote1 \in MadeVote /\ vote1.item = i /\ vote1.value = value /\ ~ vote1.madeUp
      /\ vote1.voter = n
  <2>1. i \in Nat
    BY <1>2
  <2> QED  BY <2>1 DEF MadeVote
<1> HIDE DEF vote1
<1>4. vote1 \notin ballot
  BY <1>1, <1>3 DEF BallotsFor
<1>5. \A j : j # i => BallotsFor(ballot', j) = BallotsFor(ballot, j)
  BY <1>1, <1>3 DEF BallotsFor
<1>6. BallotsFor(ballot', i) = BallotsFor(ballot, i) \cup {vote1}
  BY <1>1, <1>3 DEF BallotsFor
<1>7. \A j : {v \in BallotsFor(ballot', j) : v.madeUp} = {v \in BallotsFor(ballot, j) : v.madeUp}
  BY <1>3, <1>5, <1>6
<1>8. Total(ballot', i) = Total(ballot, i) + value /\ Total(ballot, i) \in Int
  <2>1. {vote1} \in SUBSET MadeVote /\ \A v \in {vote1} : v.item = i => v \notin ballot
    BY <1>3, <1>4
  <2>2. Total(ballot \cup {vote1}, i) = Total(ballot, i) + Total({vote1}, i)
    BY <1>2, <2>1, TotalsAdd
  <2>3. Total({vote1}, i) = value
    BY <1>3, TotalOfOne
  <2>4. Total(ballot, i) \in Int
    BY <1>2, VotesOfItem
  <2> QED  BY <1>1, <2>2, <2>3, <2>4
<1>9. \A j : j # i => Total(ballot', j) = Total(ballot, j)
  BY <1>5 DEF Total, Cast
<1>10. /\ mark' \in Seq(Int) /\ Len(mark') = N /\ mark'[i] = mark[i] + value
       /\ \A j \in 1..N : j # i => mark'[j] = mark[j]
  BY <1>1, <1>2
<1>11. fame' \in [Usernames -> Int]
  BY <1>1, <1>2
<1>12. SeedTypes'
  <2>1. ballot' \in SUBSET MadeVote
    BY <1>1, <1>2, <1>3
  <2> HIDE DEF a
  <2> QED  BY <1>1, <1>2, <1>10, <1>11, <2>1 DEF SeedTypes
<1>13. RunsKnown'
  BY <1>1, <1>2, <1>3 DEF SeedInv, RunsKnown
<1>14. RunInOrder' /\ ThreadsInOrder'
  BY <1>1 DEF SeedInv, RunInOrder, ThreadsInOrder, ThisRun, RunDay, MadeSoFar
<1>15. VotesPending'
  <2>1. \A j : MadeVotesOf(j)' = MadeVotesOf(j)
    BY <1>7 DEF MadeVotesOf, BallotsFor
  <2>2. MadeSoFar' = MadeSoFar /\ \A h : HitSound(h)' <=> HitSound(h)
    BY <1>1 DEF MadeSoFar, HitSound
  <2> QED  BY <1>1, <2>1, <2>2 DEF SeedInv, VotesPending
<1>16. \A j : BallotsFor(ballot, j)' = BallotsFor(ballot', j) /\ Total(ballot, j)' = Total(ballot', j)
  BY DEF BallotsFor, Total, Cast
<1>17. TotalsExplained'
  <2>1. ASSUME NEW j \in 1..N, mark'[j] # Total(ballot', j)
        PROVE  /\ seeded[j].run \notin settled
               /\ \E v \in BallotsFor(ballot', j) : ~ v.madeUp
    <3>1. mark[j] # Total(ballot, j)
      <4>1. CASE j = i
        <5>1. mark[i] \in Int
          BY <1>2
        <5> QED  BY <1>8, <1>10, <2>1, <4>1, <5>1
      <4>2. CASE j # i
        BY <1>9, <1>10, <2>1, <4>2
      <4> QED  BY <4>1, <4>2
    <3>2. /\ seeded[j].run \notin settled
          /\ \E v \in BallotsFor(ballot, j) : ~ v.madeUp
      BY <1>2, <3>1 DEF SeedInv, SeedingSound, TotalsExplained
    <3>3. BallotsFor(ballot, j) \subseteq BallotsFor(ballot', j)
      BY <1>5, <1>6
    <3> QED  BY <3>2, <3>3
  <2>2. ASSUME ~ loose, NEW m \in Usernames
        PROVE  fame'[m] = Earned(mark, m)'
    <3> DEFINE f == [j \in ItemsOf(m) |-> mark[j]]
               e == [j \in ItemsOf(m) |-> mark'[j]]
    <3>1. fame[m] = SumFunction(f)
      BY <2>2 DEF SeedInv, SeedingSound, TotalsExplained, Earned
    <3>2. Earned(mark, m)' = SumFunction(e)
      <4>1. ItemsOf(m)' = ItemsOf(m)
        BY <1>1 DEF ItemsOf
      <4> QED  BY <4>1 DEF Earned
    <3>3. /\ IsFiniteSet(ItemsOf(m)) /\ ItemsOf(m) \subseteq 1..N
          /\ f \in [ItemsOf(m) -> Int]
      BY <1>2, ItemsAdded
    <3>4. e \in [ItemsOf(m) -> Int]
      BY <1>10, <3>3
    <3>5. CASE a = m
      <4>1. i \in ItemsOf(m) /\ \A j \in ItemsOf(m) : j # i => e[j] = f[j]
        BY <1>10, <3>3, <3>5 DEF ItemsOf
      <4>2. e[i] - f[i] = value /\ f[i] \in Int
        <5>1. e[i] = mark[i] + value /\ f[i] = mark[i] /\ mark[i] \in Int
          BY <1>2, <1>10, <4>1
        <5> QED  BY <1>2, <5>1
      <4> HIDE DEF e, f
      <4>3. /\ SumFunction(f) \in Int
            /\ SumFunction(e) = SumFunction(f) + (e[i] - f[i])
        BY <3>3, <3>4, <4>1, SumChanges
      <4>4. fame'[m] = fame[m] + value
        BY <1>1, <1>2, <3>5
      <4> QED  BY <3>1, <3>2, <4>2, <4>3, <4>4
    <3>6. CASE a # m
      <4>1. i \notin ItemsOf(m)
        BY <3>6 DEF ItemsOf
      <4>2. e = f
        BY <1>10, <3>3, <4>1
      <4>3. fame'[m] = fame[m]
        BY <1>1, <1>2, <3>6
      <4> HIDE DEF e, f
      <4> QED  BY <3>1, <3>2, <4>2, <4>3
    <3> QED  BY <3>5, <3>6
  <2> HIDE DEF a
  <2> QED  BY <1>1, <1>2, <1>16, <2>1, <2>2 DEF TotalsExplained
<1>18. MadeUpVotesFade'
  <2>1. \A j : {v \in BallotsFor(ballot, j)' : v.madeUp} = {v \in BallotsFor(ballot, j) : v.madeUp}
    BY <1>7, <1>16
  <2> DEFINE fine(j, V) ==
        /\ Cardinality(V) <= SeedVoteMax
        /\ \A v \in V : v.voter # seeded[j].by /\ v.voter \notin Others
        /\ V # {} => seedRuns[seeded[j].run] - seedRuns[1] < DecayDays
      made(j) == {v \in BallotsFor(ballot, j) : v.madeUp}
  <2>2. \A j \in DOMAIN seeded : fine(j, made(j))
    BY DEF SeedInv, SeedingSound, MadeUpVotesFade
  <2>3. \A j : made(j)' = made(j)
    BY <2>1
  <2>4. \A j \in DOMAIN seeded : fine(j, made(j)')
    <3> HIDE DEF fine, made
    <3> QED  BY <2>2, <2>3
  <2> QED  BY <1>1, <2>4 DEF MadeUpVotesFade
<1>19. ThreadsCausal'
  BY <1>1 DEF SeedInv, SeedingSound, ThreadsCausal
<1> QED  BY <1>12, <1>13, <1>14, <1>15, <1>17, <1>18, <1>19 DEF SeedInv, SeedingSound

LEMMA SeedInvInit == SeedInit => SeedInv
<1> SUFFICES ASSUME SeedInit PROVE SeedInv
  OBVIOUS
<1>1. /\ day = 0 /\ anchor = Never /\ seeded = << >> /\ ballot = {} /\ mark = << >>
      /\ folk = [n \in Usernames |-> IF n \in Others THEN "human" ELSE "none"]
      /\ fame = [n \in Usernames |-> 0] /\ seeding = NotSeeding /\ seedRuns = << >>
      /\ settled = {} /\ loose = FALSE /\ meddling = 0
  BY DEF SeedInit
<1>2. /\ seeding \in SeedRun /\ seeding.step = "idle" /\ seeding.hit = NoHit
      /\ seeding.batch = {} /\ seeding.left = {}
  BY <1>1 DEF NotSeeding, SeedRun, SeedSteps
<1>3. SeedTypes
  <2>1. /\ folk \in [Usernames -> {"none", "persona", "human"}] /\ fame \in [Usernames -> Int]
    BY <1>1
  <2>2. /\ seeded \in Seq(SeededItem) /\ mark \in Seq(Int) /\ seedRuns \in Seq(Nat)
        /\ Len(mark) = Len(seeded)
    BY <1>1
  <2>3. day \in Nat /\ anchor \in Int /\ meddling \in Nat
    BY <1>1 DEF Never
  <2>4. ballot \in SUBSET MadeVote /\ settled \in SUBSET Nat /\ loose \in BOOLEAN
    BY <1>1
  <2> QED  BY <1>2, <2>1, <2>2, <2>3, <2>4 DEF SeedTypes
<1>4. RunsKnown
  BY <1>1, SeedAssumed DEF RunsKnown
<1>5. RunInOrder /\ VotesPending
  BY <1>2 DEF RunInOrder, VotesPending
<1>6. ThreadsInOrder /\ MadeUpVotesFade /\ ThreadsCausal
  BY <1>1 DEF ThreadsInOrder, MadeUpVotesFade, ThreadsCausal
<1>7. TotalsExplained
  <2>1. ASSUME NEW n \in Usernames PROVE fame[n] = Earned(mark, n)
    <3>1. ItemsOf(n) = {}
      BY <1>1 DEF ItemsOf
    <3> DEFINE f == [i \in ItemsOf(n) |-> mark[i]]
    <3>2. DOMAIN f = {}
      BY <3>1
    <3> HIDE DEF f
    <3>3. SumFunction(f) = 0
      BY <3>2, SumOfNothing DEF SumFunction
    <3> QED  BY <1>1, <3>3 DEF Earned, f
  <2>2. DOMAIN seeded = {}
    BY <1>1
  <2> QED  BY <2>1, <2>2 DEF TotalsExplained
<1> QED  BY <1>3, <1>4, <1>5, <1>6, <1>7 DEF SeedInv, SeedingSound

\* People come, turn human and go beside a run, and days pass between the runs.
LEMMA FolkKeeps ==
  ASSUME SeedInv,
         \/ DayPasses \/ \E n \in Planned : RegisterPlanned(n)
         \/ \E n \in Planned, into \in {"human", "none"} : ChangeFolk(n, into)
  PROVE  SeedInv'
<1>1. /\ day \in Nat /\ meddling \in Nat /\ folk \in [Usernames -> {"none", "persona", "human"}]
      /\ \A n \in Others : folk[n] = "human"
  BY DEF SeedInv, SeedTypes, RunsKnown
<1>2. CASE DayPasses
  <2>1. /\ UNCHANGED <<folk, anchor, stored, seeding, seedRuns, settled, loose, meddling>>
        /\ day' = day + 1
    BY <1>2 DEF DayPasses
  <2> QED  BY <1>1, <2>1, BesideRunKeeps
<1>3. ASSUME NEW n \in Planned, RegisterPlanned(n) PROVE SeedInv'
  <2>1. /\ UNCHANGED <<day, anchor, stored, seeding, seedRuns, settled, loose>>
        /\ folk' = [folk EXCEPT ![n] = "human"] /\ meddling' = meddling + 1
    BY <1>3 DEF RegisterPlanned, Meddles
  <2>2. /\ folk' \in [Usernames -> {"none", "persona", "human"}]
        /\ \A m \in Others : folk'[m] = "human"
    BY <1>1, <2>1, SeedAssumed
  <2> QED  BY <1>1, <2>1, <2>2, BesideRunKeeps
<1>4. ASSUME NEW n \in Planned, NEW into \in {"human", "none"}, ChangeFolk(n, into) PROVE SeedInv'
  <2>1. /\ UNCHANGED <<day, anchor, stored, seeding, seedRuns, settled, loose>>
        /\ folk' = [folk EXCEPT ![n] = into] /\ meddling' = meddling + 1
    BY <1>4 DEF ChangeFolk, Meddles
  <2>2. n \notin Others
    BY SeedAssumed
  <2>3. /\ folk' \in [Usernames -> {"none", "persona", "human"}]
        /\ \A m \in Others : folk'[m] = "human"
    BY <1>1, <2>1, <2>2, SeedAssumed
  <2> QED  BY <1>1, <2>1, <2>3, BesideRunKeeps
<1> QED  BY <1>2, <1>3, <1>4

LEMMA SeedInvStep == SeedInv /\ [SeedNext]_seedVars => SeedInv'
<1> SUFFICES ASSUME SeedInv, [SeedNext]_seedVars PROVE SeedInv'
  OBVIOUS
<1>1. CASE StartSeeding
  BY <1>1, StartSeedingKeeps
<1>2. CASE PersistUser
  BY <1>2, PersistUserKeeps
<1>3. CASE PeopleDone \/ ContentDone \/ CountVoters
  BY <1>3, CourseStepsKeep
<1>4. CASE ReadPool
  BY <1>4, ReadPoolKeeps
<1>5. CASE PassItem
  BY <1>5, PassItemKeeps
<1>6. CASE FlushItem
  BY <1>6, FlushItemKeeps
<1>7. CASE CommitBatch
  BY <1>7, CommitBatchKeeps
<1>8. CASE RepairAll
  BY <1>8, RepairAllKeeps
<1>9. CASE SeedingDies
  BY <1>9, BreaksOffKeeps DEF SeedingDies
<1>10. CASE \/ DayPasses \/ \E n \in Planned : RegisterPlanned(n)
            \/ \E n \in Planned, into \in {"human", "none"} : ChangeFolk(n, into)
  BY <1>10, FolkKeeps
<1>11. ASSUME NEW n \in seeding.authors, NEW at \in (-Window)..day, PersistPost(n, at)
       PROVE  SeedInv'
  <2>1. at \in Int
    BY SeedAssumed DEF SeedInv, SeedTypes
  <2> QED  BY <1>11, <2>1, PersistPostKeeps
<1>12. ASSUME NEW n \in seeding.authors, NEW under \in {0} \cup DOMAIN seeded,
              NEW at \in (-Window)..(day + 3), PersistComment(n, under, at)
       PROVE  SeedInv'
  <2>1. at \in Int
    BY SeedAssumed DEF SeedInv, SeedTypes
  <2> QED  BY <1>12, <2>1, PersistCommentKeeps
<1>13. ASSUME NEW target \in (-SeedVoteMax)..SeedVoteMax, NEW k \in 0..SeedVoteMax,
              VoteItem(target, k)
       PROVE  SeedInv'
  BY <1>13, VoteItemKeeps
<1>14. ASSUME NEW n \in Usernames, NEW i \in DOMAIN seeded, NEW value \in {-1, 1},
              LiveVote(n, i, value)
       PROVE  SeedInv'
  BY <1>14, LiveVoteKeeps
<1>15. CASE UNCHANGED seedVars
  <2>1. /\ UNCHANGED <<day, folk, anchor, stored, seeding, seedRuns, settled, loose, meddling>>
    BY <1>15 DEF seedVars, stored
  <2> QED  BY <2>1, BesideRunKeeps DEF SeedInv, SeedTypes, RunsKnown
<1> QED
  BY <1>1, <1>2, <1>3, <1>4, <1>5, <1>6, <1>7, <1>8, <1>9, <1>10, <1>11, <1>12, <1>13, <1>14,
     <1>15 DEF SeedNext

\* However often a run breaks off and is started again, whoever votes, comes or goes
\* beside it: scores are the sums of their votes but for items of an unfinished run with
\* votes of others, karma follows the scores once repaired, made-up votes come from
\* personas, keep the ceiling and stop with the site's age, and threads are in order.
THEOREM SeedingStaysSound == SeedSpec => []SeedingSound
<1>1. SeedInv => SeedingSound
  BY DEF SeedInv
<1> QED  BY <1>1, SeedInvInit, SeedInvStep, PTL DEF SeedSpec

-----------------------------------------------------------------------------
(* Conversations: the inductive invariant *)

Note ==
  [to : Writers, from : Writers, about : Nat, at : Nat, read : BOOLEAN, shown : BOOLEAN]
Fate == [told : {"pending", "missed", "self", "suppressed", "repeated", "invited"}, cap : Nat]

TalkTypes ==
  /\ said \in Seq(Writers \X Nat) /\ \A c \in 1..Len(said) : ParentOf(c) < c
  /\ exchange \in Nat /\ hour \in Nat
  /\ tongue \in [Writers -> [pc : {"idle", "write", "notify"}, to : Nat]]
  /\ notes \in SUBSET Note /\ views \in [Talkers -> SUBSET Nat]
  /\ fate \in Seq(Fate) /\ Len(fate) = Len(said)

\* A comment being written passed the check, and nobody was told yet of one committed.
WritingInOrder ==
  \A u \in Writers :
    /\ tongue[u].pc = "write" =>
         /\ tongue[u].to \in 0..Len(said)
         /\ u \in Talkers /\ tongue[u].to # 0 /\ AuthorOf(tongue[u].to) # u =>
              ExchangeTail(tongue[u].to, u) <= exchange
    /\ tongue[u].pc = "notify" =>
         /\ tongue[u].to \in 1..Len(said) /\ AuthorOf(tongue[u].to) = u
         /\ fate[tongue[u].to].told = "pending"

\* Exchanges, of all that was ever said: comment c, its fate and the cap.
ExchangeEnds(c, became, cap) ==
  /\ AuthorOf(c) \in Talkers /\ ParentOf(c) # 0 /\ AuthorOf(ParentOf(c)) # AuthorOf(c) =>
       ExchangeTail(ParentOf(c), AuthorOf(c)) <= cap
  /\ ParentOf(c) # 0 /\ became.told \notin {"pending", "missed", "self"} =>
       IF Recipient(c) \in Humans THEN became.told = "invited"
       ELSE (became.told = "suppressed") <=> (ExchangeTail(c, Recipient(c)) > became.cap)
ExchangesEnd == \A c \in 1..Len(said) : ExchangeEnds(c, fate[c], exchange)

\* Whoever writes has a place in the thread.
OfTalkers == {c \in There : AuthorOf(c) \in Talkers}
TalkersWriting == {u \in Talkers : tongue[u].pc = "write"}
RoomLeft ==
  /\ IsFiniteSet({u \in Writers : tongue[u].pc # "idle"})
  /\ Cardinality(OfTalkers) + Cardinality(TalkersWriting) < CommentCap + MaxWriting

\* What is in view was shown, and is not what is still to be told of.
ViewsShown ==
  /\ \A n \in notes : n.about \in 1..Len(said) /\ fate[n.about].told = "invited"
  /\ \A u \in Talkers : \A c \in views[u] : c \in 1..Len(said) /\ fate[c].told = "invited"
  /\ \A n \in notes : n.to \in Talkers /\ n.about \in views[n.to] => n.shown
  /\ UnseenStaysUnread

TalkInv == TalkTypes /\ WritingInOrder /\ ExchangesEnd /\ RoomLeft /\ ViewsShown

-----------------------------------------------------------------------------
(* Conversations: chains of replies *)

\* The comments under a post as far as chains know them: parents come first.
Threads(s) == s \in Seq(Writers \X Nat) /\ \A n \in 1..Len(s) : s[n][2] < n

\* g leads from each of the first k comments of s to the top.
Climbs(g, s, k) ==
  g = [n \in 0..k |-> IF n = 0 THEN <<>> ELSE <<s[n][1]>> \o g[s[n][2]]]

LEMMA ClimbsExist ==
  ASSUME NEW s, Threads(s), NEW k \in 0..Len(s)
  PROVE  \E g : Climbs(g, s, k)
<1> DEFINE Bad == {m \in 0..Len(s) : ~ \E g : Climbs(g, s, m)}
<1>0. Len(s) \in Nat /\ \A n \in 1..Len(s) : s[n][2] \in Nat /\ s[n][2] < n
  BY DEF Threads
<1> SUFFICES ASSUME Bad # {} PROVE FALSE
  OBVIOUS
<1>1. PICK m \in Bad : \A i \in Bad : m <= i
  <2>1. Bad \in SUBSET Nat
    BY <1>0
  <2> HIDE DEF Bad
  <2> QED  BY <2>1, LeastNat
<1>2. CASE m = 0
  <2> DEFINE g == [n \in 0..0 |-> <<>>]
  <2>1. Climbs(g, s, 0)
    <3>1. \A n \in 0..0 : n = 0
      OBVIOUS
    <3> QED  BY <3>1 DEF Climbs
  <2> QED  BY <2>1, <1>2
<1>3. CASE m # 0
  <2>1. m \in 1..Len(s) /\ m - 1 \in 0..Len(s) /\ m - 1 \notin Bad
    BY <1>0, <1>1, <1>3
  <2>2. PICK h : Climbs(h, s, m - 1)
    BY <2>1
  <2> DEFINE g == [n \in 0..m |-> IF n = m THEN <<s[m][1]>> \o h[s[m][2]] ELSE h[n]]
  <2>3. \A n \in 0..(m - 1) : h[n] = IF n = 0 THEN <<>> ELSE <<s[n][1]>> \o h[s[n][2]]
    BY <2>2 DEF Climbs
  <2>4. \A n \in 0..m : n # 0 => s[n][2] \in 0..(m - 1) /\ g[s[n][2]] = h[s[n][2]]
    BY <1>0, <2>1
  <2>5. \A n \in 0..m : g[n] = IF n = 0 THEN <<>> ELSE <<s[n][1]>> \o g[s[n][2]]
    <3> SUFFICES ASSUME NEW n \in 0..m
                 PROVE  g[n] = IF n = 0 THEN <<>> ELSE <<s[n][1]>> \o g[s[n][2]]
      OBVIOUS
    <3>1. CASE n = m
      <4>1. g[m] = <<s[m][1]>> \o h[s[m][2]]
        <5>1. m \in 0..m
          BY <2>1
        <5> QED  BY <5>1
      <4>2. g[s[m][2]] = h[s[m][2]]
        <5>1. m \in 0..m /\ m # 0
          BY <2>1
        <5> HIDE DEF g
        <5> QED  BY ONLY <2>4, <5>1
      <4> HIDE DEF g
      <4> QED  BY <3>1, <4>1, <4>2, <2>1
    <3>2. CASE n # m
      <4>1. n \in 0..(m - 1) /\ g[n] = h[n]
        BY <3>2, <2>1
      <4> HIDE DEF g
      <4> QED  BY <4>1, <2>3, <2>4
    <3> QED  BY <3>1, <3>2
  <2>6. Climbs(g, s, m)
    <3>1. g = [n \in 0..m |-> g[n]]
      OBVIOUS
    <3> HIDE DEF g
    <3> QED  BY <3>1, <2>5 DEF Climbs
  <2> HIDE DEF g
  <2> QED  BY <2>6, <1>1
<1> QED  BY <1>2, <1>3

\* What is appended to a thread does not change the way up from what was there.
LEMMA ClimbsSame ==
  ASSUME NEW s, Threads(s), NEW t, NEW k \in 0..Len(s), NEW m \in Nat, k <= m,
         \A n \in 1..k : s[n] = t[n],
         NEW g, Climbs(g, s, k), NEW h, Climbs(h, t, m)
  PROVE  \A n \in 0..k : g[n] = h[n]
<1> DEFINE Bad == {n \in 0..k : g[n] # h[n]}
<1>0. Len(s) \in Nat /\ \A n \in 1..Len(s) : s[n][2] \in Nat /\ s[n][2] < n
  BY DEF Threads
<1> SUFFICES ASSUME Bad # {} PROVE FALSE
  OBVIOUS
<1>1. PICK n \in Bad : \A i \in Bad : n <= i
  <2>1. Bad \in SUBSET Nat
    BY <1>0
  <2> HIDE DEF Bad
  <2> QED  BY <2>1, LeastNat
<1>2. n \in 0..k /\ n \in 0..m /\ k \in Nat
  BY <1>0, <1>1
<1>3. /\ g[n] = IF n = 0 THEN <<>> ELSE <<s[n][1]>> \o g[s[n][2]]
      /\ h[n] = IF n = 0 THEN <<>> ELSE <<t[n][1]>> \o h[t[n][2]]
  BY <1>2 DEF Climbs
<1>4. CASE n = 0
  BY <1>4, <1>3, <1>1
<1>5. CASE n # 0
  <2>1. n \in 1..k /\ s[n][2] \in 0..k /\ s[n][2] < n
    BY <1>0, <1>2, <1>5
  <2>2. g[s[n][2]] = h[s[n][2]]
    <3>1. s[n][2] \notin Bad
      BY <2>1, <1>1, <1>2
    <3> QED  BY <3>1, <2>1
  <2>3. g[n] = h[n]
    BY <2>1, <2>2, <1>3, <1>5
  <2> QED  BY <2>3, <1>1
<1> QED  BY <1>4, <1>5

LEMMA ClimbsAre ==
  ASSUME NEW s, Threads(s), NEW g, Climbs(g, s, Len(s))
  PROVE  /\ \A n \in 0..Len(s) : g[n] \in Seq(Writers)
         /\ \A n \in 1..Len(s) : s[n][2] \in 0..Len(s) /\ g[n] = <<s[n][1]>> \o g[s[n][2]]
<1> DEFINE Bad == {n \in 0..Len(s) : g[n] \notin Seq(Writers)}
<1>0. /\ Len(s) \in Nat
      /\ \A n \in 1..Len(s) : s[n][1] \in Writers /\ s[n][2] \in Nat /\ s[n][2] < n
  <2>1. Len(s) \in Nat /\ \A n \in 1..Len(s) : s[n] \in Writers \X Nat /\ s[n][2] < n
    BY DEF Threads
  <2> QED  BY <2>1
<1>1. \A n \in 0..Len(s) : g[n] = IF n = 0 THEN <<>> ELSE <<s[n][1]>> \o g[s[n][2]]
  BY DEF Climbs
<1>2. \A n \in 1..Len(s) : s[n][2] \in 0..Len(s) /\ g[n] = <<s[n][1]>> \o g[s[n][2]]
  <2> SUFFICES ASSUME NEW n \in 1..Len(s)
               PROVE  s[n][2] \in 0..Len(s) /\ g[n] = <<s[n][1]>> \o g[s[n][2]]
    OBVIOUS
  <2>1. n \in 0..Len(s) /\ n # 0 /\ s[n][2] \in 0..Len(s)
    BY <1>0
  <2> QED  BY <2>1, <1>1
<1>3. ASSUME Bad # {} PROVE FALSE
  <2>1. PICK n \in Bad : \A i \in Bad : n <= i
    <3>1. Bad \in SUBSET Nat
      BY <1>0
    <3> HIDE DEF Bad
    <3> QED  BY <3>1, <1>3, LeastNat
  <2>2. n \in 1..Len(s)
    <3>1. g[0] = <<>>
      <4>1. 0 \in 0..Len(s)
        BY <1>0
      <4> QED  BY <4>1, <1>1
    <3>2. g[0] \in Seq(Writers)
      BY <3>1
    <3> QED  BY <3>2, <2>1, <1>0
  <2>3. s[n][2] \notin Bad /\ s[n][2] \in 0..Len(s)
    BY <2>1, <2>2, <1>0
  <2>4. g[s[n][2]] \in Seq(Writers)
    BY <2>3
  <2>5. <<s[n][1]>> \o g[s[n][2]] \in Seq(Writers)
    <3>1. <<s[n][1]>> \in Seq(Writers)
      BY <1>0, <2>2
    <3> QED  BY <3>1, <2>4
  <2> QED  BY <2>5, <1>2, <2>2, <2>1
<1> QED  BY <1>2, <1>3

LEMMA ChainIs ==
  ASSUME Threads(said), NEW g, Climbs(g, said, Len(said)), NEW c \in 0..Len(said), NEW u
  PROVE  Chain(c, u) = <<u>> \o g[c]
<1> DEFINE up == CHOOSE h : h = [n \in 0..Len(said) |->
                   IF n = 0 THEN <<>> ELSE <<AuthorOf(n)>> \o h[ParentOf(n)]]
<1>1. Climbs(up, said, Len(said))
  BY DEF Climbs, AuthorOf, ParentOf
<1>2. Len(said) \in Nat
  BY DEF Threads
<1>3. up[c] = g[c]
  <2> HIDE DEF up
  <2> QED  BY <1>1, <1>2, ClimbsSame
<1>4. Chain(c, u) = <<u>> \o up[c]
  BY DEF Chain
<1> QED  BY <1>3, <1>4

\* Lengths of alternation.
Tails(ws) ==
  {1} \cup {n \in 2..Len(ws) : ws[1] # ws[2] /\ \A k \in 3..n : ws[k] = ws[k - 2]}

LEMMA InTails ==
  ASSUME NEW ws \in Seq(Writers)
  PROVE  /\ Len(ws) \in Nat
         /\ \A n : n \in Tails(ws) <=>
              \/ n = 1
              \/ n \in 2..Len(ws) /\ ws[1] # ws[2] /\ \A k \in 3..n : ws[k] = ws[k - 2]
<1>1. Len(ws) \in Nat
  OBVIOUS
<1> QED  BY <1>1, Zenon DEF Tails

LEMMA TailIsLongest ==
  ASSUME NEW ws \in Seq(Writers)
  PROVE  /\ AlternatingTail(ws) \in Nat /\ AlternatingTail(ws) >= 1
         /\ AlternatingTail(ws) \in Tails(ws)
         /\ \A n \in Tails(ws) : n \in Nat /\ n <= AlternatingTail(ws)
<1>1. AlternatingTail(ws) = Max(Tails(ws))
  BY Zenon DEF AlternatingTail, Tails
<1>2. Tails(ws) \in SUBSET Int /\ \A n \in Tails(ws) : n \in Nat /\ n >= 1
  <2>1. ASSUME NEW n \in Tails(ws) PROVE n \in Nat /\ n >= 1
    BY InTails
  <2> QED  BY <2>1
<1>3. IsFiniteSet(Tails(ws)) /\ Tails(ws) # {}
  <2>1. IsFiniteSet(2..Len(ws)) /\ IsFiniteSet({1})
    <3>1. 2 \in Int /\ Len(ws) \in Int
      BY InTails
    <3> QED  BY <3>1, FS_Interval, FS_Singleton
  <2>2. IsFiniteSet({n \in 2..Len(ws) : ws[1] # ws[2] /\ \A k \in 3..n : ws[k] = ws[k - 2]})
    BY <2>1, FS_Subset
  <2> QED  BY <2>1, <2>2, FS_Union DEF Tails
<1>4. Max(Tails(ws)) \in Tails(ws) /\ \A n \in Tails(ws) : n <= Max(Tails(ws))
  BY <1>2, <1>3, Greatest
<1> QED  BY <1>1, <1>2, <1>4

\* An answer to an answer makes an exchange one longer.
LEMMA TailGrows ==
  ASSUME NEW ws \in Seq(Writers), NEW u \in Writers,
         Len(ws) >= 2, ws[2] = u, ws[1] # u
  PROVE  AlternatingTail(<<u>> \o ws) = AlternatingTail(ws) + 1
<1> DEFINE bs == <<u>> \o ws
<1>1. /\ bs \in Seq(Writers) /\ Len(bs) = Len(ws) + 1 /\ Len(ws) \in Nat /\ bs[1] = u
      /\ \A k \in 1..Len(ws) : bs[k + 1] = ws[k]
  <2>1. <<u>> \in Seq(Writers) /\ Len(<<u>>) = 1 /\ <<u>>[1] = u
    OBVIOUS
  <2>2. /\ bs \in Seq(Writers) /\ Len(bs) = Len(ws) + 1 /\ Len(ws) \in Nat
        /\ \A k \in 1..(1 + Len(ws)) : bs[k] = IF k <= 1 THEN <<u>>[k] ELSE ws[k - 1]
    BY <2>1
  <2> HIDE DEF bs
  <2>3. bs[1] = u
    BY <2>1, <2>2
  <2>4. ASSUME NEW k \in 1..Len(ws) PROVE bs[k + 1] = ws[k]
    <3>1. k + 1 \in 1..(1 + Len(ws)) /\ ~ (k + 1 <= 1) /\ (k + 1) - 1 = k
      BY <2>2
    <3> QED  BY <2>2, <3>1
  <2> QED  BY <2>2, <2>3, <2>4
<1> HIDE DEF bs
<1>2. bs[2] = ws[1] /\ bs[3] = ws[2]
  <2>1. 1 \in 1..Len(ws) /\ 2 \in 1..Len(ws) /\ 1 + 1 = 2 /\ 2 + 1 = 3
    BY <1>1
  <2>2. bs[1 + 1] = ws[1] /\ bs[2 + 1] = ws[2]
    BY <1>1, <2>1
  <2> QED  BY <2>1, <2>2
<1>3. ASSUME NEW n \in Tails(ws) PROVE n + 1 \in Tails(bs)
  <2>1. CASE n = 1
    BY <2>1, <1>1, <1>2, InTails
  <2>2. CASE n # 1
    <3>1. n \in 2..Len(ws) /\ n + 1 \in 2..Len(bs)
      BY <2>2, <1>1, InTails
    <3>2. ASSUME NEW k \in 3..(n + 1) PROVE bs[k] = bs[k - 2]
      <4>1. CASE k = 3
        BY <4>1, <1>1, <1>2
      <4>2. CASE k # 3
        <5>1. k - 1 \in 3..n /\ k - 1 \in 1..Len(ws) /\ k - 3 \in 1..Len(ws)
          BY <4>2, <3>1, <1>1
        <5>2. ws[k - 1] = ws[(k - 1) - 2]
          BY <5>1, <2>2, InTails
        <5>3. bs[(k - 1) + 1] = ws[k - 1] /\ bs[(k - 3) + 1] = ws[k - 3]
          BY <5>1, <1>1
        <5>4. (k - 1) + 1 = k /\ (k - 3) + 1 = k - 2 /\ (k - 1) - 2 = k - 3
          OBVIOUS
        <5> QED  BY <5>2, <5>3, <5>4
      <4> QED  BY <4>1, <4>2
    <3> QED  BY <3>1, <3>2, <1>1, <1>2, InTails
  <2> QED  BY <2>1, <2>2
<1>4. ASSUME NEW n \in Tails(bs), n # 1 PROVE n - 1 \in Tails(ws)
  <2>1. n \in 2..Len(bs) /\ \A k \in 3..n : bs[k] = bs[k - 2]
    BY <1>4, <1>1, InTails
  <2>2. CASE n = 2
    BY <2>2, InTails
  <2>3. CASE n # 2
    <3>1. n - 1 \in 2..Len(ws)
      BY <2>1, <2>3, <1>1
    <3>2. ASSUME NEW k \in 3..(n - 1) PROVE ws[k] = ws[k - 2]
      <4>1. k + 1 \in 3..n /\ k \in 1..Len(ws) /\ k - 2 \in 1..Len(ws)
        BY <3>1, <2>1, <1>1
      <4>2. bs[k + 1] = bs[(k + 1) - 2]
        BY <4>1, <2>1
      <4>3. bs[k + 1] = ws[k] /\ bs[(k - 2) + 1] = ws[k - 2]
        BY <4>1, <1>1
      <4>4. (k - 2) + 1 = (k + 1) - 2
        OBVIOUS
      <4> QED  BY <4>2, <4>3, <4>4
    <3> QED  BY <3>1, <3>2, <2>1, <1>1, InTails, ws[1] # ws[2]
  <2> QED  BY <2>2, <2>3
<1> DEFINE ta == AlternatingTail(ws)
           tb == AlternatingTail(bs)
<1>5. /\ ta \in Nat /\ ta >= 1 /\ ta \in Tails(ws) /\ \A n \in Tails(ws) : n <= ta
      /\ tb \in Nat /\ tb >= 1 /\ tb \in Tails(bs) /\ \A n \in Tails(bs) : n <= tb
  BY TailIsLongest, <1>1
<1> HIDE DEF ta, tb
<1>6. ta + 1 <= tb
  BY <1>3, <1>5
<1>7. tb # 1 /\ tb - 1 <= ta
  BY <1>4, <1>5, <1>6
<1>8. tb = ta + 1
  BY <1>5, <1>6, <1>7
<1> QED  BY <1>8 DEF ta, tb, bs

-----------------------------------------------------------------------------
(* Conversations: each step *)

LEMMA TalkAssumed ==
  /\ Talkers \cap Humans = {} /\ Poster \in Writers
  /\ ExchangeCaps \subseteq Nat \ {0} /\ ExchangeCaps # {}
  /\ CommentCap \in Nat /\ MaxWriting \in Nat \ {0}
  BY ConversationsAssumption DEF Writers

\* What TalkTypes says, in the form the steps use.
LEMMA SaidIs ==
  ASSUME TalkTypes
  PROVE  /\ Threads(said) /\ Len(said) \in Nat
         /\ \A c \in 1..Len(said) : AuthorOf(c) \in Writers /\ ParentOf(c) \in 0..Len(said)
                                    /\ ParentOf(c) < c
         /\ DOMAIN said = 1..Len(said) /\ DOMAIN fate = 1..Len(said)
<1>1. /\ said \in Seq(Writers \X Nat) /\ Len(said) \in Nat /\ DOMAIN said = 1..Len(said)
      /\ \A c \in 1..Len(said) : said[c] \in Writers \X Nat /\ said[c][2] < c
      /\ DOMAIN fate = 1..Len(said)
  BY DEF TalkTypes, ParentOf
<1>2. Threads(said)
  BY <1>1 DEF Threads
<1>3. \A c \in 1..Len(said) : /\ AuthorOf(c) \in Writers /\ ParentOf(c) \in Nat /\ ParentOf(c) < c
  <2> SUFFICES ASSUME NEW c \in 1..Len(said)
               PROVE  said[c][1] \in Writers /\ said[c][2] \in Nat /\ said[c][2] < c
    BY DEF AuthorOf, ParentOf
  <2>1. said[c] \in Writers \X Nat /\ said[c][2] < c
    BY <1>1
  <2> QED  BY ONLY <2>1
<1>4. \A c \in 1..Len(said) : ParentOf(c) \in 0..Len(said)
  BY <1>1, <1>3
<1> QED  BY <1>1, <1>2, <1>3, <1>4

\* An exchange once said is said: more comments do not lengthen it.
LEMMA TailStays ==
  ASSUME Threads(said), Threads(said'), Len(said) <= Len(said'),
         \A n \in 1..Len(said) : said[n] = said'[n],
         NEW c \in 0..Len(said), NEW u
  PROVE  ExchangeTail(c, u)' = ExchangeTail(c, u)
<1>1. Len(said) \in Nat /\ Len(said') \in Nat /\ c \in 0..Len(said')
  BY DEF Threads
<1>2. PICK g : Climbs(g, said, Len(said))
  BY <1>1, ClimbsExist
<1>3. PICK h : Climbs(h, said', Len(said'))
  BY <1>1, ClimbsExist
<1>4. g[c] = h[c]
  <2>1. Len(said) \in 0..Len(said)
    BY <1>1
  <2>2. \A n \in 0..Len(said) : g[n] = h[n]
    BY ONLY <1>1, <1>2, <1>3, <2>1, ClimbsSame, Threads(said), Len(said) <= Len(said'),
       \A n \in 1..Len(said) : said[n] = said'[n]
  <2> QED  BY <2>2
<1>5. Chain(c, u) = <<u>> \o g[c]
  BY <1>2, ChainIs
<1>6. Chain(c, u)' = <<u>> \o h[c]
  <2> DEFINE up == CHOOSE f : f = [n \in 0..Len(said') |->
                     IF n = 0 THEN <<>> ELSE <<AuthorOf(n)'>> \o f[ParentOf(n)']]
  <2>1. Climbs(up, said', Len(said'))
    <3>1. h = [n \in 0..Len(said') |-> IF n = 0 THEN <<>> ELSE <<AuthorOf(n)'>> \o h[ParentOf(n)']]
      BY <1>3 DEF Climbs, AuthorOf, ParentOf
    <3>2. up = [n \in 0..Len(said') |-> IF n = 0 THEN <<>> ELSE <<AuthorOf(n)'>> \o up[ParentOf(n)']]
      BY <3>1
    <3> HIDE DEF up
    <3> QED  BY <3>2 DEF Climbs, AuthorOf, ParentOf
  <2>2. up[c] = h[c]
    <3> HIDE DEF up
    <3> QED  BY <2>1, <1>1, <1>3, ClimbsSame
  <2>3. Chain(c, u)' = <<u>> \o up[c]
    BY DEF Chain
  <2> QED  BY <2>2, <2>3
<1>7. Chain(c, u)' = Chain(c, u)
  BY <1>4, <1>5, <1>6
<1> QED  BY <1>7 DEF ExchangeTail, AlternatingTail

\* The two sides look at the same exchange from its two ends.
LEMMA TailOfAnswer ==
  ASSUME TalkTypes, NEW c \in 1..Len(said), ParentOf(c) # 0,
         AuthorOf(ParentOf(c)) # AuthorOf(c)
  PROVE  /\ ExchangeTail(ParentOf(c), AuthorOf(c)) \in Nat
         /\ ExchangeTail(c, AuthorOf(ParentOf(c))) = ExchangeTail(ParentOf(c), AuthorOf(c)) + 1
<1> DEFINE p == ParentOf(c)
<1>1. /\ Threads(said) /\ Len(said) \in Nat /\ p \in 1..Len(said) /\ p \in 0..Len(said)
      /\ c \in 0..Len(said) /\ AuthorOf(c) \in Writers /\ AuthorOf(p) \in Writers
  BY SaidIs
<1>2. PICK g : Climbs(g, said, Len(said))
  BY <1>1, ClimbsExist
<1>3. /\ g[c] = <<AuthorOf(c)>> \o g[p] /\ g[p] = <<AuthorOf(p)>> \o g[ParentOf(p)]
      /\ g[c] \in Seq(Writers) /\ g[p] \in Seq(Writers) /\ g[ParentOf(p)] \in Seq(Writers)
  <2>1. ParentOf(p) \in 0..Len(said)
    BY <1>1, SaidIs
  <2> QED  BY <1>1, <1>2, <2>1, ClimbsAre DEF AuthorOf, ParentOf
<1>4. /\ Chain(p, AuthorOf(c)) = g[c]
      /\ Chain(c, AuthorOf(p)) = <<AuthorOf(p)>> \o g[c]
  BY <1>1, <1>2, <1>3, ChainIs
<1>5. Len(g[c]) >= 2 /\ g[c][1] = AuthorOf(c) /\ g[c][2] = AuthorOf(p)
  <2>1. g[p][1] = AuthorOf(p) /\ Len(g[p]) >= 1
    <3> DEFINE rest == g[ParentOf(p)]
    <3>1. rest \in Seq(Writers) /\ g[p] = <<AuthorOf(p)>> \o rest
      BY <1>3
    <3> HIDE DEF rest
    <3> QED  BY <3>1
  <2> DEFINE rest == g[p]
  <2>2. rest \in Seq(Writers) /\ g[c] = <<AuthorOf(c)>> \o rest
    BY <1>3
  <2> HIDE DEF rest
  <2>3. Len(g[c]) = Len(rest) + 1 /\ g[c][1] = AuthorOf(c) /\ (Len(rest) >= 1 => g[c][2] = rest[1])
    BY <2>2
  <2> QED  BY <2>1, <2>2, <2>3 DEF rest
<1>6. AlternatingTail(<<AuthorOf(p)>> \o g[c]) = AlternatingTail(g[c]) + 1
  BY <1>1, <1>3, <1>5, TailGrows
<1>7. AlternatingTail(g[c]) \in Nat
  BY <1>3, TailIsLongest
<1> QED  BY <1>4, <1>6, <1>7 DEF ExchangeTail

LEMMA TailIsNat ==
  ASSUME TalkTypes, NEW c \in 0..Len(said), NEW u \in Writers
  PROVE  ExchangeTail(c, u) \in Nat
<1>1. Threads(said) /\ Len(said) \in 0..Len(said)
  BY SaidIs
<1>2. PICK g : Climbs(g, said, Len(said))
  BY <1>1, ClimbsExist
<1>3. Chain(c, u) = <<u>> \o g[c] /\ g[c] \in Seq(Writers)
  BY <1>1, <1>2, ChainIs, ClimbsAre
<1>4. Chain(c, u) \in Seq(Writers)
  <2> DEFINE rest == g[c]
  <2>1. rest \in Seq(Writers) /\ Chain(c, u) = <<u>> \o rest /\ <<u>> \in Seq(Writers)
    BY <1>3
  <2> HIDE DEF rest
  <2> QED  BY <2>1
<1> QED  BY <1>4, TailIsLongest DEF ExchangeTail

LEMMA SaidStays ==
  ASSUME TalkTypes, said' = said
  PROVE  /\ \A u : \A c \in 0..Len(said) : ExchangeTail(c, u)' = ExchangeTail(c, u)
         /\ \A c : AuthorOf(c)' = AuthorOf(c) /\ ParentOf(c)' = ParentOf(c)
                   /\ Recipient(c)' = Recipient(c)
<1>1. Threads(said) /\ Threads(said') /\ Len(said) \in Nat
  BY SaidIs
<1>2. \A u : \A c \in 0..Len(said) : ExchangeTail(c, u)' = ExchangeTail(c, u)
  BY <1>1, TailStays
<1>3. \A c : AuthorOf(c)' = AuthorOf(c) /\ ParentOf(c)' = ParentOf(c)
  BY DEF AuthorOf, ParentOf
<1>4. \A c : Recipient(c)' = Recipient(c)
  BY DEF Recipient, AuthorOf, ParentOf
<1> QED  BY <1>2, <1>3, <1>4

LEMMA ExchangesAsBefore ==
  ASSUME TalkTypes, said' = said
  PROVE  ExchangesEnd' <=> \A c \in 1..Len(said) : ExchangeEnds(c, fate'[c], exchange')
<1>1. /\ \A u : \A d \in 0..Len(said) : ExchangeTail(d, u)' = ExchangeTail(d, u)
      /\ \A d : AuthorOf(d)' = AuthorOf(d) /\ ParentOf(d)' = ParentOf(d)
                /\ Recipient(d)' = Recipient(d)
  BY SaidStays
<1>2. \A d \in 1..Len(said) : d \in 0..Len(said) /\ ParentOf(d) \in 0..Len(said)
  BY SaidIs
<1>3. \A d : AuthorOf(ParentOf(d))' = AuthorOf(ParentOf(d))
  BY DEF AuthorOf, ParentOf
<1>4. \A d \in 1..Len(said) :
        ExchangeTail(ParentOf(d), AuthorOf(d))' = ExchangeTail(ParentOf(d), AuthorOf(d))
  <2>1. \A d, e, u : e = ParentOf(d) /\ u = AuthorOf(d) =>
          ExchangeTail(ParentOf(d), AuthorOf(d))' = ExchangeTail(e, u)'
    BY <1>1
  <2> QED  BY <1>1, <1>2, <2>1
<1>5. \A d \in 1..Len(said) :
        ExchangeTail(d, Recipient(d))' = ExchangeTail(d, Recipient(d))
  <2>1. \A d, u : u = Recipient(d) => ExchangeTail(d, Recipient(d))' = ExchangeTail(d, u)'
    BY <1>1
  <2> QED  BY <1>1, <1>2, <2>1
<1>6. ExchangesEnd' <=>
        \A c \in 1..Len(said) :
          /\ AuthorOf(c) \in Talkers /\ ParentOf(c) # 0 /\ AuthorOf(ParentOf(c)) # AuthorOf(c) =>
               ExchangeTail(ParentOf(c), AuthorOf(c))' <= exchange'
          /\ ParentOf(c) # 0 /\ fate'[c].told \notin {"pending", "missed", "self"} =>
               IF Recipient(c) \in Humans THEN fate'[c].told = "invited"
               ELSE (fate'[c].told = "suppressed")
                     <=> (ExchangeTail(c, Recipient(c))' > fate'[c].cap)
  BY <1>1, <1>3 DEF ExchangesEnd, ExchangeEnds
<1> QED  BY <1>4, <1>5, <1>6 DEF ExchangeEnds

\* Raising the cap ends no exchange sooner.
LEMMA ExchangesStay ==
  ASSUME TalkTypes, ExchangesEnd, said' = said, fate' = fate,
         exchange' \in Nat, exchange <= exchange'
  PROVE  ExchangesEnd'
<1> SUFFICES ASSUME NEW c \in 1..Len(said)
             PROVE  ExchangeEnds(c, fate[c], exchange')
  BY ExchangesAsBefore
<1>1. /\ AuthorOf(c) \in Writers /\ ParentOf(c) \in 0..Len(said)
      /\ exchange \in Nat
  BY SaidIs DEF TalkTypes
<1>2. ExchangeTail(ParentOf(c), AuthorOf(c)) \in Nat
  BY <1>1, TailIsNat
<1>3. ExchangeEnds(c, fate[c], exchange)
  BY DEF ExchangesEnd
<1> QED  BY <1>1, <1>2, <1>3 DEF ExchangeEnds

LEMMA TalkInvInit == TalkInit => TalkInv
<1> SUFFICES ASSUME TalkInit PROVE TalkInv
  OBVIOUS
<1>0. /\ said = <<>> /\ gone = {} /\ exchange \in Nat /\ notes = {} /\ fate = <<>> /\ hour = 0
      /\ tongue = [u \in Writers |-> Silent] /\ views = [u \in Talkers |-> {}]
  <2>1. exchange \in ExchangeCaps
    <3>1. \E n \in ExchangeCaps : \A m \in ExchangeCaps : n <= m
      BY TalkAssumed, LeastNat
    <3> QED  BY <3>1 DEF TalkInit, Min
  <2> QED  BY <2>1, TalkAssumed DEF TalkInit
<1>1. TalkTypes
  <2>1. said \in Seq(Writers \X Nat) /\ Len(said) = 0 /\ fate \in Seq(Fate) /\ Len(fate) = 0
    BY <1>0
  <2>2. tongue \in [Writers -> [pc : {"idle", "write", "notify"}, to : Nat]]
    BY <1>0 DEF Silent
  <2> QED  BY <1>0, <2>1, <2>2 DEF TalkTypes
<1>2. \A u \in Writers : tongue[u].pc = "idle"
  BY <1>0 DEF Silent
<1>3. WritingInOrder
  BY <1>2 DEF WritingInOrder
<1>4. Len(said) = 0 /\ DOMAIN said = {} /\ 1..Len(said) = {}
  BY <1>0
<1>5. ExchangesEnd
  BY <1>4 DEF ExchangesEnd
<1>6. RoomLeft
  <2>1. {u \in Writers : tongue[u].pc # "idle"} = {} /\ TalkersWriting = {} /\ OfTalkers = {}
    BY <1>2, <1>4 DEF TalkersWriting, OfTalkers, There, Writers
  <2>2. IsFiniteSet({}) /\ Cardinality({}) = 0
    BY FS_EmptySet
  <2>3. 0 + 0 < CommentCap + MaxWriting
    BY TalkAssumed
  <2> QED  BY Zenon, <2>1, <2>2, <2>3 DEF RoomLeft
<1>7. ViewsShown
  BY <1>0 DEF ViewsShown, UnseenStaysUnread
<1> QED  BY <1>1, <1>3, <1>5, <1>6, <1>7 DEF TalkInv

LEMMA RoomIs ==
  ASSUME TalkTypes, RoomLeft
  PROVE  /\ IsFiniteSet(OfTalkers) /\ IsFiniteSet(TalkersWriting)
         /\ Cardinality(OfTalkers) \in Nat /\ Cardinality(TalkersWriting) \in Nat
         /\ Cardinality(OfTalkers) + Cardinality(TalkersWriting) < CommentCap + MaxWriting
<1>1. IsFiniteSet(OfTalkers)
  <2>1. OfTalkers \in SUBSET (1..Len(said)) /\ Len(said) \in Int
    BY SaidIs DEF OfTalkers, There
  <2>2. IsFiniteSet(1..Len(said))
    BY <2>1, FS_Interval
  <2> QED  BY <2>1, <2>2, FS_Subset
<1>2. IsFiniteSet(TalkersWriting)
  <2>1. TalkersWriting \in SUBSET {u \in Writers : tongue[u].pc # "idle"}
    BY DEF TalkersWriting, Writers
  <2> QED  BY <2>1, FS_Subset DEF RoomLeft
<1> QED  BY <1>1, <1>2, FS_CardinalityType DEF RoomLeft

\* Nobody takes a place.
LEMMA RoomStays ==
  ASSUME TalkTypes, RoomLeft, OfTalkers' \in SUBSET OfTalkers,
         \A u \in Writers : tongue'[u] = tongue[u] \/ tongue'[u].pc # "write",
         IsFiniteSet({u \in Writers : tongue'[u].pc # "idle"})
  PROVE  RoomLeft'
<1>1. TalkersWriting' \in SUBSET TalkersWriting
  BY DEF TalkersWriting, Writers
<1>2. /\ IsFiniteSet(OfTalkers') /\ Cardinality(OfTalkers') <= Cardinality(OfTalkers)
      /\ IsFiniteSet(TalkersWriting') /\ Cardinality(TalkersWriting') <= Cardinality(TalkersWriting)
      /\ Cardinality(OfTalkers') \in Nat /\ Cardinality(TalkersWriting') \in Nat
  BY <1>1, RoomIs, FS_Subset, FS_CardinalityType
<1>3. Cardinality(OfTalkers') + Cardinality(TalkersWriting') < CommentCap + MaxWriting
  BY <1>2, RoomIs, TalkAssumed
<1> QED  BY <1>3 DEF RoomLeft

\* A check leaves the thread as it is; a persona's finds room in it.
LEMMA StartsKeeps ==
  ASSUME TalkInv, NEW u \in Writers, NEW c \in Nat, Starts(u, c),
         u \in Talkers => Cardinality(There) < CommentCap /\ MayReply(u, c)
  PROVE  TalkInv'
<1> USE DEF TalkInv
<1>0. /\ said' = said /\ gone' = gone /\ exchange' = exchange /\ notes' = notes
      /\ views' = views /\ fate' = fate /\ hour' = hour
      /\ tongue' = [tongue EXCEPT ![u] = [pc |-> "write", to |-> c]]
      /\ c \in There \cup {0} /\ tongue[u].pc = "idle"
      /\ Cardinality({v \in Writers : tongue[v].pc # "idle"}) < MaxWriting
  BY DEF Starts, Busy
<1>1. TalkTypes'
  <2>1. tongue' \in [Writers -> [pc : {"idle", "write", "notify"}, to : Nat]]
    BY <1>0 DEF TalkTypes
  <2> QED  BY <1>0, <2>1 DEF TalkTypes, ParentOf
<1>2. /\ \A v \in Writers \ {u} : tongue'[v] = tongue[v]
      /\ tongue'[u] = [pc |-> "write", to |-> c]
      /\ c \in 0..Len(said) /\ (c # 0 => c \in 1..Len(said))
  BY <1>0, SaidIs DEF TalkTypes, There
<1>3. WritingInOrder'
  <2> SUFFICES ASSUME NEW v \in Writers
               PROVE  /\ tongue'[v].pc = "write" =>
                           /\ tongue'[v].to \in 0..Len(said)
                           /\ v \in Talkers /\ tongue'[v].to # 0 /\ AuthorOf(tongue'[v].to) # v =>
                                ExchangeTail(tongue'[v].to, v) <= exchange
                      /\ tongue'[v].pc = "notify" =>
                           /\ tongue'[v].to \in 1..Len(said) /\ AuthorOf(tongue'[v].to) = v
                           /\ fate[tongue'[v].to].told = "pending"
    <3>1. \A d : AuthorOf(d)' = AuthorOf(d)
      BY <1>0, SaidStays
    <3>2. \A w : \A d \in 0..Len(said) : ExchangeTail(d, w)' = ExchangeTail(d, w)
      BY <1>0, SaidStays
    <3>3. \A v : AuthorOf(tongue[v].to)' = AuthorOf(tongue'[v].to)
      BY <1>0 DEF AuthorOf
    <3>4. \A v : tongue'[v].to \in 0..Len(said) =>
            ExchangeTail(tongue[v].to, v)' = ExchangeTail(tongue'[v].to, v)
      <4>1. \A v, d : d = tongue'[v].to => ExchangeTail(tongue[v].to, v)' = ExchangeTail(d, v)'
        OBVIOUS
      <4> QED  BY <4>1, <3>2
    <3> QED  BY <1>0, <3>1, <3>3, <3>4 DEF WritingInOrder
  <2>1. CASE v = u
    BY <2>1, <1>0, <1>2 DEF MayReply
  <2>2. CASE v # u
    BY <2>2, <1>2 DEF WritingInOrder
  <2> QED  BY <2>1, <2>2
<1>4. ExchangesEnd'
  BY <1>0, ExchangesStay DEF TalkTypes
<1>5. RoomLeft'
  <2> DEFINE Open == {v \in Writers : tongue[v].pc # "idle"}
             Open1 == {v \in Writers : tongue'[v].pc # "idle"}
  <2>1. /\ Open1 = Open \cup {u} /\ u \notin Open /\ IsFiniteSet(Open)
        /\ Cardinality(Open) < MaxWriting
    BY <1>0, <1>2 DEF RoomLeft
  <2>2. TalkersWriting' \in SUBSET Open1 /\ (u \notin Talkers => TalkersWriting' = TalkersWriting)
    BY <1>0, <1>2 DEF TalkersWriting, Writers
  <2>3. OfTalkers' = OfTalkers
    BY <1>0 DEF OfTalkers, There, AuthorOf
  <2> HIDE DEF Open, Open1
  <2>4. IsFiniteSet(Open1) /\ Cardinality(Open1) = Cardinality(Open) + 1 /\ Cardinality(Open) \in Nat
    BY <2>1, FS_AddElement, FS_CardinalityType
  <2>5. Cardinality(OfTalkers') + Cardinality(TalkersWriting') < CommentCap + MaxWriting
    <3>1. CASE u \notin Talkers
      BY <3>1, <2>2, <2>3, RoomIs
    <3>2. CASE u \in Talkers
      <4>1. IsFiniteSet(There)
        <5>1. There \in SUBSET (1..Len(said)) /\ Len(said) \in Int
          BY SaidIs DEF There
        <5>2. IsFiniteSet(1..Len(said))
          BY <5>1, FS_Interval
        <5> QED  BY <5>1, <5>2, FS_Subset
      <4>2. Cardinality(OfTalkers) <= Cardinality(There) /\ Cardinality(There) < CommentCap
        BY <4>1, <3>2, FS_Subset DEF OfTalkers
      <4>3. Cardinality(There) \in Nat /\ Cardinality(OfTalkers) \in Nat
        BY <4>1, RoomIs, FS_CardinalityType
      <4>4. /\ Cardinality(TalkersWriting') <= Cardinality(Open1)
            /\ Cardinality(TalkersWriting') \in Nat
        BY <2>2, <2>4, FS_Subset, FS_CardinalityType
      <4> QED  BY <4>2, <4>3, <4>4, <2>1, <2>3, <2>4, TalkAssumed
    <3> QED  BY <3>1, <3>2
  <2> QED  BY <2>4, <2>5 DEF RoomLeft, Open1
<1>6. ViewsShown'
  BY <1>0 DEF ViewsShown, UnseenStaysUnread
<1> QED  BY <1>1, <1>3, <1>4, <1>5, <1>6

\* A comment is committed where its check was made, and awaits its notification.
LEMMA WriteKeeps ==
  ASSUME TalkInv, NEW u \in Writers, Write(u)
  PROVE  TalkInv'
<1> USE DEF TalkInv
<1>a. PICK to, new : to = tongue[u].to /\ new = Len(said) + 1
  OBVIOUS
<1>0. /\ tongue[u].pc = "write" /\ to \in There \cup {0}
      /\ said' = Append(said, <<u, to>>)
      /\ fate' = Append(fate, [told |-> "pending", cap |-> 0])
      /\ tongue' = [tongue EXCEPT ![u] = [pc |-> "notify", to |-> new]]
      /\ gone' = gone /\ exchange' = exchange /\ notes' = notes /\ views' = views /\ hour' = hour
  BY <1>a DEF Write
<1>1. /\ Len(said) \in Nat /\ to \in Nat /\ new \in Nat /\ new = Len(said) + 1 /\ to \in 0..Len(said) /\ to < new
      /\ said \in Seq(Writers \X Nat) /\ fate \in Seq(Fate) /\ Len(fate) = Len(said)
  BY <1>0, <1>a, SaidIs DEF TalkTypes, There
<1>2. /\ said' \in Seq(Writers \X Nat) /\ Len(said') = new /\ said'[new] = <<u, to>>
      /\ \A n \in 1..Len(said) : said'[n] = said[n]
      /\ \A n \in 1..Len(said') : n \in 1..Len(said) \/ n = new
  BY <1>0, <1>1
<1>3. /\ fate' \in Seq(Fate) /\ Len(fate') = new /\ fate'[new].told = "pending"
      /\ \A n \in 1..Len(said) : fate'[n] = fate[n]
  <2>1. [told |-> "pending", cap |-> 0] \in Fate
    BY DEF Fate
  <2> QED  BY <2>1, <1>0, <1>1
<1>4. /\ AuthorOf(new)' = u /\ ParentOf(new)' = to
      /\ \A n \in 1..Len(said) : AuthorOf(n)' = AuthorOf(n) /\ ParentOf(n)' = ParentOf(n)
  BY <1>2 DEF AuthorOf, ParentOf
<1>5. TalkTypes'
  <2>1. tongue' \in [Writers -> [pc : {"idle", "write", "notify"}, to : Nat]]
    BY <1>0, <1>1 DEF TalkTypes
  <2>2. \A c \in 1..Len(said') : ParentOf(c)' < c
    BY <1>1, <1>2, <1>4, SaidIs
  <2> QED  BY <1>0, <1>2, <1>3, <2>1, <2>2 DEF TalkTypes
<1>6. Threads(said) /\ Threads(said')
  <2>1. \A n \in 1..Len(said') : said'[n][2] < n
    BY <1>5 DEF TalkTypes, ParentOf
  <2> QED  BY <2>1, <1>2, SaidIs DEF Threads
<1>7. \A v : \A c \in 0..Len(said) : ExchangeTail(c, v)' = ExchangeTail(c, v)
  BY <1>1, <1>2, <1>6, TailStays
<1>8. /\ \A v \in Writers \ {u} : tongue'[v] = tongue[v]
      /\ tongue'[u] = [pc |-> "notify", to |-> new]
  BY <1>0 DEF TalkTypes
<1>9. WritingInOrder'
  <2> SUFFICES ASSUME NEW v \in Writers
               PROVE  (/\ tongue[v].pc = "write" =>
                            /\ tongue[v].to \in 0..Len(said)
                            /\ v \in Talkers /\ tongue[v].to # 0 /\ AuthorOf(tongue[v].to) # v =>
                                 ExchangeTail(tongue[v].to, v) <= exchange
                       /\ tongue[v].pc = "notify" =>
                            /\ tongue[v].to \in 1..Len(said) /\ AuthorOf(tongue[v].to) = v
                            /\ fate[tongue[v].to].told = "pending")'
    BY DEF WritingInOrder
  <2>1. CASE v = u
    <3>1. tongue'[v].pc = "notify" /\ tongue'[v].to = new
      BY <2>1, <1>8
    <3>2. AuthorOf(tongue[v].to)' = AuthorOf(new)'
      BY <3>1, <1>2 DEF AuthorOf
    <3> QED  BY <3>1, <3>2, <2>1, <1>1, <1>2, <1>3, <1>4
  <2>2. CASE v # u
    <3>a. PICK at : at = tongue[v].to
      OBVIOUS
    <3>1. tongue'[v] = tongue[v] /\ at \in Nat
      BY <2>2, <3>a, <1>8 DEF TalkTypes
    <3>2. AuthorOf(tongue[v].to)' = AuthorOf(at)' /\ ExchangeTail(tongue[v].to, v)' = ExchangeTail(at, v)'
      <4>1. \A d : d = tongue'[v].to => /\ AuthorOf(tongue[v].to)' = AuthorOf(d)'
                                        /\ ExchangeTail(tongue[v].to, v)' = ExchangeTail(d, v)'
        OBVIOUS
      <4> QED  BY <4>1, <3>1, <3>a
    <3>3. /\ tongue[v].pc = "write" =>
               /\ at \in 0..Len(said)
               /\ v \in Talkers /\ at # 0 /\ AuthorOf(at) # v => ExchangeTail(at, v) <= exchange
          /\ tongue[v].pc = "notify" =>
               at \in 1..Len(said) /\ AuthorOf(at) = v /\ fate[at].told = "pending"
      BY <3>a DEF WritingInOrder
    <3>4. at \in 0..Len(said) => ExchangeTail(at, v)' = ExchangeTail(at, v) /\ at \in 0..Len(said')
      BY <1>1, <1>2, <1>7
    <3>5. at \in 1..Len(said) => AuthorOf(at)' = AuthorOf(at) /\ at \in 1..Len(said') /\ fate'[at] = fate[at]
      BY <1>1, <1>2, <1>3, <1>4
    <3>6. at \in 0..Len(said) /\ at # 0 => at \in 1..Len(said)
      BY <1>1
    <3>7. tongue'[v].pc = "write" =>
            /\ tongue'[v].to \in 0..Len(said')
            /\ v \in Talkers /\ tongue'[v].to # 0 /\ AuthorOf(at)' # v => ExchangeTail(at, v)' <= exchange'
      BY <3>1, <3>3, <3>4, <3>5, <3>6, <3>a, <1>0
    <3>8. tongue'[v].pc = "notify" =>
            /\ tongue'[v].to \in 1..Len(said') /\ AuthorOf(at)' = v
            /\ fate'[tongue'[v].to].told = "pending"
      BY <3>1, <3>3, <3>5, <3>a
    <3> QED  BY <3>2, <3>7, <3>8
  <2> QED  BY <2>1, <2>2
<1>10. ExchangesEnd'
  <2> SUFFICES ASSUME NEW c \in 1..Len(said')
               PROVE  (/\ AuthorOf(c) \in Talkers /\ ParentOf(c) # 0 /\ AuthorOf(ParentOf(c)) # AuthorOf(c) =>
                            ExchangeTail(ParentOf(c), AuthorOf(c)) <= exchange
                       /\ ParentOf(c) # 0 /\ fate[c].told \notin {"pending", "missed", "self"} =>
                            IF Recipient(c) \in Humans THEN fate[c].told = "invited"
                            ELSE (fate[c].told = "suppressed")
                                  <=> (ExchangeTail(c, Recipient(c)) > fate[c].cap))'
    BY DEF ExchangesEnd, ExchangeEnds
  <2>0. \A p, w : /\ p = ParentOf(c)' => AuthorOf(ParentOf(c))' = AuthorOf(p)'
                  /\ p = ParentOf(c)' /\ w = AuthorOf(c)' =>
                       ExchangeTail(ParentOf(c), AuthorOf(c))' = ExchangeTail(p, w)'
                  /\ w = Recipient(c)' => ExchangeTail(c, Recipient(c))' = ExchangeTail(c, w)'
    BY DEF AuthorOf
  <2>1. CASE c = new
    <3>1. ParentOf(c)' = to /\ AuthorOf(c)' = u /\ fate'[c].told = "pending"
      BY <2>1, <1>3, <1>4
    <3>2. u \in Talkers /\ to # 0 /\ AuthorOf(to)' # u => ExchangeTail(to, u)' <= exchange'
      <4>1. to # 0 => to \in 1..Len(said)
        BY <1>1
      <4>2. u \in Talkers /\ to # 0 /\ AuthorOf(to) # u => ExchangeTail(to, u) <= exchange
        BY <1>0, <1>a DEF WritingInOrder
      <4> QED  BY <4>1, <4>2, <1>0, <1>1, <1>4, <1>7
    <3> QED  BY <3>1, <3>2, <2>0
  <2>2. CASE c # new
    <3>a. PICK p, x : p = ParentOf(c) /\ x = AuthorOf(c)
      OBVIOUS
    <3>b. PICK y : p # 0 => y = AuthorOf(p)
      OBVIOUS
    <3>1. c \in 1..Len(said) /\ c \in 0..Len(said) /\ p \in 0..Len(said) /\ (p # 0 => p \in 1..Len(said))
      <4>1. c \in 1..Len(said)
        BY <2>2, <1>2
      <4> QED  BY <4>1, <3>a, <1>1, SaidIs
    <3>2. /\ ParentOf(c)' = p /\ AuthorOf(c)' = x /\ fate'[c] = fate[c]
          /\ (p # 0 => AuthorOf(p)' = y)
      BY <3>1, <3>a, <3>b, <1>3, <1>4
    <3>3. p # 0 => Recipient(c)' = y /\ Recipient(c) = y
      BY <3>2, <3>a, <3>b, <2>0 DEF Recipient
    <3>4. /\ x \in Talkers /\ p # 0 /\ y # x => ExchangeTail(p, x) <= exchange
          /\ p # 0 /\ fate[c].told \notin {"pending", "missed", "self"} =>
               IF y \in Humans THEN fate[c].told = "invited"
               ELSE (fate[c].told = "suppressed") <=> (ExchangeTail(c, y) > fate[c].cap)
      BY <3>1, <3>3, <3>a, <3>b DEF ExchangesEnd, ExchangeEnds
    <3>5. /\ ExchangeTail(p, x)' = ExchangeTail(p, x)
          /\ ExchangeTail(c, y)' = ExchangeTail(c, y)
      BY <3>1, <1>7
    <3>6. /\ ExchangeTail(ParentOf(c), AuthorOf(c))' = ExchangeTail(p, x)
          /\ p # 0 => ExchangeTail(c, Recipient(c))' = ExchangeTail(c, y)
      BY <3>2, <3>3, <3>5, <2>0
    <3>7. p # 0 => AuthorOf(ParentOf(c))' = y
      BY <3>2, <2>0
    <3> QED  BY <3>2, <3>3, <3>4, <3>6, <3>7, <1>0
  <2> QED  BY <2>1, <2>2
<1>11. RoomLeft'
  <2>1. OfTalkers' \in SUBSET (OfTalkers \cup (IF u \in Talkers THEN {new} ELSE {}))
    <3> SUFFICES ASSUME NEW c \in OfTalkers'
                 PROVE  c \in OfTalkers \/ (u \in Talkers /\ c = new)
      OBVIOUS
    <3>1. c \in 1..Len(said') /\ c \notin gone /\ AuthorOf(c)' \in Talkers
      BY <1>0, <1>5, <1>2 DEF OfTalkers, There
    <3>2. c \in 1..Len(said) \/ c = new
      BY <3>1, <1>2
    <3> QED  BY <3>1, <3>2, <1>4, SaidIs DEF OfTalkers, There
  <2>2. {v \in Writers : tongue'[v].pc # "idle"} \in SUBSET {v \in Writers : tongue[v].pc # "idle"}
    BY <1>0, <1>8
  <2>3. IsFiniteSet({v \in Writers : tongue'[v].pc # "idle"})
    BY <2>2, FS_Subset DEF RoomLeft
  <2>4. CASE u \notin Talkers
    <3>1. OfTalkers' \in SUBSET OfTalkers
      BY <2>1, <2>4
    <3>2. \A v \in Writers : tongue'[v] = tongue[v] \/ tongue'[v].pc # "write"
      BY <1>8
    <3> QED  BY <3>1, <3>2, <2>3, RoomStays
  <2>5. CASE u \in Talkers
    <3>1. TalkersWriting' = TalkersWriting \ {u} /\ u \in TalkersWriting
      BY <2>5, <1>0, <1>8 DEF TalkersWriting, Writers
    <3>2. /\ Cardinality(TalkersWriting') = Cardinality(TalkersWriting) - 1
      BY <3>1, RoomIs, FS_RemoveElement
    <3>3. /\ IsFiniteSet(OfTalkers \cup {new})
          /\ Cardinality(OfTalkers \cup {new}) <= Cardinality(OfTalkers) + 1
          /\ Cardinality(OfTalkers \cup {new}) \in Nat
      <4>1. CASE new \in OfTalkers
        <5>1. OfTalkers \cup {new} = OfTalkers
          BY <4>1
        <5>2. Cardinality(OfTalkers) \in Nat /\ IsFiniteSet(OfTalkers)
          BY RoomIs
        <5>3. Cardinality(OfTalkers) <= Cardinality(OfTalkers) + 1
          BY <5>2
        <5> QED  BY <5>1, <5>2, <5>3, Zenon
      <4>2. CASE new \notin OfTalkers
        <5>1. /\ IsFiniteSet(OfTalkers \cup {new})
              /\ Cardinality(OfTalkers \cup {new}) = Cardinality(OfTalkers) + 1
          BY <4>2, RoomIs, FS_AddElement
        <5> QED  BY <5>1, RoomIs
      <4> QED  BY <4>1, <4>2
    <3>4. Cardinality(OfTalkers') <= Cardinality(OfTalkers \cup {new}) /\ Cardinality(OfTalkers') \in Nat
      BY <2>1, <2>5, <3>3, FS_Subset, FS_CardinalityType
    <3>5. Cardinality(OfTalkers') + Cardinality(TalkersWriting') < CommentCap + MaxWriting
      BY <3>2, <3>3, <3>4, RoomIs, TalkAssumed
    <3> QED  BY <3>5, <2>3 DEF RoomLeft
  <2> QED  BY <2>4, <2>5
<1>12. ViewsShown'
  <2>1. \A c \in 1..Len(said) : c \in 1..Len(said') /\ fate'[c] = fate[c]
    BY <1>1, <1>2, <1>3
  <2> QED  BY <2>1, <1>0 DEF ViewsShown, UnseenStaysUnread
<1> QED  BY <1>5, <1>9, <1>10, <1>11, <1>12

\* What was said and of whom: unchanged by all the rest.
LEMMA WritingStays ==
  ASSUME TalkTypes, WritingInOrder, said' = said,
         exchange' \in Nat, exchange <= exchange',
         \A u \in Writers : \/ tongue'[u].pc = "idle"
                            \/ /\ tongue'[u] = tongue[u]
                               /\ tongue[u].pc = "notify" =>
                                    fate'[tongue[u].to] = fate[tongue[u].to]
  PROVE  WritingInOrder'
<1> SUFFICES ASSUME NEW u \in Writers
             PROVE  (/\ tongue[u].pc = "write" =>
                          /\ tongue[u].to \in 0..Len(said)
                          /\ u \in Talkers /\ tongue[u].to # 0 /\ AuthorOf(tongue[u].to) # u =>
                               ExchangeTail(tongue[u].to, u) <= exchange
                     /\ tongue[u].pc = "notify" =>
                          /\ tongue[u].to \in 1..Len(said) /\ AuthorOf(tongue[u].to) = u
                          /\ fate[tongue[u].to].told = "pending")'
  BY DEF WritingInOrder
<1>1. PICK at : at = tongue[u].to
  OBVIOUS
<1>2. /\ tongue[u].pc = "write" =>
           /\ at \in 0..Len(said)
           /\ u \in Talkers /\ at # 0 /\ AuthorOf(at) # u => ExchangeTail(at, u) <= exchange
      /\ tongue[u].pc = "notify" =>
           at \in 1..Len(said) /\ AuthorOf(at) = u /\ fate[at].told = "pending"
  BY <1>1 DEF WritingInOrder
<1>3. CASE tongue'[u].pc = "idle"
  BY <1>3
<1>4. CASE tongue'[u].pc # "idle"
  <2>1. tongue'[u] = tongue[u] /\ (tongue[u].pc = "notify" => fate'[at] = fate[at])
    BY <1>1, <1>4
  <2>2. \A d : d = tongue'[u].to => /\ AuthorOf(tongue[u].to)' = AuthorOf(d)'
                                    /\ ExchangeTail(tongue[u].to, u)' = ExchangeTail(d, u)'
    OBVIOUS
  <2>3. AuthorOf(tongue[u].to)' = AuthorOf(at)
    BY <2>1, <2>2, <1>1, SaidStays
  <2>4. at \in 0..Len(said) => /\ ExchangeTail(tongue[u].to, u)' = ExchangeTail(at, u)
                               /\ ExchangeTail(at, u) \in Nat
    BY <2>1, <2>2, <1>1, SaidStays, TailIsNat
  <2>5. exchange \in Nat
    BY DEF TalkTypes
  <2> QED  BY <2>1, <2>3, <2>4, <2>5, <1>1, <1>2
<1> QED  BY <1>3, <1>4

\* A comment nobody was told of, or one never written.
LEMMA GivesUpKeeps ==
  ASSUME TalkInv, NEW u \in Writers, GivesUp(u)
  PROVE  TalkInv'
<1> USE DEF TalkInv
<1>a. PICK at : at = tongue[u].to
  OBVIOUS
<1>0. /\ tongue[u].pc # "idle"
      /\ tongue' = [tongue EXCEPT ![u] = Silent]
      /\ fate' = IF tongue[u].pc = "notify" THEN [fate EXCEPT ![at].told = "missed"] ELSE fate
      /\ said' = said /\ gone' = gone /\ exchange' = exchange /\ notes' = notes
      /\ views' = views /\ hour' = hour
  BY <1>a DEF GivesUp
<1>1. /\ \A v \in Writers \ {u} : tongue'[v] = tongue[v]
      /\ tongue'[u].pc = "idle"
  BY <1>0 DEF TalkTypes, Silent
<1>2. /\ fate \in Seq(Fate) /\ Len(fate) = Len(said) /\ Len(said) \in Nat /\ exchange \in Nat
      /\ DOMAIN fate = 1..Len(said)
  BY SaidIs DEF TalkTypes
<1>3. tongue[u].pc = "notify" =>
        at \in 1..Len(said) /\ AuthorOf(at) = u /\ fate[at].told = "pending"
  BY <1>a DEF WritingInOrder
<1>4. /\ fate' \in Seq(Fate) /\ Len(fate') = Len(said)
      /\ \A c \in 1..Len(said) :
           \/ fate'[c] = fate[c]
           \/ c = at /\ tongue[u].pc = "notify" /\ fate'[c].told = "missed"
  <2>1. CASE tongue[u].pc = "notify"
    <3>1. [fate[at] EXCEPT !.told = "missed"] \in Fate
      <4>1. fate[at] \in Fate
        BY <2>1, <1>2, <1>3
      <4> QED  BY <4>1 DEF Fate
    <3>2. fate' = [fate EXCEPT ![at] = [fate[at] EXCEPT !.told = "missed"]]
      BY <2>1, <1>0
    <3>3. [fate[at] EXCEPT !.told = "missed"].told = "missed"
      BY <2>1, <1>2, <1>3 DEF Fate
    <3> QED  BY <2>1, <3>1, <3>2, <3>3, <1>2, <1>3
  <2>2. CASE tongue[u].pc # "notify"
    BY <2>2, <1>0, <1>2
  <2> QED  BY <2>1, <2>2
<1>5. TalkTypes'
  <2>1. tongue' \in [Writers -> [pc : {"idle", "write", "notify"}, to : Nat]]
    BY <1>0 DEF TalkTypes, Silent
  <2> QED  BY <1>0, <1>4, <2>1 DEF TalkTypes, ParentOf
<1>6. WritingInOrder'
  <2>1. ASSUME NEW v \in Writers, v # u, tongue[v].pc = "notify"
        PROVE  fate'[tongue[v].to] = fate[tongue[v].to]
    <3>1. tongue[v].to \in 1..Len(said) /\ AuthorOf(tongue[v].to) = v
      BY <2>1 DEF WritingInOrder
    <3>2. tongue[u].pc = "notify" => tongue[v].to # at
      BY <3>1, <2>1, <1>3
    <3> QED  BY <3>1, <3>2, <1>4
  <2> QED  BY <2>1, <1>0, <1>1, <1>2, WritingStays
<1>7. ExchangesEnd'
  <2>1. ASSUME NEW c \in 1..Len(said) PROVE ExchangeEnds(c, fate'[c], exchange)
    <3>1. ExchangeEnds(c, fate[c], exchange)
      BY DEF ExchangesEnd
    <3> QED  BY <3>1, <1>4 DEF ExchangeEnds
  <2> QED  BY <2>1, <1>0, ExchangesAsBefore
<1>8. RoomLeft'
  <2>1. OfTalkers' = OfTalkers
    BY <1>0 DEF OfTalkers, There, AuthorOf
  <2>2. {v \in Writers : tongue'[v].pc # "idle"} \in SUBSET {v \in Writers : tongue[v].pc # "idle"}
    BY <1>1
  <2>3. IsFiniteSet({v \in Writers : tongue'[v].pc # "idle"})
    BY <2>2, FS_Subset DEF RoomLeft
  <2>4. \A v \in Writers : tongue'[v] = tongue[v] \/ tongue'[v].pc # "write"
    BY <1>1
  <2> QED  BY <2>1, <2>3, <2>4, RoomStays
<1>9. ViewsShown'
  <2>1. \A c \in 1..Len(said) : fate[c].told = "invited" => fate'[c].told = "invited"
    BY <1>3, <1>4
  <2> QED  BY <2>1, <1>0 DEF ViewsShown, UnseenStaysUnread
<1> QED  BY <1>5, <1>6, <1>7, <1>8, <1>9

\* A comment's author, whom it answers, and what is decided then.
LEMMA NotifyKeeps ==
  ASSUME TalkInv, NEW u \in Writers, Notify(u)
  PROVE  TalkInv'
<1> USE DEF TalkInv
<1>a. PICK c, told, to : c = tongue[u].to /\ told = Told(c) /\ to = Recipient(c)
  OBVIOUS
<1> DEFINE note == [to |-> to, from |-> AuthorOf(c), about |-> c, at |-> hour,
                    read |-> FALSE, shown |-> FALSE]
<1>0. /\ tongue[u].pc = "notify" /\ c \in There
      /\ fate' = [fate EXCEPT ![c] = [told |-> told, cap |-> exchange]]
      /\ notes' = IF told = "invited" THEN notes \cup {note} ELSE notes
      /\ tongue' = [tongue EXCEPT ![u] = Silent]
      /\ said' = said /\ gone' = gone /\ exchange' = exchange /\ views' = views /\ hour' = hour
  BY <1>a DEF Notify
<1>1. /\ \A v \in Writers \ {u} : tongue'[v] = tongue[v]
      /\ tongue'[u].pc = "idle"
  BY <1>0 DEF TalkTypes, Silent
<1>2. /\ fate \in Seq(Fate) /\ Len(fate) = Len(said) /\ Len(said) \in Nat /\ exchange \in Nat
      /\ hour \in Nat /\ DOMAIN fate = 1..Len(said)
      /\ c \in 1..Len(said) /\ AuthorOf(c) = u /\ fate[c].told = "pending"
      /\ ParentOf(c) \in 0..Len(said)
  BY <1>0, <1>a, SaidIs DEF TalkTypes, WritingInOrder
<1>3. told \in {"self", "suppressed", "repeated", "invited"} /\ to \in Writers
  <2>1. told \in {"self", "suppressed", "repeated", "invited"}
    BY <1>a DEF Told
  <2>2. ParentOf(c) # 0 => AuthorOf(ParentOf(c)) \in Writers
    BY <1>2, SaidIs
  <2> QED  BY <2>1, <2>2, <1>a, TalkAssumed DEF Recipient
<1>4. /\ fate' \in Seq(Fate) /\ Len(fate') = Len(said)
      /\ fate'[c] = [told |-> told, cap |-> exchange]
      /\ \A d \in 1..Len(said) : d # c => fate'[d] = fate[d]
  <2>1. [told |-> told, cap |-> exchange] \in Fate
    BY <1>2, <1>3 DEF Fate
  <2> QED  BY <2>1, <1>0, <1>2
<1>5. TalkTypes'
  <2>1. tongue' \in [Writers -> [pc : {"idle", "write", "notify"}, to : Nat]]
    BY <1>0 DEF TalkTypes, Silent
  <2>2. note \in Note
    BY <1>2, <1>3 DEF Note
  <2>3. notes' \in SUBSET Note
    BY <2>2, <1>0 DEF TalkTypes
  <2> QED  BY <1>0, <1>4, <2>1, <2>3 DEF TalkTypes, ParentOf
<1>6. WritingInOrder'
  <2>1. ASSUME NEW v \in Writers, v # u, tongue[v].pc = "notify"
        PROVE  fate'[tongue[v].to] = fate[tongue[v].to]
    <3>1. tongue[v].to \in 1..Len(said) /\ AuthorOf(tongue[v].to) = v
      BY <2>1 DEF WritingInOrder
    <3> QED  BY <3>1, <2>1, <1>2, <1>4
  <2> QED  BY <2>1, <1>0, <1>1, <1>2, WritingStays
<1>7. ExchangesEnd'
  <2>1. ASSUME NEW d \in 1..Len(said) PROVE ExchangeEnds(d, fate'[d], exchange)
    <3>1. ExchangeEnds(d, fate[d], exchange)
      BY DEF ExchangesEnd
    <3>2. CASE d # c
      BY <3>1, <3>2, <1>4
    <3>3. CASE d = c
      <4> SUFFICES ASSUME ParentOf(c) # 0, told # "self"
                   PROVE  IF to \in Humans THEN told = "invited"
                          ELSE (told = "suppressed") <=> (ExchangeTail(c, to) > exchange)
        BY <3>1, <3>3, <1>4, <1>a DEF ExchangeEnds
      <4>1. to = AuthorOf(ParentOf(c)) /\ to # AuthorOf(c) /\ to \in Writers
        BY <1>a, <1>3 DEF Recipient, Told
      <4>2. CASE to \in Humans
        BY <4>1, <4>2, <1>a, TalkAssumed DEF Told, Fatigued, Repeated
      <4>3. CASE to \notin Humans
        <5>1. to \in Talkers
          BY <4>1, <4>3 DEF Writers
        <5>2. /\ ExchangeTail(ParentOf(c), AuthorOf(c)) \in Nat
              /\ ExchangeTail(c, to) = ExchangeTail(ParentOf(c), AuthorOf(c)) + 1
          BY <4>1, <1>2, TailOfAnswer
        <5>3. told = "suppressed" <=> ExchangeTail(ParentOf(c), AuthorOf(c)) >= exchange
          BY <4>1, <5>1, <1>a DEF Told, Fatigued
        <5> QED  BY <4>3, <5>2, <5>3, <1>2
      <4> QED  BY <4>2, <4>3
    <3> QED  BY <3>2, <3>3
  <2> QED  BY <2>1, <1>0, ExchangesAsBefore
<1>8. RoomLeft'
  <2>1. OfTalkers' = OfTalkers
    BY <1>0 DEF OfTalkers, There, AuthorOf
  <2>2. {v \in Writers : tongue'[v].pc # "idle"} \in SUBSET {v \in Writers : tongue[v].pc # "idle"}
    BY <1>0, <1>1
  <2>3. IsFiniteSet({v \in Writers : tongue'[v].pc # "idle"})
    BY <2>2, FS_Subset DEF RoomLeft
  <2>4. \A v \in Writers : tongue'[v] = tongue[v] \/ tongue'[v].pc # "write"
    BY <1>1
  <2> QED  BY <2>1, <2>3, <2>4, RoomStays
<1>9. ViewsShown'
  <2>1. \A d \in 1..Len(said) : fate[d].told = "invited" => fate'[d].told = "invited" /\ d # c
    BY <1>2, <1>4
  <2>2. told = "invited" => fate'[c].told = "invited"
    BY <1>4
  <2>3. \A n \in notes' : n \in notes \/ (n = note /\ told = "invited")
    BY <1>0
  <2>4. note.to = to /\ note.about = c /\ ~ note.read
    OBVIOUS
  <2> HIDE DEF note
  <2>5. \A n \in notes' : n.about \in 1..Len(said) /\ fate'[n.about].told = "invited"
    BY <2>1, <2>2, <2>3, <2>4, <1>2 DEF ViewsShown
  <2>6. \A v \in Talkers : \A d \in views[v] : d \in 1..Len(said) /\ fate'[d].told = "invited" /\ d # c
    BY <2>1 DEF ViewsShown
  <2>7. \A n \in notes' : n.to \in Talkers /\ n.about \in views[n.to] => n.shown
    BY <2>3, <2>4, <2>6 DEF ViewsShown
  <2>8. \A n \in notes' : n.to \in Talkers /\ n.read => n.shown
    BY <2>3, <2>4 DEF ViewsShown, UnseenStaysUnread
  <2> QED  BY <2>5, <2>6, <2>7, <2>8, <1>0 DEF ViewsShown, UnseenStaysUnread
<1> QED  BY <1>5, <1>6, <1>7, <1>8, <1>9

\* The frame of everything that concerns inboxes only.
LEMMA InboxesKeep ==
  ASSUME TalkInv, said' = said, fate' = fate, tongue' = tongue,
         exchange' \in Nat, exchange <= exchange', hour' \in Nat,
         There' \in SUBSET There,
         notes' \in SUBSET Note, views' \in [Talkers -> SUBSET Nat], ViewsShown'
  PROVE  TalkInv'
<1> USE DEF TalkInv
<1>1. TalkTypes'
  BY DEF TalkTypes, ParentOf
<1>2. WritingInOrder'
  BY WritingStays
<1>3. ExchangesEnd'
  BY ExchangesStay
<1>4. RoomLeft'
  <2>1. OfTalkers' \in SUBSET OfTalkers
    BY DEF OfTalkers, There, AuthorOf
  <2>2. IsFiniteSet({v \in Writers : tongue'[v].pc # "idle"})
    BY DEF RoomLeft
  <2> QED  BY <2>1, <2>2, RoomStays
<1> QED  BY <1>1, <1>2, <1>3, <1>4

\* Notifications that were shown or read are the same ones.
LEMMA NotesMarked ==
  ASSUME TalkTypes
  PROVE  \A n \in notes :
           /\ [n EXCEPT !.shown = TRUE] \in Note
           /\ [n EXCEPT !.shown = TRUE].to = n.to /\ [n EXCEPT !.shown = TRUE].about = n.about
           /\ [n EXCEPT !.shown = TRUE].shown
           /\ [n EXCEPT !.read = TRUE] \in Note
           /\ [n EXCEPT !.read = TRUE].to = n.to /\ [n EXCEPT !.read = TRUE].about = n.about
           /\ [n EXCEPT !.read = TRUE].shown = n.shown
           /\ [n EXCEPT !.shown = TRUE].at = n.at /\ [n EXCEPT !.read = TRUE].at = n.at
<1> SUFFICES ASSUME NEW n \in notes
             PROVE  /\ [n EXCEPT !.shown = TRUE] \in Note
                    /\ [n EXCEPT !.shown = TRUE].to = n.to /\ [n EXCEPT !.shown = TRUE].about = n.about
                    /\ [n EXCEPT !.shown = TRUE].shown
                    /\ [n EXCEPT !.read = TRUE] \in Note
                    /\ [n EXCEPT !.read = TRUE].to = n.to /\ [n EXCEPT !.read = TRUE].about = n.about
                    /\ [n EXCEPT !.read = TRUE].shown = n.shown
                    /\ [n EXCEPT !.shown = TRUE].at = n.at /\ [n EXCEPT !.read = TRUE].at = n.at
  OBVIOUS
<1>1. n \in Note
  BY DEF TalkTypes
<1> QED  BY <1>1 DEF Note

LEMMA ViewInboxKeeps ==
  ASSUME TalkInv, NEW u \in Talkers, ViewInbox(u)
  PROVE  TalkInv'
<1> USE DEF TalkInv
<1>a. PICK page : page = Newest(Unread(u))
  OBVIOUS
<1>0. /\ views' = [views EXCEPT ![u] = page]
      /\ notes' = {IF n.to = u /\ n.about \in page THEN [n EXCEPT !.shown = TRUE] ELSE n : n \in notes}
      /\ said' = said /\ gone' = gone /\ exchange' = exchange /\ tongue' = tongue
      /\ fate' = fate /\ hour' = hour
  BY <1>a DEF ViewInbox
<1>1. \A c \in page : \E n \in notes : n.about = c
  BY <1>a DEF Newest, Unread, InboxOf
<1>2. \A n \in notes : n \in Note /\ n.about \in 1..Len(said) /\ fate[n.about].told = "invited"
  BY DEF TalkTypes, ViewsShown
<1>3. page \in SUBSET Nat /\ \A c \in page : c \in 1..Len(said) /\ fate[c].told = "invited"
  <2>1. \A c \in page : c \in 1..Len(said) /\ fate[c].told = "invited"
    BY <1>1, <1>2
  <2> QED  BY <2>1
<1>4. /\ views' \in [Talkers -> SUBSET Nat] /\ views'[u] = page
      /\ \A v \in Talkers \ {u} : views'[v] = views[v]
  BY <1>0, <1>3 DEF TalkTypes
<1>5. \A m \in notes' : \E n \in notes :
        /\ m.to = n.to /\ m.about = n.about /\ m \in Note
        /\ m = n \/ m.shown
        /\ n.to = u /\ n.about \in page => m.shown
  <2> SUFFICES ASSUME NEW m \in notes'
               PROVE  \E n \in notes :
                        /\ m.to = n.to /\ m.about = n.about /\ m \in Note
                        /\ m = n \/ m.shown
                        /\ n.to = u /\ n.about \in page => m.shown
    OBVIOUS
  <2>1. PICK n \in notes : m = IF n.to = u /\ n.about \in page THEN [n EXCEPT !.shown = TRUE] ELSE n
    BY <1>0
  <2> QED  BY <2>1, <1>2, NotesMarked
<1>6. ViewsShown'
  <2>1. \A m \in notes' : m.about \in 1..Len(said) /\ fate[m.about].told = "invited"
    BY <1>2, <1>5
  <2>2. \A v \in Talkers : \A c \in views'[v] : c \in 1..Len(said) /\ fate[c].told = "invited"
    BY <1>3, <1>4 DEF ViewsShown
  <2>3. \A m \in notes' : m.to \in Talkers /\ m.about \in views'[m.to] => m.shown
    <3> SUFFICES ASSUME NEW m \in notes', m.to \in Talkers, m.about \in views'[m.to]
                 PROVE  m.shown
      OBVIOUS
    <3>1. CASE m.to = u
      BY <3>1, <1>4, <1>5
    <3>2. CASE m.to # u
      BY <3>2, <1>4, <1>5 DEF ViewsShown
    <3> QED  BY <3>1, <3>2
  <2>4. \A m \in notes' : m.to \in Talkers /\ m.read => m.shown
    BY <1>5 DEF ViewsShown, UnseenStaysUnread
  <2> QED  BY <2>1, <2>2, <2>3, <2>4, <1>0 DEF ViewsShown, UnseenStaysUnread
<1>7. notes' \in SUBSET Note /\ There' \in SUBSET There /\ exchange \in Nat /\ hour \in Nat
  BY <1>0, <1>5 DEF There, TalkTypes
<1> QED  BY <1>0, <1>4, <1>6, <1>7, InboxesKeep

\* Marking a persona's notifications takes those that were shown; humans mark theirs.
LEMMA MarkingKeeps ==
  ASSUME TalkInv, NEW u, NEW ids, MarkRead(u, ids), u \in Talkers => ids \in SUBSET views[u],
         said' = said, gone' = gone, exchange' = exchange, tongue' = tongue,
         fate' = fate, hour' = hour,
         views' \in [Talkers -> SUBSET Nat], \A v \in Talkers : views'[v] \in SUBSET views[v]
  PROVE  TalkInv'
<1> USE DEF TalkInv
<1>1. \A n \in notes : n \in Note /\ n.about \in 1..Len(said) /\ fate[n.about].told = "invited"
  BY DEF TalkTypes, ViewsShown
<1>2. \A m \in notes' : \E n \in notes :
        /\ m.to = n.to /\ m.about = n.about /\ m.shown = n.shown /\ m \in Note
        /\ m = n \/ (n.to = u /\ n.about \in ids)
  <2> SUFFICES ASSUME NEW m \in notes'
               PROVE  \E n \in notes :
                        /\ m.to = n.to /\ m.about = n.about /\ m.shown = n.shown /\ m \in Note
                        /\ m = n \/ (n.to = u /\ n.about \in ids)
    OBVIOUS
  <2>1. PICK n \in notes : m = IF n.to = u /\ n.about \in ids THEN [n EXCEPT !.read = TRUE] ELSE n
    BY DEF MarkRead
  <2> QED  BY <2>1, <1>1, NotesMarked
<1>3. ViewsShown'
  <2>1. \A m \in notes' : m.about \in 1..Len(said) /\ fate[m.about].told = "invited"
    BY <1>1, <1>2
  <2>2. \A v \in Talkers : \A c \in views'[v] : c \in 1..Len(said) /\ fate[c].told = "invited"
    BY DEF ViewsShown
  <2>3. \A m \in notes' : m.to \in Talkers /\ m.about \in views'[m.to] => m.shown
    BY <1>2 DEF ViewsShown
  <2>4. \A m \in notes' : m.to \in Talkers /\ m.read => m.shown
    <3> SUFFICES ASSUME NEW m \in notes', m.to \in Talkers, m.read
                 PROVE  m.shown
      OBVIOUS
    <3>1. PICK n \in notes : /\ m.to = n.to /\ m.about = n.about /\ m.shown = n.shown
                             /\ m = n \/ (n.to = u /\ n.about \in ids)
      BY <1>2
    <3>2. CASE m = n
      BY <3>2 DEF ViewsShown, UnseenStaysUnread
    <3>3. CASE n.to = u /\ n.about \in ids
      <4>1. n.to \in Talkers /\ n.about \in views[n.to]
        BY <3>1, <3>3
      <4>2. n.shown
        BY <4>1 DEF ViewsShown
      <4> QED  BY <4>2, <3>1
    <3> QED  BY <3>1, <3>2, <3>3
  <2> QED  BY <2>1, <2>2, <2>3, <2>4 DEF ViewsShown, UnseenStaysUnread
<1>4. notes' \in SUBSET Note /\ There' \in SUBSET There /\ exchange \in Nat /\ hour \in Nat
  BY <1>2 DEF There, TalkTypes
<1> QED  BY <1>3, <1>4, InboxesKeep

\* Fewer notifications, fewer in view.
LEMMA FewerNotesKeep ==
  ASSUME TalkInv, said' = said, fate' = fate, tongue' = tongue,
         exchange' \in Nat, exchange <= exchange', hour' \in Nat, There' \in SUBSET There,
         notes' \in SUBSET notes,
         views' \in [Talkers -> SUBSET Nat], \A v \in Talkers : views'[v] \in SUBSET views[v]
  PROVE  TalkInv'
<1> USE DEF TalkInv
<1>1. notes' \in SUBSET Note
  BY DEF TalkTypes
<1>2. ViewsShown'
  <2>1. \A n \in notes' : n.about \in 1..Len(said) /\ fate[n.about].told = "invited"
    BY DEF ViewsShown
  <2>2. \A v \in Talkers : \A c \in views'[v] : c \in 1..Len(said) /\ fate[c].told = "invited"
    BY DEF ViewsShown
  <2>3. \A n \in notes' : n.to \in Talkers /\ n.about \in views'[n.to] => n.shown
    BY DEF ViewsShown
  <2>4. \A n \in notes' : n.to \in Talkers /\ n.read => n.shown
    BY DEF ViewsShown, UnseenStaysUnread
  <2> QED  BY <2>1, <2>2, <2>3, <2>4 DEF ViewsShown, UnseenStaysUnread
<1> QED  BY <1>1, <1>2, InboxesKeep

LEMMA TalkInvStep == TalkInv /\ [TalkNext]_talkVars => TalkInv'
<1> SUFFICES ASSUME TalkInv, [TalkNext]_talkVars PROVE TalkInv'
  OBVIOUS
<1>0. /\ TalkTypes /\ exchange \in Nat /\ hour \in Nat
      /\ views \in [Talkers -> SUBSET Nat] /\ notes \in SUBSET notes
  BY DEF TalkInv, TalkTypes
<1>1. ASSUME NEW u \in Talkers, NEW c \in 0..MaxComments, AgentChecks(u, c) PROVE TalkInv'
  <2>1. c \in Nat /\ u \in Writers
    BY <1>0, <1>1, SaidIs DEF AgentChecks, Starts, There, Writers
  <2> QED  BY <1>1, <2>1, StartsKeeps DEF AgentChecks
<1>2. ASSUME NEW u \in Humans, NEW c \in 0..MaxComments, HumanComments(u, c) PROVE TalkInv'
  <2>1. c \in Nat /\ u \in Writers /\ u \notin Talkers
    BY <1>0, <1>2, SaidIs, TalkAssumed DEF HumanComments, Starts, There, Writers
  <2> QED  BY <1>2, <2>1, StartsKeeps DEF HumanComments
<1>3. ASSUME NEW u \in Writers, Write(u) \/ GivesUp(u) \/ Notify(u) PROVE TalkInv'
  BY <1>3, WriteKeeps, GivesUpKeeps, NotifyKeeps
<1>4. ASSUME NEW u \in Talkers, ViewInbox(u) PROVE TalkInv'
  BY <1>4, ViewInboxKeeps
<1>5. ASSUME NEW u \in Talkers, MarkViewed(u) PROVE TalkInv'
  <2>1. /\ MarkRead(u, views[u]) /\ views' = [views EXCEPT ![u] = {}]
        /\ said' = said /\ gone' = gone /\ exchange' = exchange /\ tongue' = tongue
        /\ fate' = fate /\ hour' = hour
    BY <1>5 DEF MarkViewed, Marked
  <2>2. views' \in [Talkers -> SUBSET Nat] /\ \A v \in Talkers : views'[v] \in SUBSET views[v]
    BY <2>1, <1>0
  <2> QED  BY <2>1, <2>2, MarkingKeeps
<1>6. ASSUME NEW u \in Talkers, VisitEnds(u) PROVE TalkInv'
  <2>1. /\ views' = [views EXCEPT ![u] = {}] /\ notes' = notes
        /\ said' = said /\ gone' = gone /\ exchange' = exchange /\ tongue' = tongue
        /\ fate' = fate /\ hour' = hour
    BY <1>6 DEF VisitEnds
  <2>2. views' \in [Talkers -> SUBSET Nat] /\ \A v \in Talkers : views'[v] \in SUBSET views[v]
    BY <2>1, <1>0
  <2>3. There' \in SUBSET There /\ exchange <= exchange'
    BY <2>1, <1>0 DEF There
  <2> QED  BY <2>1, <2>2, <2>3, <1>0, FewerNotesKeep
<1>7. ASSUME NEW u \in Humans, NEW ids, HumanMarks(u, ids) PROVE TalkInv'
  <2>1. u \notin Talkers /\ \A v \in Talkers : views[v] \in SUBSET views[v]
    BY <1>7, TalkAssumed
  <2> QED  BY <1>7, <2>1, <1>0, MarkingKeeps DEF HumanMarks
<1>8. ASSUME \/ Purge \/ HourPasses \/ UNCHANGED talkVars
             \/ \E c \in 1..MaxComments : RemoveComment(c)
             \/ \E n \in ExchangeCaps : SetExchange(n)
      PROVE  TalkInv'
  <2>1. /\ said' = said /\ fate' = fate /\ tongue' = tongue /\ views' = views
    BY <1>8 DEF Purge, HourPasses, talkVars, RemoveComment, SetExchange
  <2>2. notes' \in SUBSET notes /\ gone \in SUBSET gone'
    BY <1>8 DEF Purge, HourPasses, talkVars, RemoveComment, SetExchange
  <2>3. There' \in SUBSET There
    BY <2>1, <2>2 DEF There
  <2>4. hour' \in Nat
    BY <1>8, <1>0 DEF Purge, HourPasses, talkVars, RemoveComment, SetExchange
  <2>5. exchange' \in Nat /\ exchange <= exchange'
    BY <1>8, <1>0, TalkAssumed DEF Purge, HourPasses, talkVars, RemoveComment, SetExchange
  <2>6. \A v \in Talkers : views'[v] \in SUBSET views[v]
    BY <2>1
  <2> QED  BY <2>1, <2>2, <2>3, <2>4, <2>5, <2>6, <1>0, FewerNotesKeep
<1> QED  BY <1>1, <1>2, <1>3, <1>4, <1>5, <1>6, <1>7, <1>8 DEF TalkNext

LEMMA InvKeepsConversations == TalkInv => ConversationsSound
<1> SUFFICES ASSUME TalkInv PROVE ConversationsSound
  OBVIOUS
<1> USE DEF TalkInv
<1>1. \A c \in There : c \in 1..Len(said) /\ ExchangeEnds(c, fate[c], exchange)
  BY SaidIs DEF There, ExchangesEnd
<1>2. SidesAgree
  BY <1>1 DEF SidesAgree, ExchangeEnds
<1>3. ConversationsEnd
  <2>1. \A c \in There : AuthorOf(c) \in Talkers /\ ParentOf(c) # 0 /\ AuthorOf(ParentOf(c)) # AuthorOf(c) =>
          ExchangeTail(ParentOf(c), AuthorOf(c)) <= exchange
    BY <1>1 DEF ExchangeEnds
  <2>2. Cardinality(OfTalkers) < CommentCap + MaxWriting
    BY RoomIs, TalkAssumed
  <2> QED  BY <2>1, <2>2 DEF ConversationsEnd, OfTalkers
<1> QED  BY <1>2, <1>3 DEF ConversationsSound, ViewsShown

\* threads.py:19-22, inbox.py: both sides of fatigue agree, exchanges and threads
\* end at their caps, and a persona's notification is read only once shown.
THEOREM ConversationsStaySound == TalkSpec => []ConversationsSound
<1>1. TalkInv => ConversationsSound
  BY InvKeepsConversations
<1> QED  BY <1>1, TalkInvInit, TalkInvStep, PTL DEF TalkSpec

-----------------------------------------------------------------------------
(* Conversations: threads stay whole *)

ThreadWhole ==
  /\ gone \subseteq 1..Len(said)
  /\ \A c \in There : ParentOf(c) \in There \cup {0}
  /\ \A n \in notes : n.about \in There /\ n.at \in 0..hour

\* g says which of the first k comments are c or below it.
Falls(g, s, c, k) ==
  g = [d \in 1..k |-> d = c \/ (s[d][2] # 0 /\ g[s[d][2]])]

LEMMA FallsExist ==
  ASSUME NEW s, Threads(s), NEW c, NEW k \in 0..Len(s)
  PROVE  \E g : Falls(g, s, c, k)
<1> DEFINE Bad == {m \in 0..Len(s) : ~ \E g : Falls(g, s, c, m)}
<1>0. Len(s) \in Nat /\ \A n \in 1..Len(s) : s[n][2] \in Nat /\ s[n][2] < n
  BY DEF Threads
<1> SUFFICES ASSUME Bad # {} PROVE FALSE
  OBVIOUS
<1>1. PICK m \in Bad : \A i \in Bad : m <= i
  <2>1. Bad \in SUBSET Nat
    BY <1>0
  <2> HIDE DEF Bad
  <2> QED  BY <2>1, LeastNat
<1>2. CASE m = 0
  <2> DEFINE g == [d \in 1..0 |-> FALSE]
  <2>1. Falls(g, s, c, 0)
    <3>1. 1..0 = {}
      OBVIOUS
    <3> QED  BY <3>1 DEF Falls
  <2> QED  BY <2>1, <1>2
<1>3. CASE m # 0
  <2>1. m \in 1..Len(s) /\ m - 1 \in 0..Len(s) /\ m - 1 \notin Bad
    BY <1>0, <1>1, <1>3
  <2>2. PICK h : Falls(h, s, c, m - 1)
    BY <2>1
  <2> DEFINE g == [d \in 1..m |-> IF d = m THEN m = c \/ (s[m][2] # 0 /\ h[s[m][2]]) ELSE h[d]]
  <2>3. \A d \in 1..(m - 1) : h[d] = (d = c \/ (s[d][2] # 0 /\ h[s[d][2]]))
    BY <2>2 DEF Falls
  <2>4. \A d \in 1..m : s[d][2] # 0 => s[d][2] \in 1..(m - 1) /\ g[s[d][2]] = h[s[d][2]]
    BY <1>0, <2>1
  <2>5. \A d \in 1..m : g[d] = (d = c \/ (s[d][2] # 0 /\ g[s[d][2]]))
    <3> SUFFICES ASSUME NEW d \in 1..m
                 PROVE  g[d] = (d = c \/ (s[d][2] # 0 /\ g[s[d][2]]))
      OBVIOUS
    <3>1. CASE d = m
      <4>1. g[m] = (m = c \/ (s[m][2] # 0 /\ h[s[m][2]]))
        BY <2>1
      <4>2. s[m][2] # 0 => g[s[m][2]] = h[s[m][2]]
        BY <2>1, <2>4
      <4> HIDE DEF g
      <4> QED  BY <3>1, <4>1, <4>2
    <3>2. CASE d # m
      <4>1. d \in 1..(m - 1) /\ g[d] = h[d]
        BY <3>2, <2>1
      <4> HIDE DEF g
      <4> QED  BY <4>1, <2>3, <2>4
    <3> QED  BY <3>1, <3>2
  <2>6. Falls(g, s, c, m)
    <3>1. g = [d \in 1..m |-> g[d]]
      OBVIOUS
    <3> HIDE DEF g
    <3> QED  BY <3>1, <2>5 DEF Falls
  <2> HIDE DEF g
  <2> QED  BY <2>6, <1>1
<1> QED  BY <1>2, <1>3

\* A delete takes whole branches.
LEMMA RemoveTakesBranches ==
  ASSUME TalkTypes, NEW c, RemoveComment(c)
  PROVE  \E under \in SUBSET There :
           /\ gone' = gone \cup under /\ notes' = {n \in notes : n.about \notin under}
           /\ \A d \in There : d \notin under /\ ParentOf(d) # 0 => ParentOf(d) \notin under
<1> DEFINE below == CHOOSE f : f = [d \in DOMAIN said |-> d = c \/ (ParentOf(d) # 0 /\ f[ParentOf(d)])]
           under == {d \in There : below[d]}
<1>1. Threads(said) /\ Len(said) \in 0..Len(said) /\ DOMAIN said = 1..Len(said)
  BY SaidIs
<1>2. PICK g : Falls(g, said, c, Len(said))
  BY <1>1, FallsExist
<1>3. below = [d \in DOMAIN said |-> d = c \/ (ParentOf(d) # 0 /\ below[ParentOf(d)])]
  <2>1. g = [d \in DOMAIN said |-> d = c \/ (ParentOf(d) # 0 /\ g[ParentOf(d)])]
    BY <1>1, <1>2 DEF Falls, ParentOf
  <2> QED  BY <2>1
<1>4. gone' = gone \cup under /\ notes' = {n \in notes : n.about \notin under}
  BY DEF RemoveComment
<1> HIDE DEF below
<1>5. \A d \in There : d \notin under /\ ParentOf(d) # 0 => ParentOf(d) \notin under
  <2>1. \A d \in DOMAIN said : below[d] = (d = c \/ (ParentOf(d) # 0 /\ below[ParentOf(d)]))
    BY <1>3
  <2> QED  BY <2>1 DEF There
<1> QED  BY <1>4, <1>5

LEMMA WholeInit == TalkInit => ThreadWhole
<1> SUFFICES ASSUME TalkInit PROVE ThreadWhole
  OBVIOUS
<1>1. said = <<>> /\ gone = {} /\ notes = {} /\ DOMAIN said = {}
  BY DEF TalkInit
<1> QED  BY <1>1 DEF ThreadWhole, There

LEMMA WholeStep == TalkInv /\ TalkInv' /\ ThreadWhole /\ [TalkNext]_talkVars => ThreadWhole'
<1> SUFFICES ASSUME TalkInv, TalkInv', ThreadWhole, [TalkNext]_talkVars PROVE ThreadWhole'
  OBVIOUS
<1>0. /\ TalkTypes /\ TalkTypes' /\ hour \in Nat /\ Len(said) \in Nat
      /\ DOMAIN said = 1..Len(said) /\ DOMAIN said' = 1..Len(said')
  BY SaidIs DEF TalkInv, TalkTypes
<1>1. ASSUME NEW u \in Writers, Write(u) PROVE ThreadWhole'
  <2>a. PICK to, new : to = tongue[u].to /\ new = Len(said) + 1
    OBVIOUS
  <2>1. /\ to \in There \cup {0} /\ said' = Append(said, <<u, to>>)
        /\ gone' = gone /\ notes' = notes /\ hour' = hour
    BY <1>1, <2>a DEF Write
  <2>2. said \in Seq(Writers \X Nat) /\ to \in Nat
    BY <2>1, <1>0 DEF TalkTypes, There
  <2>3. /\ Len(said') = new /\ said'[new] = <<u, to>> /\ \A n \in 1..Len(said) : said'[n] = said[n]
        /\ 1..Len(said') = (1..Len(said)) \cup {new}
    BY <2>1, <2>2, <2>a, <1>0
  <2>4. There' = There \cup {new}
    BY <2>1, <2>3, <2>a, <1>0 DEF There, ThreadWhole
  <2>5. ParentOf(new)' = to /\ \A n \in There : ParentOf(n)' = ParentOf(n)
    BY <2>3, <1>0 DEF ParentOf, There
  <2>6. \A d \in There' : ParentOf(d)' \in There' \cup {0}
    BY <2>1, <2>4, <2>5 DEF ThreadWhole
  <2>7. gone' \subseteq 1..Len(said')
    BY <2>1, <2>3 DEF ThreadWhole
  <2> QED  BY <2>1, <2>4, <2>6, <2>7 DEF ThreadWhole
<1>2. ASSUME said' = said, gone' = gone, hour' \in Nat, hour <= hour',
             \A m \in notes' : /\ m.about \in There
                               /\ m.at \in 0..hour
      PROVE  ThreadWhole'
  <2>1. There' = There /\ \A d : ParentOf(d)' = ParentOf(d)
    BY <1>2 DEF There, ParentOf
  <2>2. \A m \in notes' : m.at \in 0..hour'
    BY <1>2, <1>0
  <2> QED  BY <2>1, <2>2, <1>2 DEF ThreadWhole
<1>3. ASSUME NEW u \in Writers, Notify(u) PROVE ThreadWhole'
  <2>1. /\ said' = said /\ gone' = gone /\ hour' = hour /\ tongue[u].to \in There
        /\ \A m \in notes' : m \in notes \/ (m.about = tongue[u].to /\ m.at = hour)
    BY <1>3 DEF Notify
  <2> QED  BY <2>1, <1>0, <1>2 DEF ThreadWhole
<1>4. ASSUME said' = said, gone' = gone, hour' = hour,
             \A m \in notes' : \E n \in notes : m.about = n.about /\ m.at = n.at
      PROVE  ThreadWhole'
  BY <1>4, <1>0, <1>2 DEF ThreadWhole
<1>5. ASSUME NEW u, ViewInbox(u) PROVE ThreadWhole'
  <2>1. \A m \in notes' : \E n \in notes : m \in {n, [n EXCEPT !.shown = TRUE]}
    BY <1>5 DEF ViewInbox
  <2>2. \A n \in notes : /\ [n EXCEPT !.shown = TRUE].about = n.about
                         /\ [n EXCEPT !.shown = TRUE].at = n.at
    BY <1>0, NotesMarked
  <2>3. \A m \in notes' : \E n \in notes : m.about = n.about /\ m.at = n.at
    BY ONLY <2>1, <2>2
  <2> QED  BY <2>3, <1>4, <1>5 DEF ViewInbox
<1>6. ASSUME NEW u, NEW ids, MarkRead(u, ids), said' = said, gone' = gone, hour' = hour
      PROVE  ThreadWhole'
  <2>1. \A m \in notes' : \E n \in notes : m \in {n, [n EXCEPT !.read = TRUE]}
    BY <1>6 DEF MarkRead
  <2>2. \A n \in notes : /\ [n EXCEPT !.read = TRUE].about = n.about
                         /\ [n EXCEPT !.read = TRUE].at = n.at
    BY <1>0, NotesMarked
  <2>3. \A m \in notes' : \E n \in notes : m.about = n.about /\ m.at = n.at
    BY ONLY <2>1, <2>2
  <2> QED  BY <2>3, <1>4, <1>6
<1>7. ASSUME NEW c, RemoveComment(c) PROVE ThreadWhole'
  <2>1. PICK under \in SUBSET There :
          /\ gone' = gone \cup under /\ notes' = {n \in notes : n.about \notin under}
          /\ \A d \in There : d \notin under /\ ParentOf(d) # 0 => ParentOf(d) \notin under
    BY <1>0, <1>7, RemoveTakesBranches
  <2>2. said' = said /\ hour' = hour
    BY <1>7 DEF RemoveComment
  <2>3. There' = There \ under /\ \A d : ParentOf(d)' = ParentOf(d)
    BY <2>1, <2>2 DEF There, ParentOf
  <2>4. gone' \subseteq 1..Len(said')
    BY <2>1, <2>2, <1>0 DEF ThreadWhole, There
  <2> QED  BY <2>1, <2>2, <2>3, <2>4 DEF ThreadWhole
<1>8. ASSUME notes' \in SUBSET notes, said' = said, gone' = gone, hour' \in Nat, hour <= hour'
      PROVE  ThreadWhole'
  BY <1>8, <1>2 DEF ThreadWhole
<1>9. CASE UNCHANGED talkVars
  BY <1>9, <1>0, <1>8 DEF talkVars
<1>10. CASE TalkNext
  <2>1. ASSUME NEW u \in Talkers, NEW c \in 0..MaxComments, AgentChecks(u, c) PROVE ThreadWhole'
    BY <2>1, <1>0, <1>8 DEF AgentChecks, Starts
  <2>2. ASSUME NEW u \in Humans, NEW c \in 0..MaxComments, HumanComments(u, c) PROVE ThreadWhole'
    BY <2>2, <1>0, <1>8 DEF HumanComments, Starts
  <2>3. ASSUME NEW u \in Writers, GivesUp(u) PROVE ThreadWhole'
    BY <2>3, <1>0, <1>8 DEF GivesUp
  <2>4. ASSUME NEW u \in Talkers, MarkViewed(u) PROVE ThreadWhole'
    BY <2>4, <1>6 DEF MarkViewed
  <2>5. ASSUME NEW u \in Talkers, VisitEnds(u) PROVE ThreadWhole'
    BY <2>5, <1>0, <1>8 DEF VisitEnds
  <2>6. ASSUME NEW u \in Humans, NEW ids, HumanMarks(u, ids) PROVE ThreadWhole'
    BY <2>6, <1>6 DEF HumanMarks
  <2>7. CASE Purge
    BY <2>7, <1>0, <1>8 DEF Purge
  <2>8. ASSUME NEW n \in ExchangeCaps, SetExchange(n) PROVE ThreadWhole'
    BY <2>8, <1>0, <1>8 DEF SetExchange
  <2>9. CASE HourPasses
    BY <2>9, <1>0, <1>8 DEF HourPasses
  <2> QED
    BY <1>10, <2>1, <2>2, <2>3, <2>4, <2>5, <2>6, <2>7, <2>8, <2>9, <1>1, <1>3, <1>5, <1>7
    DEF TalkNext
<1> QED  BY <1>9, <1>10

\* services/content.py, models.py: replies and notifications never outlive what they
\* are about, whatever is deleted between a check, a commit and a notification.
THEOREM ConversationTypes == TalkSpec => []TalkTypeOK
<1>1. TalkInv /\ ThreadWhole => TalkTypeOK
  <2> SUFFICES ASSUME TalkInv, ThreadWhole PROVE TalkTypeOK
    OBVIOUS
  <2>1. TalkTypes
    BY DEF TalkInv
  <2>2. \A c \in 1..Len(said) : AuthorOf(c) \in Writers /\ ParentOf(c) \in 0..(c - 1)
    <3>1. \A c \in 1..Len(said) : c \in Nat /\ ParentOf(c) \in Nat /\ ParentOf(c) < c
      BY <2>1, SaidIs
    <3> QED  BY <3>1, <2>1, SaidIs
  <2> QED  BY <2>1, <2>2, SaidIs DEF TalkTypeOK, ThreadWhole, Writers, TalkTypes
<1>2. TalkInit => TalkInv /\ ThreadWhole
  BY TalkInvInit, WholeInit
<1>3. (TalkInv /\ ThreadWhole) /\ [TalkNext]_talkVars => (TalkInv /\ ThreadWhole)'
  BY TalkInvStep, WholeStep
<1> QED  BY <1>1, <1>2, <1>3, PTL DEF TalkSpec

-----------------------------------------------------------------------------
(* The types of the other parts *)

\* Nothing is dated before the item it is about, nobody has two votes on an item, and a
\* booked vote has room within the tick's limit.
DatesOrdered ==
  /\ clock \in 1..MaxClock /\ mode \in {"off", "shadow", "live"}
  /\ born \in [Content -> -1..clock]
  /\ \A r \in rows : born[r.item] <= r.at
  /\ \A r, s \in rows : r.voter = s.voter /\ r.item = s.item => r = s
  /\ tick.used \in 0..GlobalLimit
  /\ tick.pc = "cast" => tick.used < GlobalLimit

LEMMA LimitsAreNat ==
  GlobalLimit \in Nat /\ MaxClock \in Nat /\ MaxClock >= 1
BY SimulatedAssumption

LEMMA DatesStart == SimInit => DatesOrdered
BY LimitsAreNat DEF SimInit, DatesOrdered, Idle

\* A vote that is added is of now, on an item that is there, by somebody without one.
LEMMA VoteAdded ==
  ASSUME RowsKept, DatesOrdered, UNCHANGED <<clock, mode, born>>,
         NEW v, NEW i \in Content, NEW s, v \notin VotersOn(i),
         rows' = rows \cup {[voter |-> v, item |-> i, source |-> s, at |-> clock]},
         tick'.used \in 0..GlobalLimit, tick'.pc = "cast" => tick'.used < GlobalLimit
  PROVE  DatesOrdered'
<1> DEFINE new == [voter |-> v, item |-> i, source |-> s, at |-> clock]
<1>1. new.voter = v /\ new.item = i /\ new.at = clock
  OBVIOUS
<1> HIDE DEF new
<1>2. rows' = rows \cup {new}
  BY DEF new
<1>3. \A r \in rows : ~ (r.voter = new.voter /\ r.item = new.item)
  BY <1>1 DEF VotersOn
<1>4. \A r \in rows' : born'[r.item] <= r.at
  <2>1. born[i] <= clock
    BY DEF DatesOrdered
  <2> QED  BY <1>1, <1>2, <2>1 DEF DatesOrdered
<1>5. \A r, q \in rows' : r.voter = q.voter /\ r.item = q.item => r = q
  BY <1>2, <1>3 DEF DatesOrdered
<1> QED  BY <1>4, <1>5 DEF DatesOrdered

\* Fewer votes, or none but the same.
LEMMA VotesStay ==
  ASSUME DatesOrdered, UNCHANGED <<clock, mode, born>>, rows' \in SUBSET rows,
         tick'.used \in 0..GlobalLimit, tick'.pc = "cast" => tick'.used < GlobalLimit
  PROVE  DatesOrdered'
BY DEF DatesOrdered

\* A booked vote is not used yet, whatever else the record of the tick changes.
LEMMA BookedUse ==
  ASSUME tick \in Ticks
  PROVE  \A v, i : /\ Booked(v, i).used = tick.used
                   /\ [Booked(v, i) EXCEPT !.queue = @ \ {i}].used = tick.used
                   /\ [Booked(v, i) EXCEPT !.due = @ - 1, !.selected = @ \cup {v}].used = tick.used
BY DEF Booked, Ticks

LEMMA DatesTick ==
  ASSUME SimInv, DatesOrdered, TickStep
  PROVE  DatesOrdered'
<1>1. /\ RowsKept /\ tick \in Ticks /\ tick.used \in Nat /\ tick.used <= GlobalLimit
      /\ tick.pc = "cast" => tick.used < GlobalLimit
  BY LimitsAreNat DEF SimInv, TickShape, DatesOrdered
<1>2. 0 \in 0..GlobalLimit
  BY LimitsAreNat
<1>3. CASE BeginTick \/ RecordSummary \/ TickFails \/ TailDone
  <2>1. UNCHANGED <<clock, mode, born, rows>>
    BY <1>3 DEF BeginTick, RecordSummary, TickFails, TailDone, world
  <2>2. Idle.used = 0 /\ Idle.pc = "idle"
    BY DEF Idle
  <2>3. CASE BeginTick
    <3>1. tick'.used = Idle.used /\ tick'.pc = "targets"
      BY <2>3 DEF BeginTick, Idle
    <3> QED  BY <1>2, <2>1, <2>2, <3>1, VotesStay
  <2>4. CASE TailDone
    <3>1. tick'.used = 0 /\ tick'.pc = "summary"
      BY <2>4 DEF TailDone, Ended, Idle
    <3> QED  BY <1>2, <2>1, <3>1, VotesStay
  <2>5. CASE RecordSummary \/ TickFails
    <3>1. tick' = Idle
      BY <2>5 DEF RecordSummary, TickFails
    <3> QED  BY <1>2, <2>1, <2>2, <3>1, VotesStay
  <2> QED  BY <1>3, <2>3, <2>4, <2>5
<1>4. CASE ReadTargets \/ Examine \/ TargetDone \/ ReadArchive \/ ReadRevival
  <2>1. UNCHANGED <<clock, mode, born, rows>>
    BY <1>4 DEF ReadTargets, Examine, TargetDone, ReadArchive, ReadRevival, world
  <2>2. CASE ReadTargets \/ TargetDone
    <3>1. tick'.used = tick.used /\ tick'.pc # "cast"
      BY <1>1, <2>2 DEF ReadTargets, TargetDone, Ticks
    <3> QED  BY <1>1, <2>1, <3>1, VotesStay DEF DatesOrdered
  <2>3. CASE Examine
    <3>1. tick'.used = tick.used /\ tick'.pc # "cast"
      BY <1>1, <2>3 DEF Examine, Ticks
    <3> QED  BY <1>1, <2>1, <3>1, VotesStay DEF DatesOrdered
  <2>4. CASE ReadArchive
    <3>1. tick'.used = tick.used /\ tick'.pc # "cast"
      BY <1>1, <2>4 DEF ReadArchive, Ticks
    <3> QED  BY <1>1, <2>1, <3>1, VotesStay DEF DatesOrdered
  <2>5. CASE ReadRevival
    <3>1. tick'.used = tick.used /\ tick'.pc # "cast"
      BY <1>1, <2>5 DEF ReadRevival, Ticks
    <3> QED  BY <1>1, <2>1, <3>1, VotesStay DEF DatesOrdered
  <2> QED  BY <1>4, <2>2, <2>3, <2>4, <2>5
<1>5. CASE ActiveDone
  <2>1. UNCHANGED <<clock, mode, born, rows>>
    BY <1>5 DEF ActiveDone, world
  <2>2. tick'.used \in {0, tick.used} /\ tick'.pc # "cast"
    BY <1>1, <1>5 DEF ActiveDone, Ended, Idle, Ticks
  <2> QED  BY <1>2, <2>1, <2>2, VotesStay DEF DatesOrdered
<1>6. CASE SelectVoter
  <2>1. UNCHANGED <<clock, mode, born, rows>> /\ tick.used < GlobalLimit
    BY <1>6 DEF SelectVoter, MoreOrdinals, world
  <2>2. PICK v : tick' = [Booked(v, tick.item) EXCEPT !.due = @ - 1, !.selected = @ \cup {v}]
    BY <1>6 DEF SelectVoter
  <2>3. tick'.used = tick.used
    BY ONLY <1>1, <2>2, BookedUse
  <2> QED  BY <2>1, <2>3, VotesStay DEF DatesOrdered
<1>7. CASE Expose
  <2>1. UNCHANGED <<clock, mode, born, rows>>
    BY <1>7 DEF Expose, world
  <2>2. PICK i \in tick.queue :
          \/ tick' = [tick EXCEPT !.queue = @ \ {i}]
          \/ /\ Exposable(i)
             /\ \E v : tick' = [Booked(v, i) EXCEPT !.queue = @ \ {i}]
    BY <1>7 DEF Expose
  <2>3. tick.pc = "exposures"
    BY <1>7 DEF Expose
  <2>4. CASE tick' = [tick EXCEPT !.queue = @ \ {i}]
    <3>1. tick'.used = tick.used /\ tick'.pc = tick.pc
      BY ONLY <1>1, <2>4 DEF Ticks
    <3> QED  BY <2>1, <2>3, <3>1, VotesStay DEF DatesOrdered
  <2>5. CASE Exposable(i) /\ \E v : tick' = [Booked(v, i) EXCEPT !.queue = @ \ {i}]
    <3>1. tick'.used = tick.used
      BY ONLY <1>1, <2>5, BookedUse
    <3>2. tick.used < GlobalLimit
      BY <2>5 DEF Exposable
    <3> QED  BY <2>1, <3>1, <3>2, VotesStay DEF DatesOrdered
  <2> QED  BY <2>2, <2>4, <2>5
<1>8. CASE CastLands \/ CastRefused \/ CastDry
  <2>1. tick'.used = tick.used + 1 /\ tick'.pc # "cast" /\ tick.used < GlobalLimit
        /\ UNCHANGED <<clock, mode, born>>
    <3>1. UNCHANGED <<clock, mode, born>> /\ tick.pc = "cast"
      BY <1>8 DEF CastLands, CastRefused, CastDry, world
    <3>2. AfterCast # "cast"
      BY DEF AfterCast
    <3>3. tick'.used = tick.used + 1 /\ tick'.pc = AfterCast
      <4>1. CASE CastLands
        BY <1>1, <4>1 DEF CastLands, Ticks
      <4>2. CASE CastRefused
        BY <1>1, <4>2 DEF CastRefused, Ticks
      <4>3. CASE CastDry
        BY <1>1, <4>3 DEF CastDry, Ticks
      <4> QED  BY <1>8, <4>1, <4>2, <4>3
    <3> QED  BY <1>1, <3>1, <3>2, <3>3
  <2>2. tick'.used \in 0..GlobalLimit
    BY <1>1, <2>1, LimitsAreNat
  <2>3. CASE CastLands
    <3>1. PICK v, i : v = tick.voter /\ i = tick.item
      OBVIOUS
    <3>2. /\ v \notin VotersOn(i)
          /\ rows' = rows \cup {[voter |-> v, item |-> i, source |-> "simulated", at |-> clock]}
      BY <2>3, <3>1 DEF CastLands
    <3>3. i \in Content
      BY <2>3, <3>1 DEF CastLands, SimInv, TickPlace
    <3> QED  BY <1>1, <2>1, <2>2, <3>2, <3>3, VoteAdded
  <2>4. CASE CastRefused \/ CastDry
    BY <2>1, <2>2, <2>4, VotesStay DEF CastRefused, CastDry
  <2> QED  BY <1>8, <2>3, <2>4
<1> QED  BY <1>3, <1>4, <1>5, <1>6, <1>7, <1>8 DEF TickStep

LEMMA DatesBeside ==
  ASSUME SimInv, DatesOrdered, [SimNext]_simVars, ~ TickStep
  PROVE  DatesOrdered'
<1>1. RowsKept /\ StoreKept /\ clock \in Nat
  BY DEF SimInv, StoreKept
<1>2. /\ tick.used \in 0..GlobalLimit /\ 0 \in 0..GlobalLimit
      /\ tick.pc = "cast" => tick.used < GlobalLimit
  BY LimitsAreNat DEF DatesOrdered
<1>3. CASE WorkerDies
  <2>1. tick'.used = 0 /\ tick'.pc # "cast" /\ UNCHANGED <<clock, mode, born, rows>>
    BY <1>3 DEF WorkerDies, Idle
  <2> QED  BY <1>2, <2>1, VotesStay
<1>4. ASSUME NEW i \in Content, DeleteContent(i) PROVE DatesOrdered'
  <2>1. PICK lost \in SUBSET Content :
          /\ born' = [k \in Content |-> IF k \in lost THEN -1 ELSE born[k]]
          /\ rows' = {r \in rows : r.item \notin lost}
          /\ UNCHANGED <<clock, mode, tick>>
    BY <1>4 DEF DeleteContent
  <2>2. born' \in [Content -> -1..clock]
    BY <1>1, <2>1 DEF DatesOrdered
  <2>3. \A r \in rows' : r \in rows /\ born'[r.item] = born[r.item]
    BY <1>1, <2>1 DEF RowsKept
  <2> QED  BY <2>1, <2>2, <2>3 DEF DatesOrdered
<1>5. ASSUME NEW i \in Content, NEW b \in SUBSET Backers, Create(i, b) PROVE DatesOrdered'
  <2> DEFINE row(v) == [voter |-> v, item |-> i, source |-> "backfill", at |-> clock]
             new == {row(v) : v \in b}
  <2>1. /\ born[i] = 0 /\ born' = [born EXCEPT ![i] = clock] /\ rows' = rows \cup new
        /\ UNCHANGED <<clock, mode, tick>>
    BY <1>5 DEF Create
  <2>2. \A r \in new : r.item = i /\ r.at = clock
    OBVIOUS
  <2>3. \A r, q \in new : r.voter = q.voter => r = q
    OBVIOUS
  <2>4. \A r \in rows : r.item # i /\ r.item \in Content
    BY <1>1, <2>1 DEF RowsKept, Live
  <2>5. born' \in [Content -> -1..clock] /\ born'[i] = clock
        /\ \A k \in Content : k # i => born'[k] = born[k]
    BY <1>1, <2>1 DEF DatesOrdered
  <2> HIDE DEF new
  <2>6. \A r \in rows' : born'[r.item] <= r.at
    BY <1>1, <2>1, <2>2, <2>4, <2>5 DEF DatesOrdered
  <2>7. \A r, q \in rows' : r.voter = q.voter /\ r.item = q.item => r = q
    BY <2>1, <2>2, <2>3, <2>4 DEF DatesOrdered
  <2> QED  BY <2>1, <2>5, <2>6, <2>7 DEF DatesOrdered
<1>6. ASSUME NEW i \in Content, NEW v \in SimVisitors, VisitorVotes(v, i) PROVE DatesOrdered'
  BY <1>1, <1>2, <1>6, VoteAdded DEF VisitorVotes
<1>7. ASSUME NEW i \in Content, NEW v \in SimVisitors, VisitorClears(v, i) PROVE DatesOrdered'
  BY <1>2, <1>7, VotesStay DEF VisitorClears
<1>8. ASSUME NEW m \in {"off", "shadow", "live"}, SetMode(m) PROVE DatesOrdered'
  BY <1>8 DEF SetMode, DatesOrdered
<1>9. CASE CommitPolicy \/ \E p \in SimPolicies : StampPolicy(p)
  BY <1>9 DEF CommitPolicy, StampPolicy, DatesOrdered
<1>10. CASE ClockTicks
  <2>1. clock' \in 1..MaxClock /\ clock <= clock' /\ UNCHANGED <<mode, born, rows, tick>>
    BY <1>1, <1>10, LimitsAreNat DEF ClockTicks, DatesOrdered
  <2>2. -1..clock \subseteq -1..clock'
    BY <1>1, <2>1
  <2>3. born' \in [Content -> -1..clock']
    BY <2>1, <2>2 DEF DatesOrdered
  <2> QED  BY <2>1, <2>3 DEF DatesOrdered
<1>11. CASE UNCHANGED simVars
  BY <1>11 DEF simVars, DatesOrdered
<1> QED
  BY <1>3, <1>4, <1>5, <1>6, <1>7, <1>8, <1>9, <1>10, <1>11 DEF SimNext

\* The types of simulated voting: one vote per voter and item, none before its item or
\* after now, policies no later than now, and no tick beyond its limit of casts.
THEOREM SimTypes == SimSpec => []SimTypeOK
<1>1. SimInit => SimInv /\ DatesOrdered
  BY SimInvInit, DatesStart
<1>2. (SimInv /\ DatesOrdered) /\ [SimNext]_simVars => (SimInv /\ DatesOrdered)'
  BY SimInvStep, DatesTick, DatesBeside
<1>3. SimInv /\ DatesOrdered => SimTypeOK
  <2> SUFFICES ASSUME SimInv, DatesOrdered PROVE SimTypeOK
    OBVIOUS
  <2>1. RowsKept /\ StoreKept /\ TickShape /\ clock \in Nat
    BY DEF SimInv, StoreKept
  <2>2. \A p \in DOMAIN policies : p \in SimPolicies /\ policies[p] \in 1..clock
    BY <2>1 DEF StoreKept
  <2>3. \A r \in rows : Live(r.item) /\ r.at \in born[r.item]..clock
    <3>1. \A r \in rows : Live(r.item) /\ r.item \in Content /\ r.at \in Nat /\ r.at <= clock
      BY <2>1 DEF RowsKept
    <3> QED  BY <2>1, <3>1 DEF DatesOrdered, StoreKept
  <2>4. tick.at \in 0..clock
    BY <2>1 DEF TickShape, Ticks
  <2> QED  BY <2>2, <2>3, <2>4 DEF DatesOrdered, SimTypeOK
<1> QED  BY <1>1, <1>2, <1>3, PTL DEF SimSpec

\* The tables of moderation: votes of members and guests, on entries that there can be.
THEOREM ModTypes == ModSpec => []ModTypeOK
<1>1. ModInv => ModTypeOK
  BY DEF ModInv, ModShape, ModTypeOK, Ballots
<1> QED  BY <1>1, ModInvInit, ModInvStep, PTL DEF ModSpec

\* Runs were started on days that came, and as often as they may.
DaysKnown ==
  /\ day \in 0..MaxSeedDay /\ meddling \in Nat
  /\ Len(seedRuns) + meddling <= MaxSeedEvents
  /\ \A k \in 1..Len(seedRuns) : seedRuns[k] \in 0..day

LEMMA DaysStart == SeedInit => DaysKnown
<1>1. MaxSeedDay \in Nat /\ MaxSeedEvents \in Nat
  BY SeedingAssumption
<1> QED  BY <1>1 DEF SeedInit, DaysKnown

LEMMA DaysStep == SeedInv /\ DaysKnown /\ [SeedNext]_seedVars => DaysKnown'
<1> SUFFICES ASSUME SeedInv, DaysKnown, [SeedNext]_seedVars PROVE DaysKnown'
  OBVIOUS
<1>1. MaxSeedDay \in Nat /\ MaxSeedEvents \in Nat
  BY SeedingAssumption
<1>2. seedRuns \in Seq(Nat) /\ day \in Nat /\ meddling \in Nat /\ Len(seedRuns) \in Nat
  BY DEF SeedInv, SeedTypes
<1>3. CASE UNCHANGED <<day, seedRuns, meddling>>
  BY <1>3 DEF DaysKnown
<1>4. CASE StartSeeding
  <2>1. /\ seedRuns' = Append(seedRuns, day) /\ day' = day /\ meddling' = meddling
        /\ Len(seedRuns) + meddling < MaxSeedEvents
    BY <1>4 DEF StartSeeding
  <2>2. Len(seedRuns') = Len(seedRuns) + 1
    BY <1>2, <2>1
  <2>3. \A k \in 1..Len(seedRuns') : seedRuns'[k] = IF k <= Len(seedRuns) THEN seedRuns[k] ELSE day
    BY <1>2, <2>1
  <2>4. \A k \in 1..Len(seedRuns') : seedRuns'[k] \in 0..day'
    BY <1>2, <2>1, <2>2, <2>3 DEF DaysKnown
  <2>5. Len(seedRuns') + meddling' <= MaxSeedEvents
    BY <1>1, <1>2, <2>1, <2>2
  <2> QED  BY <1>2, <2>1, <2>4, <2>5 DEF DaysKnown
<1>5. CASE DayPasses
  <2>1. day < MaxSeedDay /\ day' = day + 1 /\ UNCHANGED <<seedRuns, meddling>>
    BY <1>5 DEF DayPasses
  <2>2. day' \in 0..MaxSeedDay /\ 0..day \subseteq 0..day'
    BY <1>1, <1>2, <2>1
  <2> QED  BY <2>1, <2>2 DEF DaysKnown
<1>6. CASE Meddles /\ UNCHANGED <<day, seedRuns>>
  BY <1>1, <1>2, <1>6 DEF Meddles, DaysKnown
<1>7. CASE \/ PersistUser \/ PeopleDone \/ ContentDone \/ CountVoters \/ ReadPool \/ PassItem
           \/ FlushItem \/ CommitBatch \/ RepairAll \/ SeedingDies
  <2>1. UNCHANGED <<day, seedRuns, meddling>>
    BY <1>7 DEF PersistUser, PeopleDone, ContentDone, CountVoters, ReadPool, PassItem, FlushItem,
                CommitBatch, RepairAll, SeedingDies
  <2> QED  BY <1>3, <2>1
<1>8. ASSUME NEW n, NEW at, PersistPost(n, at) PROVE DaysKnown'
  BY <1>3, <1>8 DEF PersistPost, PersistItem
<1>9. ASSUME NEW n, NEW under, NEW at, PersistComment(n, under, at) PROVE DaysKnown'
  BY <1>3, <1>9 DEF PersistComment, PersistItem
<1>10. ASSUME NEW target, NEW k, VoteItem(target, k) PROVE DaysKnown'
  BY <1>3, <1>10 DEF VoteItem
<1>11. ASSUME NEW n, NEW i, NEW value, LiveVote(n, i, value) PROVE DaysKnown'
  BY <1>6, <1>11 DEF LiveVote
<1>12. ASSUME NEW n, NEW into, ChangeFolk(n, into) PROVE DaysKnown'
  BY <1>6, <1>12 DEF ChangeFolk
<1>13. ASSUME NEW n, RegisterPlanned(n) PROVE DaysKnown'
  BY <1>6, <1>13 DEF RegisterPlanned
<1>14. CASE UNCHANGED seedVars
  BY <1>3, <1>14 DEF seedVars
<1> QED
  BY <1>4, <1>5, <1>7, <1>8, <1>9, <1>10, <1>11, <1>12, <1>13, <1>14 DEF SeedNext

\* The types of the tables that a history is seeded into: every item by somebody of the
\* site and on a post that was there, every vote on an item, the anchor on a day that came.
THEOREM SeedTypesHold == SeedSpec => []SeedTypeOK
<1>1. SeedInit => SeedInv /\ DaysKnown
  BY SeedInvInit, DaysStart
<1>2. (SeedInv /\ DaysKnown) /\ [SeedNext]_seedVars => (SeedInv /\ DaysKnown)'
  BY SeedInvStep, DaysStep
<1>3. SeedInv /\ DaysKnown => SeedTypeOK
  <2> SUFFICES ASSUME SeedInv, DaysKnown PROVE SeedTypeOK
    OBVIOUS
  <2>1. SeedTypes /\ RunsKnown /\ ThreadsInOrder
    BY DEF SeedInv
  <2>2. /\ seeded \in Seq(SeededItem) /\ DOMAIN seeded = 1..Len(seeded)
        /\ seedRuns \in Seq(Nat) /\ DOMAIN seedRuns = 1..Len(seedRuns) /\ Len(seedRuns) \in Nat
        /\ day \in Nat /\ meddling \in Nat
    BY <2>1 DEF SeedTypes
  <2>3. \A i \in DOMAIN seeded : seeded[i].by \in Usernames /\ seeded[i].on \in 1..i
    <3>1. \A i \in DOMAIN seeded : seeded[i] \in SeededItem
      BY <2>2
    <3> QED  BY <2>1, <2>2, <3>1 DEF SeededItem, ThreadsInOrder
  <2>4. anchor \in {Never} \cup 0..day
    <3>1. CASE seedRuns = << >>
      BY <2>1, <3>1 DEF RunsKnown
    <3>2. CASE seedRuns # << >>
      <4>1. 1 \in 1..Len(seedRuns)
        BY <2>2, <3>2
      <4> QED  BY <2>1, <3>2, <4>1 DEF RunsKnown, DaysKnown
    <3> QED  BY <3>1, <3>2
  <2>5. \A b \in ballot : b.item \in DOMAIN seeded /\ b.voter \in Usernames /\ b.value \in {-1, 1}
    <3>1. \A b \in ballot : b \in MadeVote
      BY <2>1 DEF SeedTypes
    <3> QED  BY <2>1, <2>2, <3>1 DEF MadeVote, RunsKnown
  <2>6. Len(seedRuns) <= MaxSeedEvents /\ settled \subseteq DOMAIN seedRuns
    <3>1. MaxSeedEvents \in Nat
      BY SeedingAssumption
    <3> QED  BY <2>1, <2>2, <3>1 DEF DaysKnown, RunsKnown
  <2>7. seeding.step \in {"idle", "people", "content", "votes", "pool", "voting", "repair"}
    BY <2>1 DEF SeedTypes, SeedRun, SeedSteps
  <2>8. /\ folk \in [Usernames -> {"none", "persona", "human"}] /\ Len(mark) = Len(seeded)
        /\ fame \in [Usernames -> Int]
    BY <2>1 DEF SeedTypes
  <2> QED  BY <2>3, <2>4, <2>5, <2>6, <2>7, <2>8 DEF SeedTypeOK, DaysKnown
<1> QED  BY <1>1, <1>2, <1>3, PTL DEF SeedSpec

\* All parts beside each other: they share no state.
THEOREM CommunityTypes ==
  Spec /\ SimSpec /\ ModSpec /\ TalkSpec /\ SeedSpec => []CommunityTypeOK
BY VotesTypes, SimTypes, ModTypes, ConversationTypes, SeedTypesHold, PTL DEF CommunityTypeOK

=============================================================================
