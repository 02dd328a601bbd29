--------------------------- MODULE Operators_proofs ---------------------------
(***************************************************************************)
(* TLAPS lemmas about the operators that several components share: those   *)
(* of BreakerOps, and the sums the books of the contracts are stated with. *)
(***************************************************************************)
EXTENDS BreakerOps, Functions, FiniteSetTheorems, TLAPS

-----------------------------------------------------------------------------
(* The circuit breaker.                                                    *)

(* clear() leaves a well-typed record. *)
LEMMA ClearedType == ASSUME NEW G PROVE Cleared \in BreakerState(G)
  BY TimelockAssumption DEF Cleared, BreakerState, OptTime, Time

(* An accepted pause writes a window inside the clock, after the request. *)
LEMMA PauseWindow ==
  ASSUME NEW G, NEW b \in BreakerState(G), NEW t \in Time, NEW d \in Nat,
         PauseAccepted(b, t, d)
  PROVE  /\ ActivationTime(b, t) \in {t, t + PauseTimelock}
         /\ ActivationTime(b, t) \in Time
         /\ PauseEnd(b, t, d) \in Time
         /\ ActivationTime(b, t) < PauseEnd(b, t, d)
<1>1. ActivationTime(b, t) \in {t, t + PauseTimelock}
  BY DEF ActivationTime
<1>2. /\ ActivationTime(b, t) \in Nat
      /\ ActivationTime(b, t) + d <= U64Max
      /\ d > 0
  BY <1>1, TimelockAssumption DEF PauseAccepted, Time
<1>3. b.pause_until \in Time \union {None}
  BY DEF BreakerState, OptTime
<1>4. /\ PauseEnd(b, t, d) \in Time
      /\ ActivationTime(b, t) < PauseEnd(b, t, d)
  BY <1>2, <1>3, TimelockAssumption DEF PauseEnd, Time
<1> QED
  BY <1>1, <1>2, <1>4, TimelockAssumption DEF Time

(* An accepted pause writes a well-typed record. *)
LEMMA PauseType ==
  ASSUME NEW G, NEW b \in BreakerState(G), NEW t \in Time, NEW d \in Nat,
         NEW g \in G, PauseAccepted(b, t, d)
  PROVE  PauseResult(b, t, d, g) \in BreakerState(G)
<1>1. ActivationTime(b, t) \in Time /\ PauseEnd(b, t, d) \in Time
  BY PauseWindow
<1>2. (IsPaused(b, t) /\ b.activation_announced) \in BOOLEAN
  BY DEF IsPaused, BreakerState
<1> QED
  BY <1>1, <1>2 DEF PauseResult, BreakerState, OptTime

(* An emergency writes a well-typed record. *)
LEMMA EmergencyType ==
  ASSUME NEW G, NEW b, NEW t \in Time, NEW g \in G
  PROVE  EmergencyResult(b, t, g) \in BreakerState(G)
  BY DEF EmergencyResult, BreakerState, OptTime

(* A synchronisation either clears the record or leaves its schedule alone. *)
LEMMA SyncType ==
  ASSUME NEW G, NEW b \in BreakerState(G), NEW t \in Time
  PROVE  SyncResult(b, t) \in BreakerState(G)
  BY ClearedType DEF SyncResult, BreakerState

(* What a synchronisation does to a paused contract: nothing but announce. *)
LEMMA SyncOfPaused ==
  ASSUME NEW G, NEW b \in BreakerState(G), NEW t \in Time, IsPaused(b, t)
  PROVE  /\ ~SyncExpires(b, t)
         /\ SyncResult(b, t).emergency_paused = b.emergency_paused
         /\ SyncResult(b, t).pause_activates_at = b.pause_activates_at
         /\ SyncResult(b, t).pause_until = b.pause_until
         /\ SyncResult(b, t).activation_announced
<1>1. ~SyncExpires(b, t)
  <2>1. b.pause_until \in Time \union {None} /\ t \in Nat
    BY DEF BreakerState, OptTime, Time
  <2> QED
    BY <2>1, TimelockAssumption DEF SyncExpires, IsPaused, Time
<1>2. CASE b.activation_announced
  <2>1. SyncResult(b, t) = b
    BY <1>1, <1>2 DEF SyncResult, SyncAnnounces
  <2> QED
    BY <1>1, <1>2, <2>1
<1>3. CASE ~b.activation_announced
  <2>1. SyncResult(b, t) = [b EXCEPT !.activation_announced = TRUE]
    BY <1>1, <1>3 DEF SyncResult, SyncAnnounces
  <2> QED
    BY <1>1, <2>1 DEF BreakerState
<1> QED
  BY <1>2, <1>3

-----------------------------------------------------------------------------
(* Sums.                                                                   *)

\* The element a fold takes next, and what it means that g folds f over the
\* subsets of S.
Pick(s) == CHOOSE x \in s : TRUE

IsFold(g, f, S) ==
  g = [s \in SUBSET S |-> IF s = {} THEN 0 ELSE f[Pick(s)] + g[s \ {Pick(s)}]]

(* Induction over a finite set, as a minimal counterexample: a nonempty     *)
(* collection of subsets of S has one that contains no other.              *)
LEMMA MinimalSubset ==
  ASSUME NEW S, IsFiniteSet(S), NEW Bad \in SUBSET SUBSET S, Bad # {}
  PROVE  \E T \in Bad : \A U \in SUBSET T : U # T => U \notin Bad
<1>1. IsWellFoundedOn(StrictSubsetOrdering(S), SUBSET S)
  BY FS_StrictSubsetOrderingWellFounded, FS_FiniteSubsetsOfFinite
<1>2. PICK T \in Bad : \A U \in Bad : <<U, T>> \notin StrictSubsetOrdering(S)
  BY <1>1, WFMin
<1>3. ASSUME NEW U \in SUBSET T, U # T, U \in Bad PROVE FALSE
  BY <1>2, <1>3 DEF StrictSubsetOrdering
<1> QED BY <1>3

(* The same for natural numbers: a nonempty set of them has a least one.    *)
LEMMA LeastNatural ==
  ASSUME NEW n \in Nat, NEW Bad \in SUBSET (0 .. n), Bad # {}
  PROVE  \E k \in Bad : \A m \in 0 .. k - 1 : m \notin Bad
<1>1. PICK Upto : Upto = {0 .. k : k \in Bad}
  OBVIOUS
<1>2. Upto \in SUBSET SUBSET (0 .. n) /\ Upto # {} /\ IsFiniteSet(0 .. n)
  <2>1. IsFiniteSet(0 .. n)
    BY FS_Interval
  <2>2. ASSUME NEW k \in Bad PROVE 0 .. k \subseteq 0 .. n
    OBVIOUS
  <2> QED
    BY <1>1, <2>1, <2>2
<1>3. PICK T \in Upto : \A U \in SUBSET T : U # T => U \notin Upto
  BY <1>2, MinimalSubset
<1>4. PICK k \in Bad : T = 0 .. k
  BY <1>1
<1>5. ASSUME NEW m \in 0 .. k - 1, m \in Bad PROVE FALSE
  <2>1. 0 .. m \in Upto
    BY <1>1, <1>5
  <2>2. 0 .. m \in SUBSET T /\ k \in T /\ k \notin 0 .. m
    BY <1>4, <1>5
  <2> QED
    BY <1>3, <2>1, <2>2
<1> QED
  BY <1>5

(* Pick takes an element. *)
LEMMA PickIn == ASSUME NEW s, s # {} PROVE Pick(s) \in s
  BY DEF Pick

(* Two folds of f agree on the finite sets they both reach. *)
LEMMA FoldsAgree ==
  ASSUME NEW f, NEW S, NEW T, NEW g, NEW h, IsFold(g, f, S), IsFold(h, f, T),
         NEW U \in SUBSET (S \cap T), IsFiniteSet(U)
  PROVE  g[U] = h[U]
<1> DEFINE Bad == {V \in SUBSET U : g[V] # h[V]}
<1>1. SUFFICES ASSUME Bad # {} PROVE FALSE
  OBVIOUS
<1>2. PICK V \in Bad : \A W \in SUBSET V : W # V => W \notin Bad
  <2>1. Bad \in SUBSET SUBSET U
    OBVIOUS
  <2> HIDE DEF Bad
  <2> QED BY <1>1, <2>1, MinimalSubset
<1>3. V \in SUBSET S /\ V \in SUBSET T /\ g[V] # h[V]
  OBVIOUS
<1>4. V # {}
  BY <1>3 DEF IsFold
<1>5. /\ g[V] = f[Pick(V)] + g[V \ {Pick(V)}]
      /\ h[V] = f[Pick(V)] + h[V \ {Pick(V)}]
  BY <1>3, <1>4 DEF IsFold
<1>6. g[V \ {Pick(V)}] = h[V \ {Pick(V)}]
  BY <1>2, <1>4, PickIn
<1> QED BY <1>3, <1>5, <1>6

(* Every f has a fold over a finite set: the recursive definition of        *)
(* MapThenFoldSet defines something.                                       *)
LEMMA FoldExists ==
  ASSUME NEW f, NEW S, IsFiniteSet(S)
  PROVE  \E g : IsFold(g, f, S)
<1> DEFINE Bad == {T \in SUBSET S : ~ \E g : IsFold(g, f, T)}
<1>1. SUFFICES ASSUME Bad # {} PROVE FALSE
  OBVIOUS
<1>2. PICK T \in Bad : \A U \in SUBSET T : U # T => U \notin Bad
  <2>1. Bad \in SUBSET SUBSET S
    OBVIOUS
  <2> HIDE DEF Bad
  <2> QED BY <1>1, <2>1, MinimalSubset
<1> DEFINE G(U) == CHOOSE g : IsFold(g, f, U)
           g0 == [s \in SUBSET T |-> IF s = {} THEN 0
                      ELSE f[Pick(s)] + G(s \ {Pick(s)})[s \ {Pick(s)}]]
<1>3. ASSUME NEW U \in SUBSET T, U # T PROVE IsFold(G(U), f, U)
  <2>1. \E g : IsFold(g, f, U) BY <1>2, <1>3
  <2> QED BY <2>1
<1>4. ASSUME NEW s \in SUBSET T, s # {} PROVE g0[s \ {Pick(s)}] = G(s \ {Pick(s)})[s \ {Pick(s)}]
  <2> DEFINE V == s \ {Pick(s)}
  <2>1. V \in SUBSET T /\ V # T
    BY <1>4, PickIn
  <2>2. IsFold(G(V), f, V)
    BY <1>3, <2>1
  <2>3. CASE V = {}
    BY <2>1, <2>2, <2>3 DEF IsFold
  <2>4. CASE V # {}
    <3> DEFINE W == V \ {Pick(V)}
    <3>1. W \in SUBSET T /\ W # T /\ W \in SUBSET V
      BY <2>1
    <3>2. IsFold(G(W), f, W)
      BY <1>3, <3>1
    <3>3. IsFiniteSet(W)
      BY <3>1, FS_Subset
    <3>4. G(V)[W] = G(W)[W]
      <4> HIDE DEF W, V, G
      <4> QED BY <3>1, <3>2, <3>3, <2>2, FoldsAgree
    <3>5. g0[V] = f[Pick(V)] + G(W)[W]
      BY <2>1, <2>4
    <3>6. G(V)[V] = f[Pick(V)] + G(V)[W]
      <4> HIDE DEF G, V
      <4> QED BY <2>2, <2>4 DEF IsFold
    <3> QED BY <3>4, <3>5, <3>6
  <2> QED BY <2>3, <2>4
<1>5. IsFold(g0, f, T)
  <2> HIDE DEF G
  <2>1. ASSUME NEW s \in SUBSET T PROVE g0[s] = IF s = {} THEN 0 ELSE f[Pick(s)] + g0[s \ {Pick(s)}]
     BY <1>4
  <2> QED BY <2>1 DEF IsFold
<1> QED BY <1>2, <1>5

(* The sum is the value of a fold. *)
LEMMA SumIsFold ==
  ASSUME NEW f, NEW S, IsFiniteSet(S)
  PROVE  \E g : IsFold(g, f, S) /\ SumFunctionOnSet(f, S) = g[S]
<1> DEFINE g == CHOOSE g : IsFold(g, f, S)
<1>1. IsFold(g, f, S)
  BY FoldExists
<1>2. SumFunctionOnSet(f, S) = g[S]
  BY DEF SumFunctionOnSet, FoldFunctionOnSet, MapThenFoldSet, IsFold, Pick
<1> QED BY <1>1, <1>2

(* One step of a sum. *)
LEMMA SumUnfolds ==
  ASSUME NEW f, NEW S, IsFiniteSet(S)
  PROVE  SumFunctionOnSet(f, S) =
           IF S = {} THEN 0 ELSE f[Pick(S)] + SumFunctionOnSet(f, S \ {Pick(S)})
<1>1. PICK g : IsFold(g, f, S) /\ SumFunctionOnSet(f, S) = g[S]
  BY SumIsFold
<1>2. CASE S = {}
  BY <1>1, <1>2 DEF IsFold
<1>3. CASE S # {}
  <2> DEFINE T == S \ {Pick(S)}
  <2>1. IsFiniteSet(T) /\ T \in SUBSET S
    BY FS_Subset
  <2>2. PICK h : IsFold(h, f, T) /\ SumFunctionOnSet(f, T) = h[T]
    BY <2>1, SumIsFold
  <2>3. g[T] = h[T]
    <3> HIDE DEF T
    <3>1. T \in SUBSET (S \cap T) BY <2>1
    <3> QED BY <1>1, <2>1, <2>2, <3>1, FoldsAgree
  <2>4. g[S] = f[Pick(S)] + g[T]
    BY <1>1, <1>3 DEF IsFold
  <2> QED BY <1>1, <1>3, <2>2, <2>3, <2>4
<1> QED BY <1>2, <1>3

(* The empty sum is 0. *)
LEMMA SumEmpty == ASSUME NEW f PROVE SumFunctionOnSet(f, {}) = 0
  BY SumUnfolds, FS_EmptySet

(* A sum of integers is an integer. *)
LEMMA SumType ==
  ASSUME NEW f, NEW S, IsFiniteSet(S), \A x \in S : f[x] \in Int
  PROVE  SumFunctionOnSet(f, S) \in Int
<1> DEFINE Bad == {T \in SUBSET S : SumFunctionOnSet(f, T) \notin Int}
<1>1. SUFFICES ASSUME Bad # {} PROVE FALSE
  OBVIOUS
<1>2. PICK T \in Bad : \A U \in SUBSET T : U # T => U \notin Bad
  <2>1. Bad \in SUBSET SUBSET S
    OBVIOUS
  <2> HIDE DEF Bad
  <2> QED BY <1>1, <2>1, MinimalSubset
<1>3. IsFiniteSet(T)
  BY FS_Subset
<1>4. SumFunctionOnSet(f, T) = IF T = {} THEN 0 ELSE f[Pick(T)] + SumFunctionOnSet(f, T \ {Pick(T)})
  BY <1>3, SumUnfolds
<1>5. CASE T = {}
  BY <1>4, <1>5
<1>6. CASE T # {}
  <2>1. Pick(T) \in T BY <1>6, PickIn
  <2>2. SumFunctionOnSet(f, T \ {Pick(T)}) \in Int
    BY <1>2, <2>1
  <2> QED BY <1>4, <1>6, <2>1, <2>2
<1> QED BY <1>5, <1>6

(* Any element may be taken out of a sum first. *)
LEMMA SumRemove ==
  ASSUME NEW f, NEW S, IsFiniteSet(S), \A x \in S : f[x] \in Int, NEW x \in S
  PROVE  SumFunctionOnSet(f, S) = f[x] + SumFunctionOnSet(f, S \ {x})
<1> DEFINE Removes(T, z) == SumFunctionOnSet(f, T) = f[z] + SumFunctionOnSet(f, T \ {z})
           Bad == {T \in SUBSET S : \E z \in T : ~ Removes(T, z)}
<1>1. SUFFICES ASSUME Bad # {} PROVE FALSE
  OBVIOUS
<1>2. PICK T \in Bad : \A U \in SUBSET T : U # T => U \notin Bad
  <2>1. Bad \in SUBSET SUBSET S
    OBVIOUS
  <2> HIDE DEF Bad
  <2> QED BY <1>1, <2>1, MinimalSubset
<1>3. PICK z \in T : ~ Removes(T, z)
  OBVIOUS
<1> DEFINE y == Pick(T)
<1>4. y \in T
  BY <1>3, PickIn
<1>5. IsFiniteSet(T) /\ T \in SUBSET S
  BY FS_Subset
<1>6. Removes(T, y)
  BY <1>3, <1>5, SumUnfolds
<1>7. z # y
  BY <1>3, <1>6
<1>8. Removes(T \ {y}, z) /\ Removes(T \ {z}, y)
  <2>1. /\ T \ {y} \in SUBSET T /\ T \ {y} # T /\ z \in T \ {y} /\ T \ {y} \in SUBSET S
        /\ T \ {z} \in SUBSET T /\ T \ {z} # T /\ y \in T \ {z} /\ T \ {z} \in SUBSET S
    BY <1>3, <1>4, <1>5, <1>7
  <2> HIDE DEF y, Removes
  <2> QED BY <1>2, <2>1
<1>9. (T \ {y}) \ {z} = (T \ {z}) \ {y}
  OBVIOUS
<1>10. f[y] \in Int /\ f[z] \in Int /\ SumFunctionOnSet(f, (T \ {y}) \ {z}) \in Int
  <2>1. IsFiniteSet((T \ {y}) \ {z}) /\ \A v \in (T \ {y}) \ {z} : f[v] \in Int
    BY <1>5, FS_Subset
  <2> QED BY <1>3, <1>4, <1>5, <2>1, SumType
<1> DEFINE R == SumFunctionOnSet(f, (T \ {y}) \ {z})
<1>11. SumFunctionOnSet(f, T) = f[y] + (f[z] + R)
  BY <1>6, <1>8
<1>12. SumFunctionOnSet(f, T) # f[z] + (f[y] + R)
  BY <1>3, <1>8, <1>9
<1> QED
  <2> HIDE DEF y, R
  <2>1. f[y] \in Int /\ f[z] \in Int /\ R \in Int
    BY <1>10 DEF R
  <2> QED BY <1>11, <1>12, <2>1

(* A sum depends on the values over its set alone. *)
LEMMA SumAgrees ==
  ASSUME NEW f, NEW g, NEW S, IsFiniteSet(S), \A x \in S : f[x] = g[x]
  PROVE  SumFunctionOnSet(f, S) = SumFunctionOnSet(g, S)
<1> DEFINE Bad == {T \in SUBSET S : SumFunctionOnSet(f, T) # SumFunctionOnSet(g, T)}
<1>1. SUFFICES ASSUME Bad # {} PROVE FALSE
  OBVIOUS
<1>2. PICK T \in Bad : \A U \in SUBSET T : U # T => U \notin Bad
  <2>1. Bad \in SUBSET SUBSET S
    OBVIOUS
  <2> HIDE DEF Bad
  <2> QED BY <1>1, <2>1, MinimalSubset
<1>3. IsFiniteSet(T)
  BY FS_Subset
<1>4. T # {}
  BY SumEmpty
<1>5. SumFunctionOnSet(f, T \ {Pick(T)}) = SumFunctionOnSet(g, T \ {Pick(T)})
  BY <1>2, <1>4, PickIn
<1>6. f[Pick(T)] = g[Pick(T)]
  BY <1>4, PickIn
<1> QED BY <1>3, <1>4, <1>5, <1>6, SumUnfolds

(* A new element adds its value. *)
LEMMA SumAdd ==
  ASSUME NEW f, NEW S, IsFiniteSet(S), NEW x, x \notin S, f[x] \in Int, \A y \in S : f[y] \in Int
  PROVE  SumFunctionOnSet(f, S \cup {x}) = f[x] + SumFunctionOnSet(f, S)
<1>1. IsFiniteSet(S \cup {x}) /\ \A y \in S \cup {x} : f[y] \in Int
  BY FS_AddElement
<1>2. (S \cup {x}) \ {x} = S
  OBVIOUS
<1> QED BY <1>1, <1>2, SumRemove

(* A change of one value changes the sum by as much. *)
LEMMA SumUpdate ==
  ASSUME NEW S, IsFiniteSet(S), NEW f, NEW g, NEW x \in S,
         \A y \in S : f[y] \in Int /\ g[y] \in Int,
         \A y \in S : y # x => g[y] = f[y]
  PROVE  /\ SumFunctionOnSet(f, S) \in Int
         /\ SumFunctionOnSet(g, S) = SumFunctionOnSet(f, S) - f[x] + g[x]
<1>1. IsFiniteSet(S \ {x}) /\ \A y \in S \ {x} : f[y] \in Int /\ f[y] = g[y]
  BY FS_Subset
<1>2. SumFunctionOnSet(f, S \ {x}) = SumFunctionOnSet(g, S \ {x})
  BY <1>1, SumAgrees
<1>3. SumFunctionOnSet(f, S \ {x}) \in Int
  BY <1>1, SumType
<1>4. SumFunctionOnSet(f, S) = f[x] + SumFunctionOnSet(f, S \ {x})
  BY SumRemove
<1>5. SumFunctionOnSet(g, S) = g[x] + SumFunctionOnSet(g, S \ {x})
  BY SumRemove
<1> QED BY <1>2, <1>3, <1>4, <1>5

(* A sum of zeros is 0. *)
LEMMA SumOfZeros ==
  ASSUME NEW f, NEW S, IsFiniteSet(S), \A x \in S : f[x] = 0
  PROVE  SumFunctionOnSet(f, S) = 0
<1> DEFINE Bad == {T \in SUBSET S : SumFunctionOnSet(f, T) # 0}
<1>1. SUFFICES ASSUME Bad # {} PROVE FALSE
  OBVIOUS
<1>2. PICK T \in Bad : \A U \in SUBSET T : U # T => U \notin Bad
  <2>1. Bad \in SUBSET SUBSET S
    OBVIOUS
  <2> HIDE DEF Bad
  <2> QED BY <1>1, <2>1, MinimalSubset
<1>3. IsFiniteSet(T)
  BY FS_Subset
<1>4. T # {}
  BY SumEmpty
<1>5. SumFunctionOnSet(f, T \ {Pick(T)}) = 0 /\ f[Pick(T)] = 0
  BY <1>2, <1>4, PickIn
<1> QED BY <1>3, <1>4, <1>5, SumUnfolds

(* A sum of natural numbers is a natural number. *)
LEMMA SumNonNegative ==
  ASSUME NEW f, NEW S, IsFiniteSet(S), \A x \in S : f[x] \in Nat
  PROVE  SumFunctionOnSet(f, S) \in Nat
<1> DEFINE Bad == {T \in SUBSET S : SumFunctionOnSet(f, T) \notin Nat}
<1>1. SUFFICES ASSUME Bad # {} PROVE FALSE
  OBVIOUS
<1>2. PICK T \in Bad : \A U \in SUBSET T : U # T => U \notin Bad
  <2>1. Bad \in SUBSET SUBSET S
    OBVIOUS
  <2> HIDE DEF Bad
  <2> QED BY <1>1, <2>1, MinimalSubset
<1>3. IsFiniteSet(T)
  BY FS_Subset
<1>4. T # {}
  BY SumEmpty
<1>5. SumFunctionOnSet(f, T \ {Pick(T)}) \in Nat /\ f[Pick(T)] \in Nat
  BY <1>2, <1>4, PickIn
<1> QED BY <1>3, <1>4, <1>5, SumUnfolds

(* What SumBounded multiplies. *)
LEMMA Distributes ==
  ASSUME NEW n \in Nat, NEW k \in Nat PROVE n * (k + 1) = n * k + n /\ n * k \in Int
  OBVIOUS

(* A sum of integers between -n and n is within n times their number. *)
LEMMA SumBounded ==
  ASSUME NEW f, NEW S, IsFiniteSet(S), NEW n \in Nat, \A x \in S : f[x] \in -n .. n
  PROVE  /\ SumFunctionOnSet(f, S) \in Int
         /\ SumFunctionOnSet(f, S) <= n * Cardinality(S)
         /\ -(n * Cardinality(S)) <= SumFunctionOnSet(f, S)
<1> DEFINE Within(T) == /\ SumFunctionOnSet(f, T) \in Int
                        /\ SumFunctionOnSet(f, T) <= n * Cardinality(T)
                        /\ -(n * Cardinality(T)) <= SumFunctionOnSet(f, T)
           Bad == {T \in SUBSET S : ~Within(T)}
<1>1. SUFFICES ASSUME Bad # {} PROVE FALSE
  OBVIOUS
<1>2. PICK T \in Bad : \A U \in SUBSET T : U # T => U \notin Bad
  <2>1. Bad \in SUBSET SUBSET S
    OBVIOUS
  <2> HIDE DEF Bad
  <2> QED BY <1>1, <2>1, MinimalSubset
<1>3. IsFiniteSet(T)
  BY FS_Subset
<1>4. T # {}
  <2>1. Within({})
    BY SumEmpty, FS_EmptySet
  <2> QED BY <2>1
<1> DEFINE U == T \ {Pick(T)}
           k == Cardinality(U)
           s == SumFunctionOnSet(f, U)
<1>5. Within(U) /\ f[Pick(T)] \in -n .. n
  BY <1>2, <1>4, PickIn
<1>6. Cardinality(T) = k + 1 /\ k \in Nat
  <2>1. Pick(T) \in T /\ IsFiniteSet(U)
    BY <1>3, <1>4, PickIn, FS_Subset
  <2>2. k = Cardinality(T) - 1 /\ k \in Nat /\ Cardinality(T) \in Nat
    BY <1>3, <2>1, FS_RemoveElement, FS_CardinalityType
  <2> QED BY <2>2
<1>7. SumFunctionOnSet(f, T) = f[Pick(T)] + s
  BY <1>3, <1>4, SumUnfolds
<1>8. n * (k + 1) = n * k + n /\ n * k \in Int
  BY <1>6, Distributes
<1>9. ~Within(T)
  BY <1>2
<1> HIDE DEF k, s, Bad
<1> QED BY <1>5, <1>6, <1>7, <1>8, <1>9 DEF k, s

(* A value that grows by n, or shrinks, takes the sum with it.              *)
LEMMA SumPlus ==
  ASSUME NEW S, IsFiniteSet(S), NEW f, NEW g, NEW x \in S, NEW n \in Int,
         \A y \in S : f[y] \in Int, g[x] = f[x] + n, \A y \in S \ {x} : g[y] = f[y]
  PROVE  /\ SumFunctionOnSet(f, S) \in Int
         /\ SumFunctionOnSet(g, S) = SumFunctionOnSet(f, S) + n
<1>1. IsFiniteSet(S \ {x}) /\ \A y \in S \ {x} : f[y] \in Int /\ f[y] = g[y]
  BY FS_Subset
<1>2. /\ SumFunctionOnSet(f, S \ {x}) = SumFunctionOnSet(g, S \ {x})
      /\ SumFunctionOnSet(f, S \ {x}) \in Int
  BY <1>1, SumAgrees, SumType
<1>3. SumFunctionOnSet(f, S) = f[x] + SumFunctionOnSet(f, S \ {x})
  BY SumRemove
<1>4. SumFunctionOnSet(g, S) = g[x] + SumFunctionOnSet(g, S \ {x})
  <2>1. \A y \in S : g[y] \in Int
    OBVIOUS
  <2> QED BY <2>1, SumRemove
<1> QED BY <1>2, <1>3, <1>4

(* No natural number exceeds a sum that it is part of.                      *)
LEMMA SumBounds ==
  ASSUME NEW S, IsFiniteSet(S), NEW f \in [S -> Nat], NEW x \in S
  PROVE  SumFunctionOnSet(f, S) \in Nat /\ f[x] <= SumFunctionOnSet(f, S)
<1>1. IsFiniteSet(S \ {x}) /\ \A y \in S : f[y] \in Nat /\ f[y] \in Int
  BY FS_Subset
<1>2. /\ SumFunctionOnSet(f, S) \in Nat /\ SumFunctionOnSet(f, S \ {x}) \in Nat
      /\ SumFunctionOnSet(f, S) = f[x] + SumFunctionOnSet(f, S \ {x})
  BY <1>1, SumNonNegative, SumRemove
<1> QED BY <1>1, <1>2

(* Values that all grow by n, those outside T excepted, add n for each      *)
(* element of T.                                                            *)
LEMMA SumOfEqualParts ==
  ASSUME NEW S, IsFiniteSet(S), NEW T \in SUBSET S, NEW n \in Nat,
         NEW f \in [S -> Int], NEW g,
         \A x \in S : g[x] = f[x] + (IF x \in T THEN n ELSE 0)
  PROVE  SumFunctionOnSet(g, S) = SumFunctionOnSet(f, S) + n * Cardinality(T)
<1> DEFINE Adds(U) == SumFunctionOnSet(g, U) = SumFunctionOnSet(f, U) + n * Cardinality(T \cap U)
           Bad == {U \in SUBSET S : ~Adds(U)}
<1>1. SUFFICES ASSUME Bad # {} PROVE FALSE
  <2>1. T \cap S = T
    OBVIOUS
  <2> QED BY <2>1
<1>2. PICK U \in Bad : \A V \in SUBSET U : V # U => V \notin Bad
  <2>1. Bad \in SUBSET SUBSET S
    OBVIOUS
  <2> HIDE DEF Bad
  <2> QED BY <1>1, <2>1, MinimalSubset
<1>3. IsFiniteSet(U) /\ U \subseteq S
  BY FS_Subset
<1>4. U # {}
  <2>1. Adds({})
    <3>1. T \cap {} = {} /\ Cardinality({}) = 0
      BY FS_EmptySet
    <3> QED BY <3>1, SumEmpty
  <2> QED BY <2>1
<1> DEFINE p == Pick(U)
           W == U \ {p}
           k == Cardinality(T \cap W)
<1>5. p \in U /\ p \in S /\ IsFiniteSet(W) /\ \A y \in W : f[y] \in Int /\ g[y] \in Int
  BY <1>3, <1>4, PickIn, FS_Subset
<1>6. Adds(W) /\ ~Adds(U)
  <2>1. W \in SUBSET U /\ W # U /\ W \in SUBSET S
    BY <1>5
  <2> QED BY <1>2, <2>1
<1>7. /\ SumFunctionOnSet(f, W) \in Int /\ SumFunctionOnSet(g, W) \in Int
      /\ f[p] \in Int /\ g[p] = f[p] + (IF p \in T THEN n ELSE 0)
  BY <1>5, SumType
<1>8. /\ SumFunctionOnSet(f, U) = f[p] + SumFunctionOnSet(f, W)
      /\ SumFunctionOnSet(g, U) = g[p] + SumFunctionOnSet(g, W)
  BY <1>3, <1>4, SumUnfolds
<1>9. k \in Nat /\ Cardinality(T \cap U) = IF p \in T THEN k + 1 ELSE k
  <2>1. IsFiniteSet(T \cap W)
    BY <1>5, FS_Subset
  <2>2. k \in Nat
    BY <2>1, FS_CardinalityType
  <2>3. CASE p \in T
    <3>1. T \cap U = (T \cap W) \cup {p} /\ p \notin T \cap W
      BY <1>5, <2>3
    <3> QED BY <2>1, <2>2, <2>3, <3>1, FS_AddElement
  <2>4. CASE p \notin T
    <3>1. T \cap U = T \cap W
      BY <2>4
    <3> QED BY <2>2, <2>4, <3>1
  <2> QED BY <2>3, <2>4
<1>10. n * (k + 1) = n * k + n /\ n * k \in Int
  BY <1>9, Distributes
<1> HIDE DEF p, W, Bad
<1> QED BY <1>6, <1>7, <1>8, <1>9, <1>10

(* What the next two lemmas multiply out.                                    *)
LEMMA MultipliesOut ==
  ASSUME NEW k \in Int, NEW a \in Int, NEW b \in Int
  PROVE  k * (a + b) = k * a + k * b /\ k * a \in Int /\ k * b \in Int
  OBVIOUS

(* The sum of what grows by multiples of another function.                   *)
LEMMA SumCombines ==
  ASSUME NEW S, IsFiniteSet(S), NEW k \in Int, NEW f, NEW g, NEW h,
         \A x \in S : f[x] \in Int /\ g[x] \in Int /\ h[x] = f[x] + k * g[x]
  PROVE  /\ SumFunctionOnSet(f, S) \in Int /\ SumFunctionOnSet(g, S) \in Int
         /\ SumFunctionOnSet(h, S) = SumFunctionOnSet(f, S) + k * SumFunctionOnSet(g, S)
<1> DEFINE Adds(U) == SumFunctionOnSet(h, U) = SumFunctionOnSet(f, U) + k * SumFunctionOnSet(g, U)
           Bad == {U \in SUBSET S : ~Adds(U)}
<1>0. SumFunctionOnSet(f, S) \in Int /\ SumFunctionOnSet(g, S) \in Int
  BY SumType
<1>1. SUFFICES ASSUME Bad # {} PROVE FALSE
  BY <1>0
<1>2. PICK U \in Bad : \A V \in SUBSET U : V # U => V \notin Bad
  <2>1. Bad \in SUBSET SUBSET S
    OBVIOUS
  <2> HIDE DEF Bad
  <2> QED BY <1>1, <2>1, MinimalSubset
<1>3. IsFiniteSet(U) /\ U \subseteq S
  BY FS_Subset
<1>4. U # {}
  <2>1. Adds({})
    BY SumEmpty
  <2> QED BY <2>1
<1> DEFINE p == Pick(U)
           W == U \ {p}
<1>5. p \in U /\ p \in S /\ IsFiniteSet(W) /\ \A y \in W : f[y] \in Int /\ g[y] \in Int
  BY <1>3, <1>4, PickIn, FS_Subset
<1>6. Adds(W) /\ ~Adds(U)
  <2>1. W \in SUBSET U /\ W # U /\ W \in SUBSET S
    BY <1>5
  <2> QED BY <1>2, <2>1
<1>7. /\ SumFunctionOnSet(f, W) \in Int /\ SumFunctionOnSet(g, W) \in Int
      /\ f[p] \in Int /\ g[p] \in Int /\ h[p] = f[p] + k * g[p]
  BY <1>5, SumType
<1>8. /\ SumFunctionOnSet(f, U) = f[p] + SumFunctionOnSet(f, W)
      /\ SumFunctionOnSet(g, U) = g[p] + SumFunctionOnSet(g, W)
      /\ SumFunctionOnSet(h, U) = h[p] + SumFunctionOnSet(h, W)
  BY <1>3, <1>4, SumUnfolds
<1>9. /\ k * (g[p] + SumFunctionOnSet(g, W)) = k * g[p] + k * SumFunctionOnSet(g, W)
      /\ k * g[p] \in Int /\ k * SumFunctionOnSet(g, W) \in Int
  BY <1>7, MultipliesOut
<1> HIDE DEF p, W, Bad
<1> QED BY <1>6, <1>7, <1>8, <1>9

(* A common factor comes out of a sum.                                       *)
LEMMA SumScaled ==
  ASSUME NEW S, IsFiniteSet(S), NEW k \in Int, NEW g, NEW h,
         \A x \in S : g[x] \in Int /\ h[x] = k * g[x]
  PROVE  SumFunctionOnSet(h, S) = k * SumFunctionOnSet(g, S)
<1> DEFINE Scales(U) == SumFunctionOnSet(h, U) = k * SumFunctionOnSet(g, U)
           Bad == {U \in SUBSET S : ~Scales(U)}
<1>1. SUFFICES ASSUME Bad # {} PROVE FALSE
  OBVIOUS
<1>2. PICK U \in Bad : \A V \in SUBSET U : V # U => V \notin Bad
  <2>1. Bad \in SUBSET SUBSET S
    OBVIOUS
  <2> HIDE DEF Bad
  <2> QED BY <1>1, <2>1, MinimalSubset
<1>3. IsFiniteSet(U) /\ U \subseteq S
  BY FS_Subset
<1>4. U # {}
  <2>1. Scales({})
    BY SumEmpty
  <2> QED BY <2>1
<1> DEFINE p == Pick(U)
           W == U \ {p}
<1>5. p \in U /\ p \in S /\ IsFiniteSet(W) /\ \A y \in W : g[y] \in Int
  BY <1>3, <1>4, PickIn, FS_Subset
<1>6. Scales(W) /\ ~Scales(U)
  <2>1. W \in SUBSET U /\ W # U /\ W \in SUBSET S
    BY <1>5
  <2> QED BY <1>2, <2>1
<1>7. SumFunctionOnSet(g, W) \in Int /\ g[p] \in Int /\ h[p] = k * g[p]
  BY <1>5, SumType
<1>8. /\ SumFunctionOnSet(g, U) = g[p] + SumFunctionOnSet(g, W)
      /\ SumFunctionOnSet(h, U) = h[p] + SumFunctionOnSet(h, W)
  BY <1>3, <1>4, SumUnfolds
<1>9. k * (g[p] + SumFunctionOnSet(g, W)) = k * g[p] + k * SumFunctionOnSet(g, W)
  BY <1>7, MultipliesOut
<1> HIDE DEF p, W, Bad
<1> QED BY <1>6, <1>7, <1>8, <1>9

(* A sum of smaller values is smaller.                                       *)
LEMMA SumMonotone ==
  ASSUME NEW S, IsFiniteSet(S), NEW f, NEW g,
         \A x \in S : f[x] \in Int /\ g[x] \in Int /\ f[x] <= g[x]
  PROVE  SumFunctionOnSet(f, S) <= SumFunctionOnSet(g, S)
<1> DEFINE Bad == {T \in SUBSET S : ~(SumFunctionOnSet(f, T) <= SumFunctionOnSet(g, T))}
<1>1. SUFFICES ASSUME Bad # {} PROVE FALSE
  OBVIOUS
<1>2. PICK T \in Bad : \A U \in SUBSET T : U # T => U \notin Bad
  <2>1. Bad \in SUBSET SUBSET S
    OBVIOUS
  <2> HIDE DEF Bad
  <2> QED BY <1>1, <2>1, MinimalSubset
<1>3. IsFiniteSet(T)
  BY FS_Subset
<1>4. T # {}
  BY SumEmpty
<1> DEFINE p == Pick(T)
           W == T \ {p}
<1>5. p \in T /\ p \in S /\ IsFiniteSet(W) /\ \A y \in W : f[y] \in Int /\ g[y] \in Int
  BY <1>3, <1>4, PickIn, FS_Subset
<1>6. SumFunctionOnSet(f, W) <= SumFunctionOnSet(g, W)
  <2>1. W \in SUBSET T /\ W # T /\ W \in SUBSET S
    BY <1>5
  <2> QED BY <1>2, <2>1
<1>7. /\ SumFunctionOnSet(f, W) \in Int /\ SumFunctionOnSet(g, W) \in Int
      /\ f[p] \in Int /\ g[p] \in Int /\ f[p] <= g[p]
  BY <1>5, SumType
<1>8. /\ SumFunctionOnSet(f, T) = f[p] + SumFunctionOnSet(f, W)
      /\ SumFunctionOnSet(g, T) = g[p] + SumFunctionOnSet(g, W)
  BY <1>3, <1>4, SumUnfolds
<1>9. ~(SumFunctionOnSet(f, T) <= SumFunctionOnSet(g, T))
  BY <1>2
<1> HIDE DEF p, W, Bad
<1> QED BY <1>6, <1>7, <1>8, <1>9

(* Division rounds down by less than the divisor.                            *)
LEMMA RoundsDown ==
  ASSUME NEW n \in Nat, NEW k \in Nat, k > 0
  PROVE  n \div k \in Nat /\ (n \div k) * k <= n /\ n < (n \div k) * k + k
<1>1. n % k = n - (n \div k) * k
  OBVIOUS
<1>2. n % k \in 0 .. k - 1
  OBVIOUS
<1>3. n \div k \in Int /\ (n \div k) * k \in Int
  OBVIOUS
<1>4. n \div k >= 0
  OBVIOUS
<1> QED
  BY <1>1, <1>2, <1>3, <1>4
=============================================================================
