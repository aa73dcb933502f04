----------------------------- MODULE SumTheorems -----------------------------
(***************************************************************************)
(* Facts about the sum of a function over a finite set, which the budgets  *)
(* of ClaudeWake and AgentRuns are about.  The operator is the community   *)
(* modules': a recursive function over the subsets, which takes away one   *)
(* element after the other.                                                *)
(*                                                                         *)
(* Each induction goes by a smallest counterexample among the subsets:     *)
(* it needs the well-founded order of finite sets only, which a set of     *)
(* counterexamples, unlike a predicate, can be handed to.                  *)
(***************************************************************************)
EXTENDS Integers, FiniteSets, Functions, FiniteSetTheorems, WellFoundedInduction, TLAPS

\* Of the subsets of a finite set that are bad one has no bad proper subset.
LEMMA SmallestSet ==
  ASSUME NEW S, IsFiniteSet(S), NEW Bad, Bad \subseteq SUBSET S, Bad # {}
  PROVE  \E T \in Bad : \A U \in SUBSET T : U # T => U \notin Bad
<1>1. IsWellFoundedOn(StrictSubsetOrdering(S), FiniteSubsetsOf(S))
  BY FS_StrictSubsetOrderingWellFounded
<1>2. FiniteSubsetsOf(S) = SUBSET S
  BY FS_FiniteSubsetsOfFinite
<1>3. PICK T \in Bad : \A U \in Bad : <<U, T>> \notin StrictSubsetOrdering(S)
  BY <1>1, <1>2, WFMin
<1> QED
  BY <1>3 DEF StrictSubsetOrdering

-----------------------------------------------------------------------------
(* The recursion                                                           *)

Pick(s) == CHOOSE x \in s : TRUE

\* g adds f up over the subsets of S.
Adds(g, f, S) == g = [s \in SUBSET S |-> IF s = {} THEN 0 ELSE f[Pick(s)] + g[s \ {Pick(s)}]]

LEMMA PickIn == ASSUME NEW s, s # {} PROVE Pick(s) \in s
BY DEF Pick

LEMMA SumIsChosen ==
  ASSUME NEW f, NEW S
  PROVE  SumFunctionOnSet(f, S) = (CHOOSE g : Adds(g, f, S))[S]
BY DEF SumFunctionOnSet, FoldFunctionOnSet, MapThenFoldSet, Adds, Pick

LEMMA AddsStep ==
  ASSUME NEW f, NEW S, NEW g, Adds(g, f, S), NEW s \in SUBSET S
  PROVE  g[s] = IF s = {} THEN 0 ELSE f[Pick(s)] + g[s \ {Pick(s)}]
BY DEF Adds

\* Two functions that add f up agree where both do.
LEMMA AddsUnique ==
  ASSUME NEW f, NEW S, NEW T, IsFiniteSet(S), NEW g, NEW h, Adds(g, f, S), Adds(h, f, T),
         NEW U, U \subseteq S, U \subseteq T
  PROVE  g[U] = h[U]
<1> DEFINE Bad == {s \in SUBSET U : g[s] # h[s]}
<1> SUFFICES ASSUME U \in Bad PROVE FALSE
  OBVIOUS
<1>1. IsFiniteSet(U)
  BY FS_Subset
<1>2. PICK s \in Bad : \A u \in SUBSET s : u # s => u \notin Bad
  <2>1. Bad \subseteq SUBSET U /\ Bad # {}
    OBVIOUS
  <2> HIDE DEF Bad
  <2> QED
    BY <1>1, <2>1, SmallestSet
<1>3. s \in SUBSET S /\ s \in SUBSET T
  OBVIOUS
<1>4. CASE s = {}
  BY <1>3, <1>4, AddsStep
<1>5. CASE s # {}
  <2>1. s \ {Pick(s)} \in SUBSET s /\ s \ {Pick(s)} # s
    BY <1>5, PickIn
  <2>2. g[s \ {Pick(s)}] = h[s \ {Pick(s)}]
    BY <1>2, <2>1
  <2>3. g[s] = h[s]
    BY <1>3, <1>5, <2>2, AddsStep
  <2> QED
    BY <2>3
<1> QED
  BY <1>4, <1>5

LEMMA AddsExists ==
  ASSUME NEW f, NEW S, IsFiniteSet(S)
  PROVE  \E g : Adds(g, f, S)
<1> DEFINE Bad == {T \in SUBSET S : ~ \E g : Adds(g, f, T)}
<1> SUFFICES ASSUME S \in Bad PROVE FALSE
  OBVIOUS
<1>1. PICK T \in Bad : \A U \in SUBSET T : U # T => U \notin Bad
  <2>1. Bad \subseteq SUBSET S /\ Bad # {}
    OBVIOUS
  <2> HIDE DEF Bad
  <2> QED
    BY <2>1, SmallestSet
<1>2. IsFiniteSet(T)
  BY FS_Subset
<1> DEFINE G(U) == CHOOSE g : Adds(g, f, U)
           Rest(s) == s \ {Pick(s)}
           h == [s \in SUBSET T |-> IF s = {} THEN 0 ELSE f[Pick(s)] + G(Rest(s))[Rest(s)]]
<1>3. ASSUME NEW U \in SUBSET T, U # T PROVE Adds(G(U), f, U)
  <2>1. \E g : Adds(g, f, U)
    BY <1>1, <1>3
  <2> QED
    BY <2>1
<1>4. ASSUME NEW s \in SUBSET T, s # {} PROVE h[Rest(s)] = G(Rest(s))[Rest(s)]
  <2>1. Rest(s) \in SUBSET T /\ Rest(s) # T
    BY <1>4, PickIn
  <2>2. Adds(G(Rest(s)), f, Rest(s))
    BY <1>3, <2>1
  <2>3. CASE Rest(s) = {}
    BY <2>1, <2>2, <2>3, AddsStep
  <2>4. CASE Rest(s) # {}
    <3>1. Rest(Rest(s)) \in SUBSET T /\ Rest(Rest(s)) # T /\ Rest(Rest(s)) \subseteq Rest(s)
      BY <2>1
    <3>2. Adds(G(Rest(Rest(s))), f, Rest(Rest(s)))
      BY <1>3, <3>1
    <3>3. IsFiniteSet(Rest(s))
      BY <1>2, <2>1, FS_Subset
    <3>4. G(Rest(s))[Rest(Rest(s))] = G(Rest(Rest(s)))[Rest(Rest(s))]
      <4> HIDE DEF G, Rest
      <4> QED
        BY <2>2, <3>1, <3>2, <3>3, AddsUnique
    <3>5. h[Rest(s)] = f[Pick(Rest(s))] + G(Rest(Rest(s)))[Rest(Rest(s))]
      BY <2>1, <2>4
    <3>6. G(Rest(s))[Rest(s)] = f[Pick(Rest(s))] + G(Rest(s))[Rest(Rest(s))]
      <4>1. Rest(s) \in SUBSET Rest(s)
        OBVIOUS
      <4> HIDE DEF G, Rest
      <4>2. G(Rest(s))[Rest(s)] = f[Pick(Rest(s))] + G(Rest(s))[Rest(s) \ {Pick(Rest(s))}]
        BY <2>2, <2>4, <4>1, AddsStep
      <4> QED
        BY <4>2 DEF Rest
    <3> QED
      BY <3>4, <3>5, <3>6
  <2> QED
    BY <2>3, <2>4
<1>5. Adds(h, f, T)
  <2>1. \A s \in SUBSET T : h[s] = IF s = {} THEN 0 ELSE f[Pick(s)] + h[s \ {Pick(s)}]
    <3> SUFFICES ASSUME NEW s \in SUBSET T
                 PROVE  h[s] = IF s = {} THEN 0 ELSE f[Pick(s)] + h[Rest(s)]
      OBVIOUS
    <3>1. h[s] = IF s = {} THEN 0 ELSE f[Pick(s)] + G(Rest(s))[Rest(s)]
      OBVIOUS
    <3>2. s # {} => h[Rest(s)] = G(Rest(s))[Rest(s)]
      BY <1>4
    <3> HIDE DEF h, G, Rest
    <3> QED
      BY <3>1, <3>2
  <2>2. h = [s \in SUBSET T |-> h[s]]
    OBVIOUS
  <2> HIDE DEF h
  <2> QED
    BY <2>1, <2>2 DEF Adds
<1> QED
  BY <1>1, <1>5

LEMMA SumRecursion ==
  ASSUME NEW f, NEW S, IsFiniteSet(S)
  PROVE  SumFunctionOnSet(f, S) =
           IF S = {} THEN 0 ELSE f[Pick(S)] + SumFunctionOnSet(f, S \ {Pick(S)})
<1> DEFINE G(U) == CHOOSE g : Adds(g, f, U)
<1>1. ASSUME NEW U, IsFiniteSet(U) PROVE Adds(G(U), f, U)
  BY <1>1, AddsExists
<1>2. G(S)[S] = IF S = {} THEN 0 ELSE f[Pick(S)] + G(S)[S \ {Pick(S)}]
  <2>1. Adds(G(S), f, S)
    BY <1>1
  <2> HIDE DEF G
  <2> QED
    BY <2>1, AddsStep
<1>3. G(S)[S \ {Pick(S)}] = G(S \ {Pick(S)})[S \ {Pick(S)}]
  <2>1. IsFiniteSet(S \ {Pick(S)})
    BY FS_RemoveElement
  <2>2. Adds(G(S), f, S) /\ Adds(G(S \ {Pick(S)}), f, S \ {Pick(S)})
    BY <1>1, <2>1
  <2> HIDE DEF G
  <2> QED
    BY <2>2, AddsUnique
<1> QED
  BY <1>2, <1>3, SumIsChosen

-----------------------------------------------------------------------------
(* What sums are                                                           *)

LEMMA SumEmpty == ASSUME NEW f PROVE SumFunctionOnSet(f, {}) = 0
BY SumRecursion, FS_EmptySet

\* A sum of numbers is a number of their kind.
LEMMA SumType ==
  ASSUME NEW f, NEW S, IsFiniteSet(S), NEW Kind, 0 \in Kind,
         \A m, n \in Kind : m + n \in Kind,
         \A x \in S : f[x] \in Kind
  PROVE  SumFunctionOnSet(f, S) \in Kind
<1> DEFINE Bad == {T \in SUBSET S : SumFunctionOnSet(f, T) \notin Kind}
<1> SUFFICES ASSUME S \in Bad PROVE FALSE
  OBVIOUS
<1>1. PICK T \in Bad : \A U \in SUBSET T : U # T => U \notin Bad
  <2>1. Bad \subseteq SUBSET S /\ Bad # {}
    OBVIOUS
  <2> HIDE DEF Bad
  <2> QED
    BY <2>1, SmallestSet
<1>2. IsFiniteSet(T)
  BY FS_Subset
<1>3. T # {}
  BY SumEmpty
<1>4. Pick(T) \in T
  BY <1>3, PickIn
<1>5. SumFunctionOnSet(f, T \ {Pick(T)}) \in Kind
  BY <1>1, <1>4
<1> QED
  BY <1>2, <1>3, <1>4, <1>5, SumRecursion

LEMMA SumInt ==
  ASSUME NEW f, NEW S, IsFiniteSet(S), \A x \in S : f[x] \in Int
  PROVE  SumFunctionOnSet(f, S) \in Int
<1>1. 0 \in Int /\ \A m, n \in Int : m + n \in Int
  OBVIOUS
<1> QED
  BY <1>1, SumType

LEMMA SumNat ==
  ASSUME NEW f, NEW S, IsFiniteSet(S), \A x \in S : f[x] \in Nat
  PROVE  SumFunctionOnSet(f, S) \in Nat
<1>1. 0 \in Nat /\ \A m, n \in Nat : m + n \in Nat
  OBVIOUS
<1> QED
  BY <1>1, SumType

\* Whichever element is taken away first, the sum is the same.
LEMMA SumRemove ==
  ASSUME NEW f, NEW S, IsFiniteSet(S), \A x \in S : f[x] \in Int, NEW x \in S
  PROVE  SumFunctionOnSet(f, S) = f[x] + SumFunctionOnSet(f, S \ {x})
<1> DEFINE Same(T, y) == SumFunctionOnSet(f, T) = f[y] + SumFunctionOnSet(f, T \ {y})
           Bad == {T \in SUBSET S : \E y \in T : ~Same(T, y)}
<1> SUFFICES ASSUME S \in Bad PROVE FALSE
  OBVIOUS
<1>1. PICK T \in Bad : \A U \in SUBSET T : U # T => U \notin Bad
  <2>1. Bad \subseteq SUBSET S /\ Bad # {}
    OBVIOUS
  <2> HIDE DEF Bad
  <2> QED
    BY <2>1, SmallestSet
<1>2. PICK y \in T : ~Same(T, y)
  OBVIOUS
<1> DEFINE p == Pick(T)
<1>3. p \in T
  BY <1>2, PickIn
<1>4. IsFiniteSet(T)
  BY FS_Subset
<1>5. Same(T, p)
  BY <1>2, <1>4, SumRecursion
<1>6. y # p
  BY <1>2, <1>5
<1>7. Same(T \ {p}, y) /\ Same(T \ {y}, p)
  <2>1. /\ T \ {p} \in SUBSET T /\ T \ {p} # T
        /\ T \ {y} \in SUBSET T /\ T \ {y} # T
    BY <1>3
  <2>2. T \ {p} \notin Bad /\ T \ {y} \notin Bad
    BY <1>1, <2>1
  <2>3. y \in T \ {p} /\ p \in T \ {y}
    BY <1>3, <1>6
  <2> HIDE DEF Same, p
  <2> QED
    BY <2>1, <2>2, <2>3
<1>8. (T \ {p}) \ {y} = (T \ {y}) \ {p}
  OBVIOUS
<1>9. /\ f[p] \in Int /\ f[y] \in Int
      /\ SumFunctionOnSet(f, (T \ {y}) \ {p}) \in Int
  <2>1. IsFiniteSet((T \ {y}) \ {p})
    BY <1>4, FS_RemoveElement
  <2> QED
    BY <1>3, <2>1, SumInt
<1>10. SumFunctionOnSet(f, T) = f[y] + SumFunctionOnSet(f, T \ {y})
  <2> HIDE DEF p
  <2> DEFINE both == SumFunctionOnSet(f, (T \ {y}) \ {p})
  <2>1. SumFunctionOnSet(f, (T \ {p}) \ {y}) = both
    BY <1>8
  <2>2. /\ SumFunctionOnSet(f, T) = f[p] + SumFunctionOnSet(f, T \ {p})
        /\ SumFunctionOnSet(f, T \ {p}) = f[y] + both
        /\ SumFunctionOnSet(f, T \ {y}) = f[p] + both
    BY <1>5, <1>7, <2>1
  <2>3. f[p] \in Int /\ f[y] \in Int /\ both \in Int
    BY <1>9
  <2> HIDE DEF both
  <2> QED
    BY <2>2, <2>3
<1> QED
  BY <1>2, <1>10

\* One more element.
LEMMA SumAdd ==
  ASSUME NEW f, NEW S, IsFiniteSet(S), NEW x, x \notin S, \A y \in S \cup {x} : f[y] \in Int
  PROVE  SumFunctionOnSet(f, S \cup {x}) = f[x] + SumFunctionOnSet(f, S)
<1>1. IsFiniteSet(S \cup {x})
  BY FS_AddElement
<1>2. (S \cup {x}) \ {x} = S
  OBVIOUS
<1> QED
  BY <1>1, <1>2, SumRemove

\* Greater summands, a greater sum.
LEMMA SumMonotone ==
  ASSUME NEW f, NEW g, NEW S, IsFiniteSet(S),
         \A x \in S : f[x] \in Int /\ g[x] \in Int /\ f[x] <= g[x]
  PROVE  SumFunctionOnSet(f, S) <= SumFunctionOnSet(g, S)
<1> DEFINE Bad == {T \in SUBSET S : ~(SumFunctionOnSet(f, T) <= SumFunctionOnSet(g, T))}
<1> SUFFICES ASSUME S \in Bad PROVE FALSE
  OBVIOUS
<1>1. PICK T \in Bad : \A U \in SUBSET T : U # T => U \notin Bad
  <2>1. Bad \subseteq SUBSET S /\ Bad # {}
    OBVIOUS
  <2> HIDE DEF Bad
  <2> QED
    BY <2>1, SmallestSet
<1>2. IsFiniteSet(T)
  BY FS_Subset
<1>3. T # {}
  BY SumEmpty
<1>4. Pick(T) \in T /\ f[Pick(T)] <= g[Pick(T)] /\ f[Pick(T)] \in Int /\ g[Pick(T)] \in Int
  BY <1>3, PickIn
<1>5. IsFiniteSet(T \ {Pick(T)})
  BY <1>2, FS_RemoveElement
<1>6. SumFunctionOnSet(f, T \ {Pick(T)}) <= SumFunctionOnSet(g, T \ {Pick(T)})
  BY <1>1, <1>4
<1>7. SumFunctionOnSet(f, T \ {Pick(T)}) \in Int /\ SumFunctionOnSet(g, T \ {Pick(T)}) \in Int
  BY <1>5, SumInt
<1> QED
  BY <1>2, <1>3, <1>4, <1>6, <1>7, SumRecursion

\* The sum of two functions' values is the sum of their sums.
LEMMA SumPlus ==
  ASSUME NEW f, NEW g, NEW h, NEW S, IsFiniteSet(S),
         \A x \in S : f[x] \in Int /\ g[x] \in Int /\ h[x] = f[x] + g[x]
  PROVE  SumFunctionOnSet(h, S) = SumFunctionOnSet(f, S) + SumFunctionOnSet(g, S)
<1> DEFINE Bad == {T \in SUBSET S :
                     SumFunctionOnSet(h, T) # SumFunctionOnSet(f, T) + SumFunctionOnSet(g, T)}
<1> SUFFICES ASSUME S \in Bad PROVE FALSE
  OBVIOUS
<1>1. PICK T \in Bad : \A U \in SUBSET T : U # T => U \notin Bad
  <2>1. Bad \subseteq SUBSET S /\ Bad # {}
    OBVIOUS
  <2> HIDE DEF Bad
  <2> QED
    BY <2>1, SmallestSet
<1>2. IsFiniteSet(T)
  BY FS_Subset
<1>3. T # {}
  BY SumEmpty
<1> DEFINE x == Pick(T)
           U == T \ {x}
<1>4. x \in T /\ f[x] \in Int /\ g[x] \in Int /\ h[x] = f[x] + g[x]
  BY <1>3, PickIn
<1>5. IsFiniteSet(U)
  BY <1>2, FS_RemoveElement
<1>6. SumFunctionOnSet(h, U) = SumFunctionOnSet(f, U) + SumFunctionOnSet(g, U)
  BY <1>1, <1>4
<1>7. SumFunctionOnSet(f, U) \in Int /\ SumFunctionOnSet(g, U) \in Int
  BY <1>5, SumInt
<1>8. /\ SumFunctionOnSet(f, T) = f[x] + SumFunctionOnSet(f, U)
      /\ SumFunctionOnSet(g, T) = g[x] + SumFunctionOnSet(g, U)
      /\ SumFunctionOnSet(h, T) = h[x] + SumFunctionOnSet(h, U)
  BY <1>2, <1>3, SumRecursion
<1> HIDE DEF x, U
<1> QED
  BY <1>4, <1>6, <1>7, <1>8

LEMMA SumEqual ==
  ASSUME NEW f, NEW g, NEW S, IsFiniteSet(S), \A x \in S : f[x] \in Int /\ g[x] = f[x]
  PROVE  SumFunctionOnSet(g, S) = SumFunctionOnSet(f, S)
<1>1. SumFunctionOnSet(f, S) \in Int /\ SumFunctionOnSet(g, S) \in Int
  BY SumInt
<1>2. SumFunctionOnSet(f, S) <= SumFunctionOnSet(g, S)
  BY SumMonotone
<1>3. SumFunctionOnSet(g, S) <= SumFunctionOnSet(f, S)
  BY SumMonotone
<1> QED
  BY <1>1, <1>2, <1>3

\* One summand changes.
LEMMA SumUpdate ==
  ASSUME NEW f, NEW g, NEW S, IsFiniteSet(S), NEW x \in S,
         \A y \in S : f[y] \in Int /\ g[y] \in Int,
         \A y \in S \ {x} : g[y] = f[y]
  PROVE  SumFunctionOnSet(g, S) = SumFunctionOnSet(f, S) - f[x] + g[x]
<1>1. IsFiniteSet(S \ {x})
  BY FS_RemoveElement
<1>2. SumFunctionOnSet(g, S \ {x}) = SumFunctionOnSet(f, S \ {x})
  BY <1>1, SumEqual
<1>3. SumFunctionOnSet(f, S \ {x}) \in Int
  BY <1>1, SumInt
<1>4. SumFunctionOnSet(f, S) = f[x] + SumFunctionOnSet(f, S \ {x})
  BY SumRemove
<1>5. SumFunctionOnSet(g, S) = g[x] + SumFunctionOnSet(g, S \ {x})
  BY SumRemove
<1> QED
  BY <1>2, <1>3, <1>4, <1>5

\* The sum over a part is the sum over the whole of what the part adds.
LEMMA SumPart ==
  ASSUME NEW f, NEW S, IsFiniteSet(S), NEW P \in SUBSET S, \A x \in P : f[x] \in Int
  PROVE  SumFunctionOnSet(f, P) = SumFunctionOnSet([x \in S |-> IF x \in P THEN f[x] ELSE 0], S)
<1> DEFINE Of(T) == [x \in S |-> IF x \in T THEN f[x] ELSE 0]
           Same(T) == SumFunctionOnSet(f, T) = SumFunctionOnSet(Of(T), S)
           Bad == {T \in SUBSET P : ~Same(T)}
<1> SUFFICES ASSUME P \in Bad PROVE FALSE
  OBVIOUS
<1>1. PICK T \in Bad : \A U \in SUBSET T : U # T => U \notin Bad
  <2>1. IsFiniteSet(P) /\ Bad \subseteq SUBSET P /\ Bad # {}
    BY FS_Subset
  <2> HIDE DEF Bad
  <2> QED
    BY <2>1, SmallestSet
<1>2. CASE T = {}
  <2>1. \A x \in S : Of(T)[x] = 0
    BY <1>2
  <2>2. SumFunctionOnSet(Of(T), S) = 0
    <3>1. 0 \in {0} /\ \A m, n \in {0} : m + n \in {0}
      OBVIOUS
    <3>2. SumFunctionOnSet(Of(T), S) \in {0}
      <4> HIDE DEF Of
      <4> QED
        BY <2>1, <3>1, SumType
    <3> QED
      BY <3>2
  <2> HIDE DEF Of
  <2> QED
    BY <1>2, <2>2, SumEmpty
<1>3. CASE T # {}
  <2>1. PICK x \in T : TRUE
    BY <1>3
  <2> DEFINE U == T \ {x}
  <2>2. x \in S /\ U \in SUBSET P /\ U # T /\ U \in SUBSET T
    OBVIOUS
  <2>3. SumFunctionOnSet(f, U) = SumFunctionOnSet(Of(U), S)
    BY <1>1, <2>2
  <2>4. IsFiniteSet(T) /\ \A y \in T : f[y] \in Int
    BY FS_Subset
  <2>5. SumFunctionOnSet(f, T) = f[x] + SumFunctionOnSet(f, U)
    BY <2>4, SumRemove
  <2>6. /\ \A y \in S : Of(U)[y] \in Int /\ Of(T)[y] \in Int
        /\ \A y \in S \ {x} : Of(T)[y] = Of(U)[y]
        /\ Of(U)[x] = 0 /\ Of(T)[x] = f[x]
    BY <2>2, <2>4
  <2>7. SumFunctionOnSet(Of(T), S) = SumFunctionOnSet(Of(U), S) - 0 + f[x]
    <3> HIDE DEF Of, U
    <3> QED
      BY <2>2, <2>6, SumUpdate
  <2>8. SumFunctionOnSet(Of(U), S) \in Int /\ f[x] \in Int
    <3>1. SumFunctionOnSet(Of(U), S) \in Int
      <4> HIDE DEF Of, U
      <4> QED
        BY <2>6, SumInt
    <3> QED
      BY <3>1, <2>4
  <2>9. Same(T)
    <3> HIDE DEF Of, U
    <3> QED
      BY <2>3, <2>5, <2>7, <2>8
  <2> QED
    BY <2>9
<1> QED
  BY <1>2, <1>3
==============================================================================
