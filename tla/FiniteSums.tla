------------------------------ MODULE FiniteSums ------------------------------
(***************************************************************************)
(* What SumFunction of the community modules is, for a function with a     *)
(* finite domain and integer values.  SumFunction adds the values up in    *)
(* the order in which CHOOSE picks the arguments, by a recursive function  *)
(* on the subsets of the domain: that this function exists, and that the   *)
(* order does not matter, is shown from the smallest subset for which it   *)
(* would not be so.                                                        *)
(***************************************************************************)
EXTENDS Functions, FiniteSetTheorems, TLAPS

(* A non-empty collection of subsets of a finite set has a smallest one.   *)
LEMMA SmallestSubset ==
  ASSUME NEW S, IsFiniteSet(S), NEW B, B \subseteq SUBSET S, B # {}
  PROVE  \E T \in B : \A U \in B : U \subseteq T => U = T
<1>1. IsWellFoundedOn(StrictSubsetOrdering(S), SUBSET S)
  BY FS_FiniteSubsetsOfFinite, FS_StrictSubsetOrderingWellFounded, Zenon
<1>2. PICK T \in B : \A U \in B : ~(<<U, T>> \in StrictSubsetOrdering(S))
  BY <1>1, WFMin, Zenon
<1>3. ASSUME NEW U \in B, U \subseteq T PROVE U = T
  BY <1>2, <1>3 DEF StrictSubsetOrdering
<1> QED BY <1>3

----------------------------------------------------------------------------
(* The recursive function.                                                 *)

Pick(s) == CHOOSE x \in s : TRUE

(* g gives the sum of f over every subset of S, by the recursion.          *)
Adds(f, S, g) ==
  g = [s \in SUBSET S |-> IF s = {} THEN 0 ELSE f[Pick(s)] + g[s \ {Pick(s)}]]

LEMMA AddsStep ==
  ASSUME NEW f, NEW S, NEW g, Adds(f, S, g), NEW s \in SUBSET S
  PROVE  /\ s = {} => g[s] = 0
         /\ s # {} => Pick(s) \in s /\ g[s] = f[Pick(s)] + g[s \ {Pick(s)}]
BY DEF Adds, Pick

(* The sums of one function on one set and those of another on another     *)
(* agree wherever the functions do.                                        *)
LEMMA AddsAgree ==
  ASSUME NEW f, NEW S, NEW g, Adds(f, S, g), NEW h, NEW R, NEW k, Adds(h, R, k),
         NEW s, IsFiniteSet(s), s \subseteq S, s \subseteq R, \A x \in s : f[x] = h[x]
  PROVE  g[s] = k[s]
<1> DEFINE B == {u \in SUBSET s : g[u] # k[u]}
<1> SUFFICES ASSUME B # {} PROVE FALSE
  OBVIOUS
<1>1. PICK t \in B : \A u \in B : u \subseteq t => u = t
  <2> HIDE DEF B
  <2>1. B \subseteq SUBSET s
    BY DEF B
  <2> QED BY <2>1, SmallestSubset
<1>2. t # {}
  BY AddsStep
<1>3. Pick(t) \in t /\ t \ {Pick(t)} # t /\ t \ {Pick(t)} \subseteq t
  BY <1>2, AddsStep
<1>4. g[t \ {Pick(t)}] = k[t \ {Pick(t)}]
  BY <1>1, <1>3
<1>5. g[t] = f[Pick(t)] + g[t \ {Pick(t)}] /\ k[t] = h[Pick(t)] + k[t \ {Pick(t)}]
  BY <1>2, AddsStep
<1> QED BY <1>3, <1>4, <1>5

(* It exists: the sum over s is put together from the functions for the    *)
(* smaller sets, which agree.                                              *)
LEMMA AddsExist ==
  ASSUME NEW f, NEW S, IsFiniteSet(S)
  PROVE  \E g : Adds(f, S, g)
<1> DEFINE B == {u \in SUBSET S : ~ \E g : Adds(f, u, g)}
<1> SUFFICES ASSUME B # {} PROVE FALSE
  BY Zenon
<1>1. PICK t \in B : \A u \in B : u \subseteq t => u = t
  <2> HIDE DEF B
  <2>1. B \subseteq SUBSET S
    BY DEF B
  <2> QED BY <2>1, SmallestSubset
<1> DEFINE Own(u) == CHOOSE g : Adds(f, u, g)
           Rest(s) == s \ {Pick(s)}
           g == [s \in SUBSET t |-> IF s = {} THEN 0 ELSE f[Pick(s)] + Own(Rest(s))[Rest(s)]]
<1>2. ASSUME NEW u \in SUBSET t, u # t PROVE Adds(f, u, Own(u))
  <2>1. u \notin B
    BY <1>1, <1>2
  <2>2. \E k : Adds(f, u, k)
    BY <1>1, <2>1
  <2> QED BY <2>2
<1>3. ASSUME NEW s \in SUBSET t, s # {} PROVE Pick(s) \in s /\ Rest(s) \in SUBSET t /\ Rest(s) # t
  BY <1>3 DEF Pick
<1>4. ASSUME NEW u \in SUBSET t, u # t PROVE g[u] = Own(u)[u]
  <2>1. Adds(f, u, Own(u))
    BY <1>2, <1>4
  <2>2. CASE u = {}
    BY <2>1, <2>2, AddsStep
  <2>3. CASE u # {}
    <3>1. Rest(u) \in SUBSET t /\ Rest(u) # t /\ Rest(u) \subseteq u /\ IsFiniteSet(Rest(u))
      BY <1>1, <1>3, <2>3, FS_Subset
    <3>2. Adds(f, Rest(u), Own(Rest(u)))
      BY <1>2, <3>1
    <3>3. Own(Rest(u))[Rest(u)] = Own(u)[Rest(u)]
      <4> HIDE DEF Own, Rest
      <4> QED BY <2>1, <3>1, <3>2, AddsAgree
    <3>4. Own(u)[u] = f[Pick(u)] + Own(u)[Rest(u)]
      <4> HIDE DEF Own
      <4> QED BY <2>1, <2>3, AddsStep
    <3> QED BY <2>3, <3>3, <3>4
  <2> QED BY <2>2, <2>3
<1>5. ASSUME NEW s \in SUBSET t, s # {} PROVE g[s] = f[Pick(s)] + g[Rest(s)]
  <2>1. g[Rest(s)] = Own(Rest(s))[Rest(s)]
    BY <1>3, <1>4, <1>5
  <2> QED BY <1>5, <2>1
<1>6. g = [s \in SUBSET t |-> IF s = {} THEN 0 ELSE f[Pick(s)] + g[Rest(s)]]
  <2>1. ASSUME NEW s \in SUBSET t PROVE g[s] = IF s = {} THEN 0 ELSE f[Pick(s)] + g[Rest(s)]
    <3>1. CASE s = {}
      BY <3>1
    <3>2. CASE s # {}
      <4> HIDE DEF g, Rest
      <4> QED BY <1>5, <3>2
    <3> QED BY <3>1, <3>2
  <2>2. DOMAIN g = SUBSET t /\ g = [s \in SUBSET t |-> g[s]]
    OBVIOUS
  <2> HIDE DEF g, Rest
  <2> QED BY <2>1, <2>2
<1>7. Adds(f, t, g)
  BY <1>6 DEF Adds
<1> QED BY <1>1, <1>7

(* With integers, any element may be the one that is taken out.            *)
LEMMA AddsAnyOrder ==
  ASSUME NEW S, IsFiniteSet(S), NEW f \in [S -> Int], NEW g, Adds(f, S, g), NEW s \in SUBSET S
  PROVE  g[s] \in Int /\ \A d \in s : g[s] = f[d] + g[s \ {d}]
<1> DEFINE Good(u) == g[u] \in Int /\ \A d \in u : g[u] = f[d] + g[u \ {d}]
           B == {u \in SUBSET S : ~Good(u)}
<1> SUFFICES ASSUME B # {} PROVE FALSE
  OBVIOUS
<1>1. PICK t \in B : \A u \in B : u \subseteq t => u = t
  <2> HIDE DEF B
  <2>1. B \subseteq SUBSET S
    BY DEF B
  <2> QED BY <2>1, SmallestSubset
<1>2. \A u \in SUBSET t : u # t => Good(u)
  BY <1>1
<1>3. t # {}
  <2>1. g[{}] = 0
    BY DEF Adds
  <2>2. Good({})
    BY <2>1
  <2> QED BY <1>1, <2>2
<1> DEFINE x == Pick(t)
<1>4. x \in t /\ g[t] = f[x] + g[t \ {x}]
  BY <1>3, AddsStep
<1>5. Good(t \ {x}) /\ f[x] \in Int
  BY <1>2, <1>4
<1>6. ASSUME NEW d \in t PROVE g[t] = f[d] + g[t \ {d}]
  <2>1. CASE d = x
    BY <1>4, <2>1
  <2>2. CASE d # x
    <3>1. g[t \ {x}] = f[d] + g[(t \ {x}) \ {d}]
      BY <1>5, <2>2
    <3>2. Good(t \ {d})
      BY <1>2
    <3>3. g[t \ {d}] = f[x] + g[(t \ {d}) \ {x}]
      BY <1>4, <2>2, <3>2
    <3>4. (t \ {x}) \ {d} = (t \ {d}) \ {x}
      OBVIOUS
    <3>5. g[(t \ {x}) \ {d}] \in Int
      <4>1. Good((t \ {x}) \ {d})
        BY <1>2, <1>4
      <4> QED BY <4>1
    <3>6. f[d] \in Int /\ f[x] \in Int
      BY <1>1, <1>5
    <3>7. g[t] = f[x] + (f[d] + g[(t \ {x}) \ {d}])
      BY <1>4, <3>1
    <3>8. f[d] + g[t \ {d}] = f[d] + (f[x] + g[(t \ {x}) \ {d}])
      BY <3>3, <3>4
    <3> HIDE DEF x
    <3> QED BY <3>5, <3>6, <3>7, <3>8
  <2> QED BY <2>1, <2>2
<1>7. g[t] \in Int
  BY <1>4, <1>5
<1> QED BY <1>1, <1>6, <1>7

----------------------------------------------------------------------------
(* SumFunction.                                                            *)

LEMMA SumAdds ==
  ASSUME NEW f, IsFiniteSet(DOMAIN f)
  PROVE  \E g : Adds(f, DOMAIN f, g) /\ SumFunction(f) = g[DOMAIN f]
<1>1. SumFunction(f) = (CHOOSE g : Adds(f, DOMAIN f, g))[DOMAIN f]
  BY DEF SumFunction, SumFunctionOnSet, FoldFunctionOnSet, MapThenFoldSet, Adds, Pick
<1>2. Adds(f, DOMAIN f, CHOOSE g : Adds(f, DOMAIN f, g))
  BY AddsExist
<1> QED BY <1>1, <1>2

(* A sum of integers is an integer.                                        *)
LEMMA SumType ==
  ASSUME NEW S, IsFiniteSet(S), NEW f \in [S -> Int]
  PROVE  SumFunction(f) \in Int
<1>1. PICK g : Adds(f, S, g) /\ SumFunction(f) = g[S]
  BY SumAdds
<1> QED BY <1>1, AddsAnyOrder

(* The sum of zeros.                                                       *)
LEMMA SumZero ==
  ASSUME NEW S, IsFiniteSet(S)
  PROVE  SumFunction([x \in S |-> 0]) = 0
<1> DEFINE f == [x \in S |-> 0]
           k == [s \in SUBSET S |-> 0]
<1>1. PICK g : Adds(f, S, g) /\ SumFunction(f) = g[S]
  BY SumAdds
<1>2. ASSUME NEW s \in SUBSET S, s # {} PROVE f[Pick(s)] = 0
  BY <1>2 DEF Pick
<1>3. k = [s \in SUBSET S |-> IF s = {} THEN 0 ELSE f[Pick(s)] + k[s \ {Pick(s)}]]
  BY <1>2
<1>4. Adds(f, S, k)
  BY <1>3 DEF Adds
<1>5. g[S] = k[S]
  <2> HIDE DEF f, k
  <2> QED BY <1>1, <1>4, AddsAgree
<1> QED BY <1>1, <1>5

(* If one value changes, the sum changes by as much.                       *)
LEMMA SumChange ==
  ASSUME NEW S, IsFiniteSet(S), NEW f \in [S -> Int], NEW h \in [S -> Int],
         NEW d \in S, \A x \in S \ {d} : h[x] = f[x]
  PROVE  SumFunction(h) = SumFunction(f) + h[d] - f[d]
<1>1. PICK g : Adds(f, S, g) /\ SumFunction(f) = g[S]
  BY SumAdds
<1>2. PICK k : Adds(h, S, k) /\ SumFunction(h) = k[S]
  BY SumAdds
<1>3. IsFiniteSet(S \ {d})
  BY FS_RemoveElement
<1>4. g[S \ {d}] = k[S \ {d}]
  BY <1>1, <1>2, <1>3, AddsAgree
<1>5. g[S] = f[d] + g[S \ {d}] /\ g[S \ {d}] \in Int
  BY <1>1, AddsAnyOrder
<1>6. k[S] = h[d] + k[S \ {d}]
  BY <1>2, AddsAnyOrder
<1> QED BY <1>1, <1>2, <1>4, <1>5, <1>6

(* What one argument loses and another, or the same, gains, leaves the sum *)
(* as it is.                                                               *)
LEMMA SumMove ==
  ASSUME NEW S, IsFiniteSet(S), NEW f \in [S -> Int], NEW h \in [S -> Int],
         NEW b \in S, NEW c \in S, NEW n \in Int,
         \A x \in S \ {b, c} : h[x] = f[x],
         b # c => h[b] = f[b] - n /\ h[c] = f[c] + n,
         b = c => h[c] = f[c]
  PROVE  SumFunction(h) = SumFunction(f)
<1> DEFINE m == [f EXCEPT ![b] = @ - n]
<1>1. /\ m \in [S -> Int] /\ m[b] = f[b] - n /\ f[b] \in Int /\ m[c] \in Int
      /\ \A x \in S \ {b} : m[x] = f[x]
  OBVIOUS
<1>2. \A x \in S \ {c} : h[x] = m[x]
  OBVIOUS
<1>3. h[c] = m[c] + n
  BY <1>1
<1> HIDE DEF m
<1>4. SumFunction(m) = SumFunction(f) + m[b] - f[b]
  BY <1>1, SumChange
<1>5. SumFunction(h) = SumFunction(m) + h[c] - m[c]
  BY <1>1, <1>2, SumChange
<1>6. SumFunction(f) \in Int
  BY SumType
<1>7. SumFunction(m) = SumFunction(f) - n
  BY <1>1, <1>4, <1>6
<1> QED BY <1>1, <1>3, <1>5, <1>6, <1>7
=============================================================================
