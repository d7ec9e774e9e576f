---------------------------- MODULE LimitsProofs ----------------------------
(***************************************************************************)
(* What the quota pool and the sign-in throttle promise about sums: a      *)
(* rebalance gives away exactly its total, and overlapping sign-ins fail   *)
(* no more often than their bound, for any number of allocations,          *)
(* rebalances, identifiers, sources and sign-ins.                          *)
(*                                                                         *)
(* The first part is about sums over finite sets.  Each is proved by the   *)
(* least subset that would refute it: taking one element away leaves a     *)
(* subset that does not.  The second part is about QuotaPool.  The third   *)
(* is about an instance of SignInThrottle, with names of its own for what  *)
(* both modules declare; the instance's assumptions on its constants are   *)
(* the hypothesis Configured of each theorem.                              *)
(***************************************************************************)
EXTENDS QuotaPool, FiniteSetTheorems, TLAPS

CONSTANTS Emails, Ips, Disabled, SignIns, Threshold, IpThreshold, Window, Lock
VARIABLES fails, emailLock, ipLock, allowed, sign, blamed

\* The sign-ins beside the pool: SignIns are its requests, sign their rows.
Throttle == INSTANCE SignInThrottle WITH Reqs <- SignIns, txn <- sign

\* The element a fold takes first, and the function it builds.
One(s) == CHOOSE x \in s : TRUE
Adds(g, f, S) == g = [s \in SUBSET S |-> IF s = {} THEN 0 ELSE f[One(s)] + g[s \ {One(s)}]]

\* The library's sum over a set (SumFunctionOnSet, the SUM of _assert_conservation
\* and _count_since), by the function that folds it.
LEMMA SumUnfolds ==
    ASSUME NEW f, NEW S
    PROVE  SumFunctionOnSet(f, S) = (CHOOSE g : Adds(g, f, S))[S]
BY DEF SumFunctionOnSet, FoldFunctionOnSet, MapThenFoldSet, Adds, One

\* The element a fold takes first is one of the set.
LEMMA OneIn ==
    ASSUME NEW s, s # {}
    PROVE  One(s) \in s
BY DEF One

\* Among subsets of a finite set some are least: a claim about a sum that some
\* subset refutes is refuted by one no smaller subset refutes.
LEMMA LeastSubset ==
    ASSUME NEW S, IsFiniteSet(S), NEW B, B \subseteq SUBSET S, B # {}
    PROVE  \E T \in B : \A U \in B : ~ (U \subseteq T /\ U # T)
<1>1. IsWellFoundedOn(StrictSubsetOrdering(S), FiniteSubsetsOf(S))
  BY FS_StrictSubsetOrderingWellFounded
<1>2. FiniteSubsetsOf(S) = SUBSET S
  BY FS_FiniteSubsetsOfFinite
<1>3. B \subseteq FiniteSubsetsOf(S)
  BY <1>2
<1>4. PICK T \in B : \A U \in B : ~ (<<U, T>> \in StrictSubsetOrdering(S))
  <2> HIDE DEF FiniteSubsetsOf, StrictSubsetOrdering
  <2> QED BY <1>1, <1>3, WFMin
<1>5. \A U \in B : U \subseteq T /\ U # T => <<U, T>> \in StrictSubsetOrdering(S)
  BY DEF StrictSubsetOrdering
<1>6. \A U \in B : ~ (U \subseteq T /\ U # T)
  BY <1>4, <1>5
<1> QED BY <1>6

\* The function that folds a sum does not depend on the set it is for.
LEMMA AddsAlike ==
    ASSUME NEW f, NEW S, NEW T, IsFiniteSet(S), NEW g, NEW h,
           Adds(g, f, S), Adds(h, f, T), NEW s \in SUBSET (S \cap T)
    PROVE  g[s] = h[s]
<1> DEFINE B == {t \in SUBSET (S \cap T) : g[t] # h[t]}
<1> SUFFICES ASSUME B # {} PROVE FALSE
  OBVIOUS
<1>1. IsFiniteSet(S \cap T)
  BY FS_Intersection
<1>2. PICK t \in B : \A u \in B : ~ (u \subseteq t /\ u # t)
  <2>1. B \subseteq SUBSET (S \cap T)
    OBVIOUS
  <2> HIDE DEF B
  <2> QED BY <1>1, <2>1, LeastSubset
<1> DEFINE x == One(t)
<1>3. t \in SUBSET S /\ t \in SUBSET T /\ g[t] # h[t]
  OBVIOUS
<1>4. CASE t = {}
  BY <1>3, <1>4 DEF Adds
<1>5. CASE t # {}
  <2>1. x \in t
    BY <1>5, OneIn
  <2> HIDE DEF x
  <2>2. t \ {x} \in SUBSET (S \cap T) /\ t \ {x} # t /\ t \ {x} \subseteq t
    BY <2>1
  <2>3. g[t \ {x}] = h[t \ {x}]
    BY <1>2, <2>2
  <2>4. g[t] = f[x] + g[t \ {x}]
    BY <1>3, <1>5 DEF Adds, x
  <2>5. h[t] = f[x] + h[t \ {x}]
    BY <1>3, <1>5 DEF Adds, x
  <2> QED BY <1>3, <2>3, <2>4, <2>5
<1> QED BY <1>4, <1>5

Adder(f, S) == CHOOSE g : Adds(g, f, S)

\* The function that folds a sum exists, and adds one element at a time.
LEMMA AdderAdds ==
    ASSUME NEW f, NEW S, IsFiniteSet(S)
    PROVE  Adds(Adder(f, S), f, S)
<1> DEFINE B == {T \in SUBSET S : ~ Adds(Adder(f, T), f, T)}
<1> SUFFICES ASSUME B # {} PROVE FALSE
  OBVIOUS
<1>1. PICK T \in B : \A U \in B : ~ (U \subseteq T /\ U # T)
  <2>1. B \subseteq SUBSET S
    OBVIOUS
  <2> HIDE DEF B
  <2> QED BY <2>1, LeastSubset
<1>2. ASSUME NEW U \in SUBSET T, U # T
      PROVE  Adds(Adder(f, U), f, U)
  BY <1>1, <1>2
<1>3. \A U \in SUBSET T : IsFiniteSet(U)
  BY FS_Subset
<1> DEFINE sum(U) == Adder(f, U)[U]
           rest(s) == s \ {One(s)}
           h == [s \in SUBSET T |-> IF s = {} THEN 0 ELSE
                    f[One(s)] + (IF rest(s) = {} THEN 0 ELSE sum(rest(s)))]
<1>4. ASSUME NEW s \in SUBSET T, s # {}
      PROVE  rest(s) \in SUBSET T /\ rest(s) # T /\ rest(s) # s /\ rest(s) \subseteq s
  BY <1>4, OneIn
<1>5. ASSUME NEW U \in SUBSET T, U # T, U # {}
      PROVE  sum(U) = f[One(U)] + (IF rest(U) = {} THEN 0 ELSE sum(rest(U)))
  <2> DEFINE R == rest(U)
  <2>1. Adds(Adder(f, U), f, U) /\ Adds(Adder(f, R), f, R)
    BY <1>2, <1>4, <1>5
  <2>2. R \in SUBSET U /\ IsFiniteSet(U)
    BY <1>3, <1>4, <1>5
  <2>3. sum(U) = f[One(U)] + Adder(f, U)[R]
    BY <2>1, <1>5 DEF Adds
  <2>4. R = {} => Adder(f, U)[R] = 0
    BY <2>1 DEF Adds
  <2>5. Adder(f, U)[R] = Adder(f, R)[R]
    <3>1. R \in SUBSET (U \cap R)
      BY <2>2
    <3> HIDE DEF R
    <3> QED BY <2>1, <2>2, <3>1, AddsAlike
  <2> QED BY <2>3, <2>4, <2>5
<1>6. Adds(h, f, T)
  <2>1. ASSUME NEW s \in SUBSET T, s # {}
        PROVE  h[rest(s)] = IF rest(s) = {} THEN 0 ELSE sum(rest(s))
    <3> DEFINE R == rest(s)
    <3>1. R \in SUBSET T /\ R # T
      BY <1>4, <2>1
    <3>2. CASE R = {}
      BY <3>1, <3>2
    <3>3. CASE R # {}
      <4>1. h[R] = f[One(R)] + (IF rest(R) = {} THEN 0 ELSE sum(rest(R)))
        BY <3>1, <3>3
      <4> QED BY <4>1, <3>1, <3>3, <1>5
    <3> QED BY <3>2, <3>3
  <2> DEFINE b(s) == IF s = {} THEN 0 ELSE f[One(s)] + h[s \ {One(s)}]
  <2>2. ASSUME NEW s \in SUBSET T
        PROVE  h[s] = b(s)
    BY <2>1
  <2>3. h = [s \in SUBSET T |-> h[s]]
    OBVIOUS
  <2> HIDE DEF h
  <2>4. h = [s \in SUBSET T |-> b(s)]
    BY <2>2, <2>3
  <2> QED BY <2>4 DEF Adds
<1>7. Adds(Adder(f, T), f, T)
  <2> HIDE DEF h
  <2> QED BY <1>6 DEF Adder
<1> QED BY <1>1, <1>7

\* The sum over no row is 0 (func.coalesce of a SUM).
LEMMA SumOfNone == ASSUME NEW f PROVE SumFunctionOnSet(f, {}) = 0
<1>1. Adds(Adder(f, {}), f, {})
  BY AdderAdds, FS_EmptySet
<1>2. Adder(f, {})[{}] = 0
  BY <1>1 DEF Adds
<1> QED BY <1>2, SumUnfolds DEF Adder

\* A sum is its first element and the sum of the rest.
LEMMA SumFromOne ==
    ASSUME NEW f, NEW S, IsFiniteSet(S), S # {}
    PROVE  SumFunctionOnSet(f, S) = f[One(S)] + SumFunctionOnSet(f, S \ {One(S)})
<1> DEFINE R == S \ {One(S)}
<1>1. IsFiniteSet(R) /\ R \in SUBSET (S \cap R) /\ R \in SUBSET S
  BY FS_RemoveElement
<1>2. Adds(Adder(f, S), f, S) /\ Adds(Adder(f, R), f, R)
  BY <1>1, AdderAdds
<1>3. Adder(f, S)[S] = f[One(S)] + Adder(f, S)[R]
  BY <1>2 DEF Adds
<1>4. Adder(f, S)[R] = Adder(f, R)[R]
  <2> DEFINE g == Adder(f, S)
             h == Adder(f, R)
  <2>1. Adds(g, f, S) /\ Adds(h, f, R) /\ R \in SUBSET (S \cap R)
    BY <1>1, <1>2
  <2> HIDE DEF R, g, h
  <2>2. g[R] = h[R]
    BY <2>1, AddsAlike
  <2> QED BY <2>2 DEF g, h
<1>5. SumFunctionOnSet(f, S) = Adder(f, S)[S] /\ SumFunctionOnSet(f, R) = Adder(f, R)[R]
  BY SumUnfolds DEF Adder
<1> QED BY <1>3, <1>4, <1>5

\* A sum of tokens, or of failures, is a number, and not below 0.
LEMMA SumIsNat ==
    ASSUME NEW S, IsFiniteSet(S), NEW f, \A x \in S : f[x] \in Nat
    PROVE  SumFunctionOnSet(f, S) \in Nat
<1> DEFINE B == {T \in SUBSET S : SumFunctionOnSet(f, T) \notin Nat}
<1> SUFFICES ASSUME B # {} PROVE FALSE
  BY SMT
<1>1. PICK T \in B : \A U \in B : ~ (U \subseteq T /\ U # T)
  <2>1. B \subseteq SUBSET S
    OBVIOUS
  <2> HIDE DEF B
  <2> QED BY <2>1, LeastSubset
<1>2. T # {}
  BY SumOfNone
<1>3. One(T) \in T /\ IsFiniteSet(T)
  BY <1>2, OneIn, FS_Subset
<1>4. SumFunctionOnSet(f, T \ {One(T)}) \in Nat
  <2>1. T \ {One(T)} \notin B
    BY <1>1, <1>3
  <2> QED BY <2>1
<1>5. SumFunctionOnSet(f, T) = f[One(T)] + SumFunctionOnSet(f, T \ {One(T)})
  BY <1>2, <1>3, SumFromOne
<1>6. f[One(T)] \in Nat
  BY <1>3
<1> QED BY <1>4, <1>5, <1>6

\* A sum of integers is one.
LEMMA SumIsInt ==
    ASSUME NEW S, IsFiniteSet(S), NEW f, \A x \in S : f[x] \in Int
    PROVE  SumFunctionOnSet(f, S) \in Int
<1> DEFINE B == {T \in SUBSET S : SumFunctionOnSet(f, T) \notin Int}
<1> SUFFICES ASSUME B # {} PROVE FALSE
  BY SMT
<1>1. PICK T \in B : \A U \in B : ~ (U \subseteq T /\ U # T)
  <2>1. B \subseteq SUBSET S
    OBVIOUS
  <2> HIDE DEF B
  <2> QED BY <2>1, LeastSubset
<1>2. T # {}
  BY SumOfNone
<1>3. One(T) \in T /\ IsFiniteSet(T)
  BY <1>2, OneIn, FS_Subset
<1>4. SumFunctionOnSet(f, T \ {One(T)}) \in Int
  <2>1. T \ {One(T)} \notin B
    BY <1>1, <1>3
  <2> QED BY <2>1
<1>5. SumFunctionOnSet(f, T) = f[One(T)] + SumFunctionOnSet(f, T \ {One(T)})
  BY <1>2, <1>3, SumFromOne
<1>6. f[One(T)] \in Int
  BY <1>3
<1> QED BY <1>4, <1>5, <1>6

\* The order in which a SUM takes its rows is immaterial.
LEMMA SumFromAny ==
    ASSUME NEW S, IsFiniteSet(S), NEW f, \A x \in S : f[x] \in Int, NEW e \in S
    PROVE  SumFunctionOnSet(f, S) = f[e] + SumFunctionOnSet(f, S \ {e})
<1> DEFINE Off(T) == \E x \in T : SumFunctionOnSet(f, T) # f[x] + SumFunctionOnSet(f, T \ {x})
           B == {T \in SUBSET S : Off(T)}
<1> SUFFICES ASSUME B # {} PROVE FALSE
  <2>1. S \in SUBSET S
    OBVIOUS
  <2> QED BY <2>1
<1>1. PICK T \in B : \A U \in B : ~ (U \subseteq T /\ U # T)
  <2>1. B \subseteq SUBSET S
    OBVIOUS
  <2> HIDE DEF B
  <2> QED BY <2>1, LeastSubset
<1>2. PICK x \in T : SumFunctionOnSet(f, T) # f[x] + SumFunctionOnSet(f, T \ {x})
  OBVIOUS
<1> DEFINE p == One(T)
           P == T \ {p}
           X == T \ {x}
           R == P \ {x}
<1>3. p \in T /\ T \in SUBSET S
  BY <1>2, OneIn
<1>4. IsFiniteSet(T) /\ IsFiniteSet(P) /\ IsFiniteSet(X) /\ IsFiniteSet(R)
  BY <1>3, FS_Subset
<1>5. SumFunctionOnSet(f, T) = f[p] + SumFunctionOnSet(f, P)
  BY <1>3, <1>4, SumFromOne
<1>6. p # x
  BY <1>2, <1>5
<1> HIDE DEF p
<1>7. x \in P /\ p \in X /\ X \ {p} = R /\ P # T /\ X # T /\ P \subseteq T /\ X \subseteq T
  BY <1>2, <1>3, <1>6
<1>8. ~ Off(P) /\ ~ Off(X)
  BY <1>1, <1>3, <1>7
<1>9. SumFunctionOnSet(f, P) = f[x] + SumFunctionOnSet(f, R)
  BY <1>7, <1>8
<1>10. SumFunctionOnSet(f, X) = f[p] + SumFunctionOnSet(f, R)
  BY <1>7, <1>8
<1>11. SumFunctionOnSet(f, R) \in Int
  BY <1>3, <1>4, SumIsInt
<1>12. f[x] \in Int /\ f[p] \in Int
  BY <1>2, <1>3
<1> HIDE DEF X, P, R
<1> QED BY <1>2, <1>5, <1>9, <1>10, <1>11, <1>12 DEF X

\* A sum grows with its terms.
LEMMA SumLeq ==
    ASSUME NEW S, IsFiniteSet(S), NEW f, NEW g,
           \A x \in S : f[x] \in Int /\ g[x] \in Int /\ f[x] <= g[x]
    PROVE  SumFunctionOnSet(f, S) <= SumFunctionOnSet(g, S)
<1> DEFINE Above(T) == ~ (SumFunctionOnSet(f, T) <= SumFunctionOnSet(g, T))
           B == {T \in SUBSET S : Above(T)}
<1> SUFFICES ASSUME B # {} PROVE FALSE
  <2>1. S \in SUBSET S
    OBVIOUS
  <2> QED BY <2>1
<1>1. PICK T \in B : \A U \in B : ~ (U \subseteq T /\ U # T)
  <2>1. B \subseteq SUBSET S
    OBVIOUS
  <2> HIDE DEF B
  <2> QED BY <2>1, LeastSubset
<1>2. T # {}
  <2>1. SumFunctionOnSet(f, {}) = 0 /\ SumFunctionOnSet(g, {}) = 0
    BY SumOfNone
  <2> QED BY <2>1
<1> DEFINE p == One(T)
           R == T \ {p}
<1>3. p \in T /\ T \in SUBSET S
  BY <1>2, OneIn
<1>4. IsFiniteSet(T) /\ IsFiniteSet(R)
  BY <1>3, FS_Subset
<1>5. /\ SumFunctionOnSet(f, T) = f[p] + SumFunctionOnSet(f, R)
      /\ SumFunctionOnSet(g, T) = g[p] + SumFunctionOnSet(g, R)
  BY <1>2, <1>4, SumFromOne
<1> HIDE DEF p
<1>6. ~ Above(R)
  BY <1>1, <1>3
<1>7. SumFunctionOnSet(f, R) \in Int /\ SumFunctionOnSet(g, R) \in Int
  BY <1>3, <1>4, SumIsInt
<1>8. f[p] \in Int /\ g[p] \in Int /\ f[p] <= g[p]
  BY <1>3
<1>9. Above(T)
  BY <1>1
<1> HIDE DEF R
<1> QED BY <1>5, <1>6, <1>7, <1>8, <1>9

\* A sum is that of its terms, whatever else the function has.
LEMMA SumSame ==
    ASSUME NEW S, IsFiniteSet(S), NEW f, NEW g,
           \A x \in S : f[x] \in Int /\ g[x] = f[x]
    PROVE  SumFunctionOnSet(g, S) = SumFunctionOnSet(f, S)
<1>1. SumFunctionOnSet(f, S) <= SumFunctionOnSet(g, S) /\ SumFunctionOnSet(g, S) <= SumFunctionOnSet(f, S)
  BY SumLeq
<1>2. SumFunctionOnSet(f, S) \in Int /\ SumFunctionOnSet(g, S) \in Int
  BY SumIsInt
<1> QED BY <1>1, <1>2

\* One row more or less by d: so is the sum (UpdateRow, record_attempt).
LEMMA SumRaised ==
    ASSUME NEW S, IsFiniteSet(S), NEW f, NEW g, NEW e \in S, NEW d \in Int,
           \A x \in S : f[x] \in Int, g[e] = f[e] + d,
           \A x \in S \ {e} : g[x] = f[x]
    PROVE  SumFunctionOnSet(g, S) = SumFunctionOnSet(f, S) + d
<1> DEFINE R == S \ {e}
<1>1. IsFiniteSet(R)
  BY FS_RemoveElement
<1>2. \A x \in S : g[x] \in Int
  BY SMT
<1>3. SumFunctionOnSet(f, S) = f[e] + SumFunctionOnSet(f, R)
  BY SumFromAny
<1>4. SumFunctionOnSet(g, S) = g[e] + SumFunctionOnSet(g, R)
  BY <1>2, SumFromAny
<1>5. SumFunctionOnSet(g, R) = SumFunctionOnSet(f, R)
  <2>1. \A x \in R : f[x] \in Int /\ g[x] = f[x]
    OBVIOUS
  <2> HIDE DEF R
  <2> QED BY <1>1, <2>1, SumSame
<1>6. SumFunctionOnSet(f, R) \in Int
  BY <1>1, SumIsInt
<1> HIDE DEF R
<1> QED BY <1>3, <1>4, <1>5, <1>6

\* The sum over a set is that over a part and that over the rest (the pool and
\* the pinned allocations of compute_rebalance).
LEMMA SumSplits ==
    ASSUME NEW S, IsFiniteSet(S), NEW f, \A x \in S : f[x] \in Int, NEW P \in SUBSET S
    PROVE  SumFunctionOnSet(f, S) = SumFunctionOnSet(f, P) + SumFunctionOnSet(f, S \ P)
<1> DEFINE Off(T) == SumFunctionOnSet(f, S) # SumFunctionOnSet(f, T) + SumFunctionOnSet(f, S \ T)
           B == {T \in SUBSET S : Off(T)}
<1> SUFFICES ASSUME B # {} PROVE FALSE
  OBVIOUS
<1>1. PICK T \in B : \A U \in B : ~ (U \subseteq T /\ U # T)
  <2>1. B \subseteq SUBSET S
    OBVIOUS
  <2> HIDE DEF B
  <2> QED BY <2>1, LeastSubset
<1>2. SumFunctionOnSet(f, S) \in Int
  BY SumIsInt
<1>3. T # {}
  <2>1. S \ {} = S /\ SumFunctionOnSet(f, {}) = 0
    BY SumOfNone
  <2>2. ~ Off({})
    BY <1>2, <2>1
  <2> QED BY <2>2
<1> DEFINE p == One(T)
           R == T \ {p}
           C == S \ R
<1>4. p \in T /\ T \in SUBSET S
  BY <1>3, OneIn
<1> HIDE DEF p
<1>5. R \in SUBSET S /\ R \subseteq T /\ R # T /\ p \in C /\ C \ {p} = S \ T /\ p \in S
  BY <1>4
<1>6. IsFiniteSet(T) /\ IsFiniteSet(R) /\ IsFiniteSet(C) /\ IsFiniteSet(S \ T)
  BY <1>4, FS_Subset
<1>7. ~ Off(R)
  BY <1>1, <1>5
<1>8. SumFunctionOnSet(f, T) = f[p] + SumFunctionOnSet(f, R)
  BY <1>4, <1>6, SumFromAny
<1>9. SumFunctionOnSet(f, C) = f[p] + SumFunctionOnSet(f, S \ T)
  <2>1. SumFunctionOnSet(f, C) = f[p] + SumFunctionOnSet(f, C \ {p})
    BY <1>5, <1>6, SumFromAny
  <2> QED BY <2>1, <1>5
<1>10. SumFunctionOnSet(f, R) \in Int /\ SumFunctionOnSet(f, S \ T) \in Int /\ f[p] \in Int
  BY <1>4, <1>6, SumIsInt
<1>11. Off(T)
  BY <1>1
<1> HIDE DEF R
<1> QED BY <1>7, <1>8, <1>9, <1>10, <1>11

\* Part of the rows does not sum up to more than all of them.
LEMMA SumOfPart ==
    ASSUME NEW S, IsFiniteSet(S), NEW f, \A x \in S : f[x] \in Nat, NEW P \in SUBSET S
    PROVE  SumFunctionOnSet(f, P) <= SumFunctionOnSet(f, S)
<1>1. IsFiniteSet(P) /\ IsFiniteSet(S \ P)
  BY FS_Subset
<1>2. SumFunctionOnSet(f, P) \in Nat /\ SumFunctionOnSet(f, S \ P) \in Nat
  BY <1>1, SumIsNat
<1>3. SumFunctionOnSet(f, S) = SumFunctionOnSet(f, P) + SumFunctionOnSet(f, S \ P)
  <2>1. \A x \in S : f[x] \in Int
    OBVIOUS
  <2> QED BY <2>1, SumSplits
<1> QED BY <1>2, <1>3

\* Row by row, two sums add up to one.
LEMMA SumAddsUp ==
    ASSUME NEW S, IsFiniteSet(S), NEW f, NEW g, NEW h,
           \A x \in S : f[x] \in Int /\ g[x] \in Int /\ h[x] = f[x] + g[x]
    PROVE  SumFunctionOnSet(h, S) = SumFunctionOnSet(f, S) + SumFunctionOnSet(g, S)
<1> DEFINE Off(T) == SumFunctionOnSet(h, T) # SumFunctionOnSet(f, T) + SumFunctionOnSet(g, T)
           B == {T \in SUBSET S : Off(T)}
<1> SUFFICES ASSUME B # {} PROVE FALSE
  <2>1. S \in SUBSET S
    OBVIOUS
  <2> QED BY <2>1
<1>1. PICK T \in B : \A U \in B : ~ (U \subseteq T /\ U # T)
  <2>1. B \subseteq SUBSET S
    OBVIOUS
  <2> HIDE DEF B
  <2> QED BY <2>1, LeastSubset
<1>2. T # {}
  <2>1. SumFunctionOnSet(f, {}) = 0 /\ SumFunctionOnSet(g, {}) = 0 /\ SumFunctionOnSet(h, {}) = 0
    BY SumOfNone
  <2>2. ~ Off({})
    BY <2>1
  <2> QED BY <2>2
<1> DEFINE p == One(T)
           R == T \ {p}
<1>3. p \in T /\ T \in SUBSET S
  BY <1>2, OneIn
<1>4. IsFiniteSet(T) /\ IsFiniteSet(R)
  BY <1>3, FS_Subset
<1>5. /\ SumFunctionOnSet(f, T) = f[p] + SumFunctionOnSet(f, R)
      /\ SumFunctionOnSet(g, T) = g[p] + SumFunctionOnSet(g, R)
      /\ SumFunctionOnSet(h, T) = h[p] + SumFunctionOnSet(h, R)
  BY <1>2, <1>4, SumFromOne
<1> HIDE DEF p
<1>6. ~ Off(R)
  BY <1>1, <1>3
<1>7. SumFunctionOnSet(f, R) \in Int /\ SumFunctionOnSet(g, R) \in Int
  BY <1>3, <1>4, SumIsInt
<1>8. f[p] \in Int /\ g[p] \in Int /\ h[p] = f[p] + g[p]
  BY <1>3
<1>9. Off(T)
  BY <1>1
<1> HIDE DEF R
<1> QED BY <1>5, <1>6, <1>7, <1>8, <1>9

\* A factor of every row is a factor of the sum (bonus * use in compute_rebalance).
LEMMA SumScaled ==
    ASSUME NEW S, IsFiniteSet(S), NEW f, NEW h, NEW c \in Int,
           \A x \in S : f[x] \in Int /\ h[x] = c * f[x]
    PROVE  SumFunctionOnSet(h, S) = c * SumFunctionOnSet(f, S)
<1> DEFINE Off(T) == SumFunctionOnSet(h, T) # c * SumFunctionOnSet(f, T)
           B == {T \in SUBSET S : Off(T)}
<1> SUFFICES ASSUME B # {} PROVE FALSE
  <2>1. S \in SUBSET S
    OBVIOUS
  <2> QED BY <2>1
<1>1. PICK T \in B : \A U \in B : ~ (U \subseteq T /\ U # T)
  <2>1. B \subseteq SUBSET S
    OBVIOUS
  <2> HIDE DEF B
  <2> QED BY <2>1, LeastSubset
<1>2. T # {}
  <2>1. SumFunctionOnSet(f, {}) = 0 /\ SumFunctionOnSet(h, {}) = 0 /\ c * 0 = 0
    BY SumOfNone
  <2>2. ~ Off({})
    BY <2>1
  <2> QED BY <2>2
<1> DEFINE p == One(T)
           R == T \ {p}
<1>3. p \in T /\ T \in SUBSET S
  BY <1>2, OneIn
<1>4. IsFiniteSet(T) /\ IsFiniteSet(R)
  BY <1>3, FS_Subset
<1>5. /\ SumFunctionOnSet(f, T) = f[p] + SumFunctionOnSet(f, R)
      /\ SumFunctionOnSet(h, T) = h[p] + SumFunctionOnSet(h, R)
  BY <1>2, <1>4, SumFromOne
<1> HIDE DEF p
<1>6. ~ Off(R)
  BY <1>1, <1>3
<1>7. SumFunctionOnSet(f, R) \in Int
  BY <1>3, <1>4, SumIsInt
<1>8. f[p] \in Int /\ h[p] = c * f[p]
  BY <1>3
<1>9. Off(T)
  BY <1>1
<1>10. \A a, b \in Int : c * (a + b) = c * a + c * b
  BY SMT
<1>11. c * (f[p] + SumFunctionOnSet(f, R)) = c * f[p] + c * SumFunctionOnSet(f, R)
  BY <1>7, <1>8, <1>10
<1> HIDE DEF R
<1> QED BY <1>5, <1>6, <1>8, <1>9, <1>11

\* Rows that are all the same sum up to their number times the one.
LEMMA SumOfEqual ==
    ASSUME NEW S, IsFiniteSet(S), NEW f, NEW c \in Int, \A x \in S : f[x] = c
    PROVE  SumFunctionOnSet(f, S) = c * Cardinality(S)
<1> DEFINE Off(T) == SumFunctionOnSet(f, T) # c * Cardinality(T)
           B == {T \in SUBSET S : Off(T)}
<1> SUFFICES ASSUME B # {} PROVE FALSE
  <2>1. S \in SUBSET S
    OBVIOUS
  <2> QED BY <2>1
<1>1. PICK T \in B : \A U \in B : ~ (U \subseteq T /\ U # T)
  <2>1. B \subseteq SUBSET S
    OBVIOUS
  <2> HIDE DEF B
  <2> QED BY <2>1, LeastSubset
<1>2. T # {}
  <2>1. SumFunctionOnSet(f, {}) = 0 /\ Cardinality({}) = 0 /\ c * 0 = 0
    BY SumOfNone, FS_EmptySet
  <2>2. ~ Off({})
    BY <2>1
  <2> QED BY <2>2
<1> DEFINE p == One(T)
           R == T \ {p}
<1>3. p \in T /\ T \in SUBSET S
  BY <1>2, OneIn
<1>4. IsFiniteSet(T) /\ IsFiniteSet(R)
  BY <1>3, FS_Subset
<1>5. SumFunctionOnSet(f, T) = f[p] + SumFunctionOnSet(f, R)
  BY <1>2, <1>4, SumFromOne
<1> HIDE DEF p
<1>6. ~ Off(R)
  BY <1>1, <1>3
<1>7. Cardinality(T) \in Nat /\ Cardinality(R) = Cardinality(T) - 1
  BY <1>3, <1>4, FS_CardinalityType, FS_RemoveElement
<1>8. f[p] = c
  BY <1>3
<1>9. Off(T)
  BY <1>1
<1>10. \A n \in Int : c + c * (n - 1) = c * n
  BY SMT
<1>11. c + c * (Cardinality(T) - 1) = c * Cardinality(T)
  BY <1>7, <1>10
<1> HIDE DEF R
<1> QED BY <1>5, <1>6, <1>7, <1>8, <1>9, <1>11

\* A sum above 0 has a row above 0.
LEMMA SumPositive ==
    ASSUME NEW S, IsFiniteSet(S), NEW f, \A x \in S : f[x] \in Nat, SumFunctionOnSet(f, S) > 0
    PROVE  \E x \in S : f[x] > 0
<1> SUFFICES ASSUME \A x \in S : f[x] = 0 PROVE FALSE
  OBVIOUS
<1>1. SumFunctionOnSet(f, S) = 0 * Cardinality(S)
  BY SumOfEqual
<1>2. Cardinality(S) \in Nat
  BY FS_CardinalityType
<1> QED BY <1>1, <1>2

\* Rows that move, no two to one place, sum up to no more than before: so do
\* failures as they age out of the window of _count_since.
LEMMA SumMoved ==
    ASSUME NEW S, IsFiniteSet(S), NEW f, NEW g, NEW from,
           \A x \in S : f[x] \in Nat /\ g[x] \in Nat,
           \A x \in S : g[x] # 0 => from[x] \in S /\ g[x] = f[from[x]],
           \A x, y \in S : g[x] # 0 /\ g[y] # 0 /\ from[x] = from[y] => x = y
    PROVE  SumFunctionOnSet(g, S) <= SumFunctionOnSet(f, S)
<1> DEFINE Source(T) == {from[x] : x \in {y \in T : g[y] # 0}}
           Above(T) == ~ (SumFunctionOnSet(g, T) <= SumFunctionOnSet(f, Source(T)))
           B == {T \in SUBSET S : Above(T)}
<1>1. \A T \in SUBSET S : Source(T) \in SUBSET S
  OBVIOUS
<1>2. \A T \in SUBSET S : IsFiniteSet(T) /\ IsFiniteSet(Source(T))
  BY <1>1, FS_Subset
<1>3. \A T \in SUBSET S : SumFunctionOnSet(g, T) \in Nat /\ SumFunctionOnSet(f, Source(T)) \in Nat
  <2> HIDE DEF Source
  <2> QED BY <1>1, <1>2, SumIsNat
<1>4. ASSUME B # {} PROVE FALSE
  <2>1. PICK T \in B : \A U \in B : ~ (U \subseteq T /\ U # T)
    <3>1. B \subseteq SUBSET S
      OBVIOUS
    <3> HIDE DEF B
    <3> QED BY <1>4, <3>1, LeastSubset
  <2>2. T # {}
    <3>1. SumFunctionOnSet(g, {}) = 0 /\ SumFunctionOnSet(f, Source({})) \in Nat
      BY <1>3, SumOfNone
    <3>2. ~ Above({})
      <4> HIDE DEF Source
      <4> QED BY <3>1
    <3> QED BY <3>2
  <2> DEFINE p == One(T)
             R == T \ {p}
  <2>3. p \in T /\ T \in SUBSET S /\ Above(T)
    BY <2>2, OneIn
  <2>4. SumFunctionOnSet(g, T) = g[p] + SumFunctionOnSet(g, R)
    BY <1>2, <2>2, SumFromOne
  <2> HIDE DEF p
  <2>5. R \in SUBSET S /\ R \subseteq T /\ R # T /\ p \in S
    BY <2>3
  <2>6. SumFunctionOnSet(g, R) <= SumFunctionOnSet(f, Source(R))
    <3> HIDE DEF R, Source
    <3> QED BY <2>1, <2>5
  <2>7. CASE g[p] = 0
    <3>1. Source(T) = Source(R)
      BY <2>7
    <3> HIDE DEF R, Source
    <3> QED BY <1>3, <2>3, <2>4, <2>5, <2>6, <2>7, <3>1
  <2>8. CASE g[p] # 0
    <3> DEFINE q == from[p]
    <3>1. q \in Source(T) /\ q \in S /\ g[p] = f[q]
      BY <2>3, <2>5, <2>8
    <3>2. q \notin Source(R)
      BY <2>5, <2>8
    <3>3. Source(T) \ {q} = Source(R)
      <4>1. Source(T) = Source(R) \cup {q}
        BY <2>3, <2>5, <2>8
      <4> QED BY <3>2, <4>1
    <3> HIDE DEF R, Source, q
    <3>4. SumFunctionOnSet(f, Source(T)) = f[q] + SumFunctionOnSet(f, Source(R))
      <4>1. Source(T) \in SUBSET S
        BY <1>1, <2>3
      <4>2. IsFiniteSet(Source(T)) /\ \A x \in Source(T) : f[x] \in Int
        BY <1>2, <2>3, <4>1
      <4>3. SumFunctionOnSet(f, Source(T)) = f[q] + SumFunctionOnSet(f, Source(T) \ {q})
        BY <3>1, <4>2, SumFromAny
      <4> QED BY <3>3, <4>3
    <3>5. f[q] \in Nat
      BY <3>1
    <3> QED BY <1>3, <2>3, <2>4, <2>5, <2>6, <3>1, <3>4, <3>5
  <2> QED BY <2>7, <2>8
<1>5. ~ Above(S)
  <2>1. S \in SUBSET S /\ B = {}
    BY <1>4
  <2> HIDE DEF Above
  <2> QED BY <2>1
<1>6. SumFunctionOnSet(f, Source(S)) <= SumFunctionOnSet(f, S)
  <2> HIDE DEF Source
  <2> QED BY <1>1, SumOfPart
<1>7. SumFunctionOnSet(f, S) \in Nat /\ SumFunctionOnSet(g, S) \in Nat /\ SumFunctionOnSet(f, Source(S)) \in Nat
  BY <1>3, SumIsNat
<1> HIDE DEF Source
<1> QED BY <1>5, <1>6, <1>7

\* The quotient of // on numbers that are not negative, as compute_rebalance uses it.
LEMMA DivBounds ==
    ASSUME NEW x \in Nat, NEW s \in Nat, s > 0
    PROVE  x \div s \in Nat /\ s * (x \div s) <= x
<1>1. x \div s \in Int /\ s * (x \div s) <= x /\ x < s * (x \div s) + s
 BY SMT
<1>2. x \div s >= 0 
 BY <1>1
<1> QED BY <1>1, <1>2

\* What fits s times into x is not above the quotient: the floor of compute_rebalance.
LEMMA DivLeast ==
    ASSUME NEW x \in Nat, NEW s \in Nat, s > 0, NEW k \in Nat, k * s <= x
    PROVE  k <= x \div s 
<1>1. x \div s \in Int /\ s * (x \div s) <= x /\ x < s * (x \div s) + s
 BY SMT
<1> DEFINE q == x \div s
<1>2. k * s < (q + 1) * s
  BY <1>1
<1> HIDE DEF q
<1>3. q \in Int
  BY <1>1 DEF q
<1>4. \A a, b \in Int : a * s < b * s => a < b
  BY SMT
<1>5. k < q + 1
  BY <1>2, <1>3, <1>4
<1> QED BY <1>5, <1>3 DEF q

\* More use, a share that is not smaller.
LEMMA DivGrows ==
    ASSUME NEW x \in Nat, NEW y \in Nat, x <= y, NEW s \in Nat, s > 0
    PROVE  x \div s <= y \div s
<1>1. x \div s \in Nat /\ s * (x \div s) <= x
  BY DivBounds
<1> DEFINE q == x \div s
<1>2. q \in Nat /\ q * s <= y
  BY <1>1
<1> HIDE DEF q
<1>3. q <= y \div s
  BY <1>2, DivLeast
<1> QED BY <1>3 DEF q

\* A finite set has a last element in any order of all of it: the one max() of
\* compute_rebalance returns.
LEMMA LastExists ==
    ASSUME NEW S, IsFiniteSet(S), S # {}, NEW Before,
           \A a, b \in S : <<a, b>> \in Before \/ <<b, a>> \in Before,
           \A a, b, c \in S : <<a, b>> \in Before /\ <<b, c>> \in Before => <<a, c>> \in Before
    PROVE  \E a \in S : \A b \in S : <<b, a>> \in Before
<1> DEFINE Last(a, T) == \A b \in T : <<b, a>> \in Before
           Endless(T) == T # {} /\ \A a \in T : ~ Last(a, T)
           B == {T \in SUBSET S : Endless(T)}
<1> SUFFICES ASSUME B # {} PROVE FALSE
  <2>1. S \in SUBSET S
    OBVIOUS
  <2> QED BY <2>1
<1>1. PICK T \in B : \A U \in B : ~ (U \subseteq T /\ U # T)
  <2>1. B \subseteq SUBSET S
    OBVIOUS
  <2> HIDE DEF B
  <2> QED BY <2>1, LeastSubset
<1> DEFINE p == One(T)
           R == T \ {p}
<1>2. T \in SUBSET S /\ p \in T /\ Endless(T)
  BY OneIn
<1> HIDE DEF p
<1>3. R \in SUBSET S /\ R \subseteq T /\ R # T
  BY <1>2
<1>4. \A a \in S : <<a, a>> \in Before
  OBVIOUS
<1>5. CASE R = {}
  <2>1. \A b \in T : b = p
    BY <1>5
  <2> QED BY <1>2, <1>4, <2>1
<1>6. CASE R # {}
  <2>1. ~ Endless(R)
    <3> HIDE DEF R, Endless
    <3> QED BY <1>1, <1>3
  <2>2. PICK m \in R : Last(m, R)
    BY <2>1, <1>6
  <2>3. m \in S /\ p \in S /\ m \in T
    BY <1>2
  <2>4. CASE <<p, m>> \in Before
    <3>1. Last(m, T)
      BY <2>2, <2>4
    <3> QED BY <3>1, <1>2, <2>3
  <2>5. CASE <<m, p>> \in Before
    <3>1. Last(p, T)
      BY <1>2, <1>4, <2>2, <2>3, <2>5
    <3> QED BY <3>1, <1>2
  <2> QED BY <2>3, <2>4, <2>5
<1> QED BY <1>5, <1>6

\* The row that gets the leftover (compute_rebalance) exists, and has the most use.
LEMMA TargetExists ==
    ASSUME NEW S, IsFiniteSet(S), S # {}, S \subseteq Nat, NEW use, \A a \in S : use[a] \in Nat
    PROVE  Target(use, S) \in S /\ \A b \in S : use[b] <= use[Target(use, S)]
<1> DEFINE After(a, b) == use[b] < use[a] \/ (use[b] = use[a] /\ b <= a)
           Before == {p \in S \X S : After(p[2], p[1])}
<1>1. \A a, b \in S : <<a, b>> \in Before <=> After(b, a)
  OBVIOUS
<1>2. \A a, b \in S : After(a, b) \/ After(b, a)
  OBVIOUS
<1>3. \A a, b, c \in S : After(c, b) /\ After(b, a) => After(c, a)
  OBVIOUS
<1> HIDE DEF Before
<1>4. /\ \A a, b \in S : <<a, b>> \in Before \/ <<b, a>> \in Before
      /\ \A a, b, c \in S : <<a, b>> \in Before /\ <<b, c>> \in Before => <<a, c>> \in Before
  <2> HIDE DEF After
  <2> QED BY <1>1, <1>2, <1>3
<1>5. \E a \in S : \A b \in S : <<b, a>> \in Before
  <2> HIDE DEF After
  <2> QED BY <1>4, LastExists
<1>6. \E a \in S : \A b \in S : After(a, b)
  <2> HIDE DEF After
  <2> QED BY <1>1, <1>5
<1> DEFINE t == Target(use, S)
<1>7. t \in S /\ \A b \in S : After(t, b)
  BY <1>6 DEF Target
<1>8. use[t] \in Nat /\ \A b \in S : use[b] \in Nat
  BY <1>7
<1>9. \A b \in S : use[b] < use[t] \/ use[b] = use[t]
  BY <1>7
<1> HIDE DEF t
<1>10. \A b \in S : use[b] <= use[t]
  BY <1>8, <1>9
<1> QED BY <1>7, <1>10 DEF t

\* Shares before the leftover: none below the floor, together no more than D,
\* and none smaller for more use (compute_rebalance).
Shared(share, D, fl, use, pool) ==
    /\ \A a \in pool : share[a] \in Nat /\ share[a] >= fl
    /\ SumFunctionOnSet(share, pool) <= D
    /\ \A a, b \in pool : use[a] > use[b] => share[a] >= share[b]

\* compute_rebalance while nobody has any use: the even spread is fair.
LEMMA SharedEvenly ==
    ASSUME NEW pool, IsFiniteSet(pool), pool # {}, NEW use, \A a \in pool : use[a] \in Nat,
           SumFunctionOnSet(use, pool) = 0,
           NEW D \in Nat, NEW fl \in Nat, fl * Cardinality(pool) <= D,
           NEW share, \A a \in pool : share[a] = D \div Cardinality(pool)
    PROVE  Shared(share, D, fl, use, pool)
<1> DEFINE n == Cardinality(pool)
           each == D \div n
<1>1. n \in Nat /\ n > 0
  BY FS_CardinalityType, FS_EmptySet
<1>2. each \in Nat /\ n * each <= D /\ fl <= each
  <2>1. fl * n <= D
    OBVIOUS
  <2> HIDE DEF n
  <2> QED BY <1>1, <2>1, DivBounds, DivLeast
<1>3. \A a \in pool : share[a] = each
  OBVIOUS
<1> HIDE DEF each
<1>4. SumFunctionOnSet(share, pool) <= D
  <2>1. SumFunctionOnSet(share, pool) = each * n
    BY <1>2, <1>3, SumOfEqual
  <2> HIDE DEF n
  <2> QED BY <1>1, <1>2, <2>1
<1> QED BY <1>2, <1>3, <1>4 DEF Shared

\* compute_rebalance by use: the floor and a part of the bonus each is fair, and
\* the rounding down gives away no more than there is.
LEMMA SharedByUse ==
    ASSUME NEW pool, IsFiniteSet(pool), NEW use, \A a \in pool : use[a] \in Nat,
           NEW sum \in Nat, sum > 0, sum = SumFunctionOnSet(use, pool),
           NEW bonus \in Nat, NEW fl \in Nat,
           NEW share, \A a \in pool : share[a] = fl + (bonus * use[a]) \div sum
    PROVE  Shared(share, fl * Cardinality(pool) + bonus, fl, use, pool)
<1> DEFINE q == [a \in pool |-> (bonus * use[a]) \div sum]
           scaled == [a \in pool |-> sum * q[a]]
           due == [a \in pool |-> bonus * use[a]]
           floors == [a \in pool |-> fl]
           n == Cardinality(pool)
<1>1. \A a \in pool : share[a] = floors[a] + q[a]
  OBVIOUS
<1>2. ASSUME NEW a \in pool
      PROVE  bonus * use[a] \in Nat /\ q[a] \in Nat /\ sum * q[a] \in Nat /\ sum * q[a] <= bonus * use[a]
  <2> DEFINE x == bonus * use[a]
  <2>1. x \in Nat /\ q[a] = x \div sum
    OBVIOUS
  <2> HIDE DEF x, q
  <2>2. x \div sum \in Nat /\ sum * (x \div sum) <= x
    BY <2>1, DivBounds
  <2>3. \A k \in Nat : sum * k \in Nat
    OBVIOUS
  <2> QED BY <2>1, <2>2, <2>3 DEF x
<1>3. ASSUME NEW a \in pool, NEW b \in pool, use[a] > use[b]
      PROVE  q[a] >= q[b]
  <2> DEFINE x == bonus * use[a]
             y == bonus * use[b]
  <2>1. \A j, k \in Nat : j <= k => bonus * j <= bonus * k /\ bonus * j \in Nat
    BY SMT
  <2>2. x \in Nat /\ y \in Nat /\ y <= x
    BY <2>1, <1>3
  <2>3. q[a] = x \div sum /\ q[b] = y \div sum
    OBVIOUS
  <2> HIDE DEF x, y, q
  <2>4. y \div sum <= x \div sum
    BY <2>2, DivGrows
  <2>5. x \div sum \in Nat /\ y \div sum \in Nat
    BY <2>2, DivBounds
  <2> QED BY <2>3, <2>4, <2>5
<1>4. \A a \in pool : scaled[a] = sum * q[a] /\ due[a] = bonus * use[a] /\ floors[a] = fl
  OBVIOUS
<1>5. n \in Nat
  BY FS_CardinalityType
<1> HIDE DEF q, scaled, due, floors
<1>6. SumFunctionOnSet(q, pool) \in Nat
  BY <1>2, SumIsNat
<1>7. SumFunctionOnSet(scaled, pool) = sum * SumFunctionOnSet(q, pool)
  <2>1. \A a \in pool : q[a] \in Int /\ scaled[a] = sum * q[a]
    BY <1>2, <1>4
  <2> QED BY <2>1, SumScaled
<1>8. SumFunctionOnSet(due, pool) = bonus * sum
  <2>1. \A a \in pool : use[a] \in Int /\ due[a] = bonus * use[a]
    BY <1>4
  <2>2. SumFunctionOnSet(due, pool) = bonus * SumFunctionOnSet(use, pool)
    BY <2>1, SumScaled
  <2> QED BY <2>2
<1>9. SumFunctionOnSet(scaled, pool) <= SumFunctionOnSet(due, pool)
  <2>1. \A a \in pool : scaled[a] \in Int /\ due[a] \in Int /\ scaled[a] <= due[a]
    BY <1>2, <1>4
  <2> QED BY <2>1, SumLeq
<1>10. SumFunctionOnSet(q, pool) <= bonus
  <2> DEFINE Q == SumFunctionOnSet(q, pool)
  <2>1. sum * Q <= bonus * sum /\ Q \in Nat
    BY <1>6, <1>7, <1>8, <1>9
  <2> HIDE DEF Q
  <2>2. \A k \in Nat : sum * k <= bonus * sum => k <= bonus
    BY SMT
  <2>3. Q <= bonus
    BY <2>1, <2>2
  <2> QED BY <2>3 DEF Q
<1>11. SumFunctionOnSet(floors, pool) = fl * n
  BY <1>4, SumOfEqual
<1>12. SumFunctionOnSet(share, pool) = SumFunctionOnSet(floors, pool) + SumFunctionOnSet(q, pool)
  <2>1. \A a \in pool : floors[a] \in Int /\ q[a] \in Int /\ share[a] = floors[a] + q[a]
    BY <1>1, <1>2, <1>4
  <2> QED BY <2>1, SumAddsUp
<1>13. SumFunctionOnSet(share, pool) <= fl * n + bonus
  <2>1. fl * n \in Nat
    BY <1>5
  <2> QED BY <2>1, <1>6, <1>10, <1>11, <1>12
<1>14. \A a \in pool : share[a] \in Nat /\ share[a] >= fl
  BY <1>1, <1>2, <1>4
<1>15. \A a, b \in pool : use[a] > use[b] => share[a] >= share[b]
  BY <1>1, <1>2, <1>3, <1>4
<1> QED BY <1>13, <1>14, <1>15 DEF Shared

\* What the shares of a pool must be (compute_rebalance).
Fair(new, c, use, pool) ==
    /\ DOMAIN new = pool
    /\ \A a \in pool : new[a] \in Nat /\ new[a] >= c.floor
    /\ SumFunctionOnSet(new, pool) = c.total - c.reserved
    /\ \A a, b \in pool : use[a] > use[b] => new[a] >= new[b]

\* What compute_rebalance returns is fair and gives away exactly what was not
\* reserved, when the total covers the floors (the check of apply_rebalance).
LEMMA SharesFair ==
    ASSUME NEW c, c.total \in Nat, c.floor \in Nat, c.reserved \in Nat,
           NEW pool, IsFiniteSet(pool), pool # {}, pool \subseteq Nat,
           NEW use, \A a \in pool : use[a] \in Nat,
           c.total - c.reserved >= c.floor * Cardinality(pool)
    PROVE  Fair(compute_rebalance(c, use, pool), c, use, pool)
<1> DEFINE D == c.total - c.reserved
           fl == c.floor
           n == Cardinality(pool)
           bonus == D - fl * n
           sum == SumFunctionOnSet(use, pool)
           share == [a \in pool |-> IF sum = 0 THEN D \div n
                                    ELSE fl + (bonus * use[a]) \div sum]
           t == Target(use, pool)
           rest == D - SumFunctionOnSet(share, pool)
           new == [share EXCEPT ![t] = share[t] + rest]
<1>1. compute_rebalance(c, use, pool) = new
  <2>1. compute_rebalance(c, use, pool) = [share EXCEPT ![t] = share[t] + D - SumFunctionOnSet(share, pool)]
    BY DEF compute_rebalance
  <2> QED BY <2>1
<1>2. D \in Int /\ fl \in Nat /\ n \in Nat
  BY FS_CardinalityType
<1>3. fl * n \in Nat /\ fl * n <= D
  BY <1>2
<1>4. D \in Nat /\ bonus \in Nat /\ D = fl * n + bonus
  <2> HIDE DEF D, n
  <2> QED BY <1>2, <1>3
<1>5. sum \in Nat
  BY SumIsNat
<1>6. t \in pool /\ \A b \in pool : use[b] <= use[t]
  BY TargetExists
<1>7. Shared(share, D, fl, use, pool)
  <2>1. CASE sum = 0
    <3>1. \A a \in pool : share[a] = D \div n
      BY <2>1
    <3>2. fl * Cardinality(pool) <= D
      BY <1>3
    <3> HIDE DEF D, fl, share
    <3> QED BY <1>2, <1>4, <2>1, <3>1, <3>2, SharedEvenly
  <2>2. CASE sum # 0
    <3>1. \A a \in pool : share[a] = fl + (bonus * use[a]) \div sum
      BY <2>2
    <3>2. sum > 0 /\ sum = SumFunctionOnSet(use, pool)
      BY <1>5, <2>2
    <3> HIDE DEF D, fl, share, bonus, sum
    <3>3. Shared(share, fl * Cardinality(pool) + bonus, fl, use, pool)
      BY <1>2, <1>4, <1>5, <3>1, <3>2, SharedByUse
    <3> QED BY <1>4, <3>3
  <2> QED BY <2>1, <2>2
<1>8. DOMAIN new = pool /\ new[t] = share[t] + rest /\ \A a \in pool \ {t} : new[a] = share[a]
  BY <1>6
<1> HIDE DEF share, sum, t, D, fl, n, bonus
<1>9. SumFunctionOnSet(share, pool) \in Nat /\ SumFunctionOnSet(share, pool) <= D
  BY <1>7, SumIsNat DEF Shared
<1>10. rest \in Nat
  BY <1>4, <1>9
<1>11. SumFunctionOnSet(new, pool) = SumFunctionOnSet(share, pool) + rest
  <2>1. (\A a \in pool : share[a] \in Int) /\ rest \in Int
    BY <1>7, <1>10 DEF Shared
  <2> HIDE DEF new, rest
  <2>2. new[t] = share[t] + rest /\ (\A a \in pool \ {t} : new[a] = share[a]) /\ t \in pool
    BY <1>6, <1>8
  <2> QED BY <2>1, <2>2, SumRaised
<1>12. SumFunctionOnSet(new, pool) = D
  BY <1>4, <1>9, <1>11
<1>13. \A a \in pool : share[a] \in Nat /\ share[a] >= fl
  BY <1>7 DEF Shared
<1>14. \A a \in pool : new[a] \in Nat /\ new[a] >= share[a]
  <2> HIDE DEF new, rest
  <2> QED BY <1>8, <1>10, <1>13
<1>15. \A a, b \in pool : use[a] > use[b] => new[a] >= new[b]
  <2> SUFFICES ASSUME NEW a \in pool, NEW b \in pool, use[a] > use[b]
               PROVE  new[a] >= new[b]
    OBVIOUS
  <2>1. b # t
    <3>1. use[a] <= use[t] /\ use[a] \in Nat /\ use[b] \in Nat
      BY <1>6
    <3> QED BY <3>1
  <2>2. share[a] >= share[b]
    BY <1>7 DEF Shared
  <2> HIDE DEF new, rest
  <2>3. new[b] = share[b]
    BY <1>8, <2>1
  <2>4. share[a] \in Nat /\ share[b] \in Nat /\ new[a] \in Nat /\ new[a] >= share[a]
    BY <1>13, <1>14
  <2> QED BY <2>2, <2>3, <2>4
<1>16. \A a \in pool : new[a] >= fl
  <2> HIDE DEF new, rest
  <2>1. \A a \in pool : new[a] \in Nat /\ share[a] \in Nat /\ new[a] >= share[a] /\ share[a] >= fl
    BY <1>13, <1>14
  <2> QED BY <2>1, <1>2
<1> HIDE DEF new, rest
<1>17. Fair(new, c, use, pool)
  BY <1>8, <1>12, <1>14, <1>15, <1>16 DEF Fair, D, fl
<1> QED BY <1>1, <1>17

-----------------------------------------------------------------------------
\* The shape of what the locks are about.
Shape ==
    /\ op \in [Jobs -> {"idle", "reserved", "pool", "writing"}]
    /\ todo \in [Jobs -> SUBSET Allocs] /\ held \in [Jobs -> SUBSET Allocs]
    /\ status \in [Allocs -> {"none", "active", "other"}]
    /\ pinned \in [Allocs -> BOOLEAN]

\* Rows are held, and left to update, only while a rebalance writes.
OnlyWriters == \A r \in Jobs : op[r] # "writing" => held[r] = {} /\ todo[r] = {}

\* A held row stays active and not pinned.
HeldEligible == \A r \in Jobs : \A a \in held[r] : Eligible(a)

\* Every row held is smaller than every row yet to update.
InOrder == \A r \in Jobs : \A a \in held[r], b \in todo[r] : a < b

Inv == Shape /\ OnlyWriters /\ HeldEligible /\ InOrder

-----------------------------------------------------------------------------
\* Nothing is held when the server starts.
LEMMA InitInv == Init => Inv
BY DEF Init, Inv, Shape, OnlyWriters, HeldEligible, InOrder

\* A step that changes no allocation and no rebalance disturbs nothing.
LEMMA IdleStep ==
    ASSUME Inv, UNCHANGED <<op, todo, held, status, pinned>>
    PROVE  Inv'
BY DEF Inv, Shape, OnlyWriters, HeldEligible, InOrder, Eligible

\* Ending a rebalance releases its rows (Commit, Skip, Fail, Refuse).
LEMMA EndKeeps ==
    ASSUME Inv, NEW r \in Jobs, End(r), UNCHANGED <<status, pinned>>
    PROVE  Inv'
<1>1. Shape' BY DEF Inv, Shape, End
<1>2. OnlyWriters' BY DEF Inv, Shape, OnlyWriters, End
<1>3. HeldEligible' BY DEF Inv, Shape, HeldEligible, Eligible, End
<1>4. InOrder' BY DEF Inv, Shape, InOrder, End
<1> QED BY <1>1, <1>2, <1>3, <1>4 DEF Inv

\* Reading holds nothing (Begin, ReadReserved, ReadPool).
LEMMA ReadKeeps ==
    ASSUME Inv, NEW r \in Jobs,
           ReadReserved(r) \/ ReadPool(r) \/ (\E cron \in BOOLEAN : Begin(r, cron))
    PROVE  Inv'
<1>1. CASE ReadReserved(r) \/ (\E cron \in BOOLEAN : Begin(r, cron))
  <2>1. /\ op[r] # "writing"
        /\ op' = [op EXCEPT ![r] = "reserved"] \/ op' = [op EXCEPT ![r] = "pool"]
        /\ UNCHANGED <<status, pinned, todo, held>>
    BY <1>1 DEF ReadReserved, Begin, rows
  <2> QED
    BY <2>1 DEF Inv, Shape, OnlyWriters, HeldEligible, InOrder, Eligible
<1>2. CASE ReadPool(r)
  <2>1. /\ op[r] = "pool" /\ op' = [op EXCEPT ![r] = "writing"]
        /\ todo' = [todo EXCEPT ![r] = Pool]
        /\ UNCHANGED <<status, pinned, held>>
    BY <1>2 DEF ReadPool, rows
  <2>2. Pool \subseteq Allocs BY DEF Pool
  <2>3. held[r] = {} BY <2>1 DEF Inv, OnlyWriters
  <2>4. Shape' BY <2>1, <2>2 DEF Inv, Shape
  <2>5. OnlyWriters' BY <2>1 DEF Inv, Shape, OnlyWriters
  <2>6. HeldEligible' BY <2>1 DEF Inv, HeldEligible, Eligible
  <2>7. InOrder' BY <2>1, <2>3 DEF Inv, Shape, InOrder
  <2> QED BY <2>4, <2>5, <2>6, <2>7 DEF Inv
<1> QED BY <1>1, <1>2

\* Updating the next row: it is the least one left, and held only if eligible.
LEMMA UpdateKeeps ==
    ASSUME Inv, NEW r \in Jobs, UpdateRow(r)
    PROVE  Inv'
<1>1. PICK a \in todo[r] :
         /\ \A b \in todo[r] : a <= b
         /\ todo' = [todo EXCEPT ![r] = @ \ {a}]
         /\ held' = [held EXCEPT ![r] = IF Eligible(a) THEN @ \cup {a} ELSE @]
  BY DEF UpdateRow
<1>2. op[r] = "writing" /\ UNCHANGED <<op, status, pinned>>
  BY DEF UpdateRow, rows
<1>3. a \in Allocs /\ todo[r] \subseteq Allocs /\ held[r] \subseteq Allocs
  BY DEF Inv, Shape
<1>4. Shape' BY <1>1, <1>2, <1>3 DEF Inv, Shape
<1>5. OnlyWriters' BY <1>1, <1>2 DEF Inv, Shape, OnlyWriters
<1>6. HeldEligible' BY <1>1, <1>2 DEF Inv, Shape, HeldEligible, Eligible
<1>7. InOrder'
  <2> SUFFICES ASSUME NEW s \in Jobs, NEW h \in held'[s], NEW b \in todo'[s]
               PROVE  h < b
    BY DEF InOrder
  <2>1. CASE s # r
    BY <2>1, <1>1 DEF Inv, Shape, InOrder
  <2>2. CASE s = r
    <3>1. b \in todo[r] /\ b # a BY <2>2, <1>1 DEF Inv, Shape
    <3>2. a \in Nat /\ b \in Nat BY <3>1, <1>3, AllocsAssumption
    <3>3. a <= b BY <3>1, <1>1
    <3>4. a < b BY <3>1, <3>2, <3>3
    <3>5. h = a \/ h \in held[r] BY <2>2, <1>1 DEF Inv, Shape
    <3> QED BY <3>1, <3>4, <3>5 DEF Inv, InOrder
  <2> QED BY <2>1, <2>2
<1> QED BY <1>4, <1>5, <1>6, <1>7 DEF Inv

\* The administrators' updates wait for the rebalance that holds the row.
LEMMA AdministerKeeps ==
    ASSUME Inv, Administer
    PROVE  Inv'
<1>1. ASSUME NEW a \in Allocs, NEW q, NEW p \in BOOLEAN, Patch(a, q, p)
      PROVE  Inv'
  <2>1. /\ \A r \in Jobs : a \notin held[r]
        /\ pinned' = [pinned EXCEPT ![a] = p]
        /\ UNCHANGED <<status, op, todo, held>>
    BY <1>1 DEF Patch, Unheld, job
  <2> QED BY <2>1 DEF Inv, Shape, OnlyWriters, HeldEligible, InOrder, Eligible
<1>2. ASSUME NEW a \in Allocs, NEW s \in {"active", "other"}, SetStatus(a, s)
      PROVE  Inv'
  <2>1. /\ \A r \in Jobs : a \notin held[r]
        /\ status' = [status EXCEPT ![a] = s]
        /\ UNCHANGED <<pinned, op, todo, held>>
    BY <1>2 DEF SetStatus, Unheld, job
  <2> QED BY <2>1 DEF Inv, Shape, OnlyWriters, HeldEligible, InOrder, Eligible
<1>3. ASSUME NEW a \in Allocs, NEW q, Create(a, q)
      PROVE  Inv'
  <2>1. /\ status[a] = "none"
        /\ status' = [status EXCEPT ![a] = "active"]
        /\ UNCHANGED <<pinned, op, todo, held>>
    BY <1>3 DEF Create, job
  <2> QED BY <2>1 DEF Inv, Shape, OnlyWriters, HeldEligible, InOrder, Eligible
<1>4. ASSUME NEW t, NEW f, UpdateConfig(t, f)
      PROVE  Inv'
  BY <1>4, IdleStep DEF UpdateConfig, rows, job
<1> QED BY <1>1, <1>2, <1>3, <1>4 DEF Administer

\* Every step keeps the invariant.
LEMMA NextKeeps == Inv /\ [Next]_vars => Inv'
<1> SUFFICES ASSUME Inv, [Next]_vars PROVE Inv'
  OBVIOUS
<1>1. ASSUME NEW r \in Jobs, Progress(r) \/ Fail(r) \/ \E cron \in BOOLEAN : Begin(r, cron)
      PROVE  Inv'
  <2>1. CASE ReadReserved(r) \/ ReadPool(r) \/ \E cron \in BOOLEAN : Begin(r, cron)
    BY <2>1, ReadKeeps
  <2>2. CASE UpdateRow(r)
    BY <2>2, UpdateKeeps
  <2>3. CASE Refuse(r) \/ Commit(r) \/ Skip(r) \/ Fail(r)
    <3>1. End(r) /\ UNCHANGED <<status, pinned>>
      BY <2>3 DEF Refuse, Commit, Skip, Fail, Rollback, rows
    <3> QED BY <3>1, EndKeeps
  <2> QED BY <1>1, <2>1, <2>2, <2>3 DEF Progress
<1>2. CASE Administer
  BY <1>2, AdministerKeeps
<1>3. CASE \E a \in Allocs : Accrue(a)
  BY <1>3, IdleStep DEF Accrue, rows, job
<1>4. CASE UNCHANGED vars
  BY <1>4, IdleStep DEF vars, rows, job
<1> QED BY <1>1, <1>2, <1>3, <1>4 DEF Next

\* The invariant holds always.
LEMMA Invariant == Spec => []Inv
BY InitInv, NextKeeps, PTL DEF Spec

-----------------------------------------------------------------------------
\* Two rebalances never wait for each other, since each of them holds smaller
\* rows than it waits for (the ORDER BY and the updates of apply_rebalance).
THEOREM NoDeadlock == Spec => []NoCircle
<1>1. Inv => NoCircle
  <2> SUFFICES ASSUME Inv, NEW r \in Jobs, NEW s \in Jobs, WaitsFor(r, s), WaitsFor(s, r)
               PROVE  FALSE
    BY DEF NoCircle
  <2>1. PICK a \in todo[r] : a \in held[s] BY DEF WaitsFor
  <2>2. PICK b \in todo[s] : b \in held[r] BY DEF WaitsFor
  <2>3. b < a /\ a < b BY <2>1, <2>2 DEF Inv, InOrder
  <2>4. a \in Nat /\ b \in Nat
    BY AllocsAssumption DEF Inv, Shape
  <2> QED BY <2>3, <2>4
<1> QED BY <1>1, Invariant, PTL

\* A rebalance never changes the quota of an allocation that is pinned or not
\* active when it commits (the WHERE of its updates, and their row locks).
THEOREM PinnedKept == Spec => PinnedUntouched
<1>1. Inv /\ [Next]_vars =>
        [\A r \in Jobs : Ends(r) => \A a \in Allocs : ~ Eligible(a) => quota'[a] = quota[a]]_vars
  <2> SUFFICES ASSUME Inv, Next, NEW r \in Jobs, Ends(r), NEW a \in Allocs, ~ Eligible(a)
               PROVE  quota'[a] = quota[a]
    OBVIOUS
  <2>1. ASSUME NEW s \in Jobs, Commit(s)
        PROVE  quota'[a] = quota[a]
    <3>1. a \notin held[s] BY DEF Inv, HeldEligible
    <3> QED BY <2>1, <3>1 DEF Commit
  <2>2. op[r] = "writing" /\ op'[r] = "idle" BY DEF Ends
  <2>3. ASSUME UNCHANGED job
        PROVE  FALSE
    BY <2>2, <2>3 DEF job
  <2>4. ASSUME NEW s \in Jobs, Progress(s) \/ Fail(s) \/ \E cron \in BOOLEAN : Begin(s, cron)
        PROVE  quota'[a] = quota[a]
    BY <2>4, <2>1 DEF Progress, Fail, Begin, ReadReserved, ReadPool, Refuse, UpdateRow, Skip,
                      Rollback, rows
  <2>5. CASE Administer
    BY <2>5, <2>3 DEF Administer, Patch, SetStatus, Create, UpdateConfig
  <2>6. CASE \E b \in Allocs : Accrue(b)
    BY <2>6, <2>3 DEF Accrue
  <2> QED BY <2>4, <2>5, <2>6 DEF Next
<1> QED BY <1>1, Invariant, PTL DEF Spec, PinnedUntouched

-----------------------------------------------------------------------------
\* What is stored and what a rebalance has read.
Typed ==
    /\ total \in Nat /\ floor \in Nat
    /\ quota \in [Allocs -> Nat \cup {Unlimited}]
    /\ usage \in [Allocs -> Nat]
    /\ cronLog \in BOOLEAN
    /\ read \in [Jobs -> [cron : BOOLEAN, total : Nat, floor : Nat, reserved : Nat]]
    /\ plan = [r \in Jobs |-> plan[r]]

\* The plan of a rebalance that writes: numbers for the rows it updates, which
\* share out what was not reserved.
Planned(r) ==
    /\ DOMAIN plan[r] \subseteq Allocs /\ held[r] \cup todo[r] \subseteq DOMAIN plan[r]
    /\ \A a \in DOMAIN plan[r] : plan[r][a] \in Nat
    /\ SumFunctionOnSet(plan[r], DOMAIN plan[r]) = read[r].total - read[r].reserved

Plans == \A r \in Jobs : IF op[r] = "writing" THEN Planned(r) ELSE plan[r] = NoPlan

Amounts == Inv /\ Typed /\ Plans

\* The inductive invariant has the types of the model.
LEMMA AmountsType == Amounts => TypeOK
<1>1. DOMAIN NoPlan = {}
  BY DEF NoPlan
<1> QED BY <1>1 DEF Amounts, Inv, Shape, Typed, Plans, Planned, TypeOK

\* The stored configuration and the stored quotas are numbers.
LEMMA AmountsInit == Init => Amounts
<1> SUFFICES ASSUME Init PROVE Amounts
  OBVIOUS
<1>1. Typed
  BY QuotasAssumption DEF Init, Typed, NoRead
<1>2. Plans
  BY DEF Init, Plans
<1> QED BY <1>1, <1>2, InitInv DEF Amounts

\* Reserved tokens are a number.
LEMMA TokensAreNat ==
    ASSUME Typed, NEW S \in SUBSET Allocs
    PROVE  TokensOf(quota, S) \in Nat
<1> DEFINE f == [a \in Allocs |-> Tokens(quota[a])]
<1>1. \A a \in S : f[a] \in Nat
  BY UnlimitedAssumption DEF Typed, Tokens
<1>2. IsFiniteSet(S)
  BY AllocsAssumption, FS_Subset
<1> HIDE DEF f
<1>3. SumFunctionOnSet(f, S) \in Nat
  BY <1>1, <1>2, SumIsNat
<1> QED BY <1>3 DEF f, TokensOf

\* A step of one rebalance leaves the plans of the others.
LEMMA PlansKept ==
    ASSUME Plans, Inv, NEW r \in Jobs, IF op'[r] = "writing" THEN Planned(r)' ELSE plan'[r] = NoPlan,
           \A s \in Jobs \ {r} : UNCHANGED <<op[s], plan[s], held[s], todo[s], read[s]>>
    PROVE  Plans'
<1> SUFFICES ASSUME NEW s \in Jobs
             PROVE  IF op'[s] = "writing" THEN Planned(s)' ELSE plan'[s] = NoPlan
  BY DEF Plans
<1>1. CASE s = r
  BY <1>1
<1>2. CASE s # r
  <2>1. UNCHANGED <<op[s], plan[s], held[s], todo[s], read[s]>>
    BY <1>2
  <2> QED BY <2>1 DEF Plans, Planned
<1> QED BY <1>1, <1>2

\* A rebalance that ends, in whatever way, has no plan any more.
LEMMA EndAmounts ==
    ASSUME Amounts, NEW r \in Jobs, End(r), UNCHANGED <<config, usage>>,
           quota' \in [Allocs -> Nat \cup {Unlimited}], cronLog' \in BOOLEAN
    PROVE  Typed' /\ Plans'
<1>1. NoRead \in [cron : BOOLEAN, total : Nat, floor : Nat, reserved : Nat]
  BY DEF NoRead
<1>2. Typed'
  BY <1>1 DEF Amounts, Typed, End, config
<1>3. op'[r] # "writing" /\ plan'[r] = NoPlan
  BY DEF Amounts, Inv, Shape, Typed, End
<1>4. \A s \in Jobs \ {r} : UNCHANGED <<op[s], plan[s], held[s], todo[s], read[s]>>
  BY DEF Amounts, Inv, Shape, Typed, End
<1> QED BY <1>2, <1>3, <1>4, PlansKept DEF Amounts

\* The commit of apply_rebalance stores what was planned.
LEMMA CommitAmounts ==
    ASSUME Amounts, NEW r \in Jobs, Commit(r)
    PROVE  Typed' /\ Plans'
<1>1. op[r] = "writing" /\ End(r) /\ UNCHANGED <<config, usage>>
      /\ quota' = [a \in Allocs |-> IF a \in held[r] THEN plan[r][a] ELSE quota[a]]
      /\ cronLog' = (cronLog \/ read[r].cron)
  BY DEF Commit
<1>2. Planned(r)
  BY <1>1 DEF Amounts, Plans
<1>3. quota' \in [Allocs -> Nat \cup {Unlimited}]
  BY <1>1, <1>2 DEF Planned, Amounts, Typed
<1>4. cronLog' \in BOOLEAN
  BY <1>1 DEF Amounts, Typed
<1> QED BY <1>1, <1>3, <1>4, EndAmounts

\* A rebalance that is undone leaves every quota as it was.
LEMMA RollbackAmounts ==
    ASSUME Amounts, NEW r \in Jobs, Rollback(r)
    PROVE  Typed' /\ Plans'
BY EndAmounts DEF Rollback, rows, Amounts, Typed

\* A rebalance reads the configuration.
LEMMA BeginAmounts ==
    ASSUME Amounts, NEW r \in Jobs, NEW cron \in BOOLEAN, Begin(r, cron)
    PROVE  Typed' /\ Plans'
<1> DEFINE got == [cron |-> cron, total |-> total, floor |-> floor, reserved |-> 0]
<1>1. got \in [cron : BOOLEAN, total : Nat, floor : Nat, reserved : Nat]
  BY DEF Amounts, Typed
<1>2. op[r] = "idle" /\ op' = [op EXCEPT ![r] = "reserved"] /\ read' = [read EXCEPT ![r] = got]
      /\ UNCHANGED <<total, floor, quota, usage, cronLog, plan, todo, held>>
  BY DEF Begin, config, rows
<1> HIDE DEF got
<1>3. Typed'
  BY <1>1, <1>2 DEF Amounts, Typed
<1>4. op'[r] # "writing" /\ plan'[r] = NoPlan
  BY <1>2 DEF Amounts, Inv, Shape, Plans
<1>5. \A s \in Jobs \ {r} : UNCHANGED <<op[s], plan[s], held[s], todo[s], read[s]>>
  BY <1>2 DEF Amounts, Inv, Shape, Typed
<1> QED BY <1>3, <1>4, <1>5, PlansKept DEF Amounts

\* The reserved sum is a number.
LEMMA ReadReservedAmounts ==
    ASSUME Amounts, NEW r \in Jobs, ReadReserved(r)
    PROVE  Typed' /\ Plans'
<1> DEFINE got == [cron |-> read[r].cron, total |-> read[r].total, floor |-> read[r].floor,
                   reserved |-> Reserved(quota)]
<1>1. got \in [cron : BOOLEAN, total : Nat, floor : Nat, reserved : Nat]
  <2>1. Reserved(quota) \in Nat
    BY TokensAreNat DEF Amounts, Reserved, Active
  <2> QED BY <2>1 DEF Amounts, Typed
<1>2. op[r] = "reserved" /\ op' = [op EXCEPT ![r] = "pool"] /\ read' = [read EXCEPT ![r] = got]
      /\ UNCHANGED <<total, floor, quota, usage, cronLog, plan, todo, held>>
  BY DEF ReadReserved, config, rows
<1> HIDE DEF got
<1>3. Typed'
  BY <1>1, <1>2 DEF Amounts, Typed
<1>4. op'[r] # "writing" /\ plan'[r] = NoPlan
  BY <1>2 DEF Amounts, Inv, Shape, Plans
<1>5. \A s \in Jobs \ {r} : UNCHANGED <<op[s], plan[s], held[s], todo[s], read[s]>>
  BY <1>2 DEF Amounts, Inv, Shape, Typed
<1> QED BY <1>3, <1>4, <1>5, PlansKept DEF Amounts

\* The plan of a rebalance that has read its pool is fair.
LEMMA ReadPoolPlans ==
    ASSUME Amounts, NEW r \in Jobs, ReadPool(r)
    PROVE  /\ op[r] = "pool" /\ op' = [op EXCEPT ![r] = "writing"]
           /\ UNCHANGED <<total, floor, quota, usage, cronLog, read, held>>
           /\ plan'[r] = compute_rebalance(read[r], usage, Pool)
           /\ \A s \in Jobs \ {r} : plan'[s] = plan[s]
           /\ plan' = [s \in Jobs |-> plan'[s]]
           /\ todo' = [todo EXCEPT ![r] = Pool]
           /\ Fair(plan'[r], read[r], usage, Pool)
<1>1. /\ op[r] = "pool" /\ op' = [op EXCEPT ![r] = "writing"]
      /\ UNCHANGED <<total, floor, quota, usage, cronLog, read, held>>
      /\ plan' = [plan EXCEPT ![r] = compute_rebalance(read[r], usage, Pool)]
      /\ todo' = [todo EXCEPT ![r] = Pool]
      /\ Sufficient(r)
  BY DEF ReadPool, config, rows
<1>2. /\ plan'[r] = compute_rebalance(read[r], usage, Pool)
      /\ \A s \in Jobs \ {r} : plan'[s] = plan[s]
      /\ plan' = [s \in Jobs |-> plan'[s]]
  BY <1>1 DEF Amounts, Typed
<1> DEFINE c == read[r]
           P == Pool
<1>3. c.total \in Nat /\ c.floor \in Nat /\ c.reserved \in Nat
  BY DEF Amounts, Typed
<1>4. P \subseteq Allocs
  BY DEF Pool
<1>5. IsFiniteSet(P) /\ P \subseteq Nat
  BY <1>4, AllocsAssumption, FS_Subset
<1>6. P # {} /\ c.total - c.reserved >= c.floor * Cardinality(P)
  BY <1>1 DEF Sufficient
<1>7. \A a \in P : usage[a] \in Nat
  BY <1>4 DEF Amounts, Typed
<1> HIDE DEF c, P
<1>8. Fair(compute_rebalance(c, usage, P), c, usage, P)
  BY <1>3, <1>5, <1>6, <1>7, SharesFair
<1> QED BY <1>1, <1>2, <1>8 DEF c, P

\* The plan computed of the pool, and its refusals (InsufficientPool, an empty pool).
LEMMA ReadPoolAmounts ==
    ASSUME Amounts, NEW r \in Jobs, ReadPool(r)
    PROVE  Typed' /\ Plans'
<1>1. /\ op[r] = "pool" /\ op' = [op EXCEPT ![r] = "writing"]
      /\ UNCHANGED <<total, floor, quota, usage, cronLog, read, held>>
      /\ \A s \in Jobs \ {r} : plan'[s] = plan[s]
      /\ plan' = [s \in Jobs |-> plan'[s]]
      /\ todo' = [todo EXCEPT ![r] = Pool]
      /\ Fair(plan'[r], read[r], usage, Pool)
  BY ReadPoolPlans
<1>2. Typed'
  BY <1>1 DEF Amounts, Typed
<1>3. op'[r] = "writing" /\ held'[r] = {} /\ todo'[r] = Pool /\ read'[r] = read[r]
  BY <1>1 DEF Amounts, Inv, Shape, OnlyWriters
<1>4. Planned(r)'
  <2>1. Pool \subseteq Allocs
    BY DEF Pool
  <2> QED BY <1>1, <1>3, <2>1 DEF Planned, Fair
<1>5. \A s \in Jobs \ {r} : UNCHANGED <<op[s], plan[s], held[s], todo[s], read[s]>>
  BY <1>1 DEF Amounts, Inv, Shape
<1> QED BY <1>2, <1>3, <1>4, <1>5, PlansKept DEF Amounts

\* The rows of the plan are updated one after the other; one that is not eligible
\* any more raises ConcurrentModification.
LEMMA UpdateRowAmounts ==
    ASSUME Amounts, NEW r \in Jobs, UpdateRow(r)
    PROVE  Typed' /\ Plans'
<1>1. PICK a \in todo[r] :
         /\ todo' = [todo EXCEPT ![r] = @ \ {a}]
         /\ held' = [held EXCEPT ![r] = IF Eligible(a) THEN @ \cup {a} ELSE @]
  BY DEF UpdateRow
<1>2. op[r] = "writing" /\ UNCHANGED <<total, floor, quota, usage, cronLog, op, read, plan>>
  BY DEF UpdateRow, rows, config
<1>3. Typed'
  BY <1>2 DEF Amounts, Typed
<1>4. Planned(r)
  BY <1>2 DEF Amounts, Plans
<1>5. held'[r] \cup todo'[r] \subseteq held[r] \cup todo[r]
  BY <1>1 DEF Amounts, Inv, Shape
<1>6. Planned(r)'
  BY <1>2, <1>4, <1>5 DEF Planned
<1>7. \A s \in Jobs \ {r} : UNCHANGED <<op[s], plan[s], held[s], todo[s], read[s]>>
  BY <1>1, <1>2 DEF Amounts, Inv, Shape
<1> QED BY <1>2, <1>3, <1>6, <1>7, PlansKept DEF Amounts

\* Administrators change configuration, quotas and rows, never a rebalance.
LEMMA AdministerAmounts ==
    ASSUME Amounts, Administer \/ \E a \in Allocs : Accrue(a)
    PROVE  Typed' /\ Plans'
<1>1. UNCHANGED job
  BY DEF Administer, Patch, SetStatus, Create, UpdateConfig, Accrue
<1>2. Plans'
  BY <1>1 DEF Amounts, Plans, Planned, job
<1>3. ASSUME NEW a \in Allocs, NEW q \in Quotas \cup {Unlimited, quota[a]}, NEW p \in BOOLEAN, Patch(a, q, p)
      PROVE  Typed'
  <2>1. q \in Nat \cup {Unlimited}
    BY QuotasAssumption DEF Amounts, Typed
  <2>2. UNCHANGED <<total, floor, usage, cronLog, read, plan>> /\ quota' = [quota EXCEPT ![a] = q]
    BY <1>3 DEF Patch, config, job
  <2> QED BY <2>1, <2>2 DEF Amounts, Typed
<1>4. ASSUME NEW a \in Allocs, NEW s, SetStatus(a, s)
      PROVE  Typed'
  BY <1>4 DEF SetStatus, config, job, Amounts, Typed
<1>5. ASSUME NEW a \in Allocs, NEW q \in Quotas \cup {Unlimited}, Create(a, q)
      PROVE  Typed'
  <2>1. q \in Nat \cup {Unlimited}
    BY QuotasAssumption
  <2>2. UNCHANGED <<total, floor, usage, cronLog, read, plan>> /\ quota' = [quota EXCEPT ![a] = q]
    BY <1>5 DEF Create, config, job
  <2> QED BY <2>1, <2>2 DEF Amounts, Typed
<1>6. ASSUME NEW t \in Totals, NEW f \in Floors, UpdateConfig(t, f)
      PROVE  Typed'
  BY <1>6, QuotasAssumption DEF UpdateConfig, rows, job, Amounts, Typed
<1>7. ASSUME NEW a \in Allocs, Accrue(a)
      PROVE  Typed'
  BY <1>7 DEF Accrue, config, rows, job, Amounts, Typed
<1> QED BY <1>2, <1>3, <1>4, <1>5, <1>6, <1>7 DEF Administer

\* Every step keeps the amounts.
LEMMA AmountsStep == Amounts /\ [Next]_vars => Amounts'
<1> SUFFICES ASSUME Amounts, [Next]_vars PROVE Amounts'
  OBVIOUS
<1>1. Inv'
  BY NextKeeps DEF Amounts
<1>2. CASE \E r \in Jobs : Progress(r) \/ Fail(r) \/ \E cron \in BOOLEAN : Begin(r, cron)
  <2>1. PICK r \in Jobs : Progress(r) \/ Fail(r) \/ \E cron \in BOOLEAN : Begin(r, cron)
    BY <1>2
  <2>2. CASE Refuse(r) \/ Skip(r) \/ Fail(r)
    BY <2>2, RollbackAmounts, <1>1 DEF Refuse, Skip, Fail, Amounts
  <2> QED BY <1>1, <2>1, <2>2, BeginAmounts, ReadReservedAmounts, ReadPoolAmounts, UpdateRowAmounts,
             CommitAmounts DEF Progress, Amounts
<1>3. CASE Administer \/ \E a \in Allocs : Accrue(a)
  BY <1>1, <1>3, AdministerAmounts DEF Amounts
<1>4. CASE UNCHANGED vars
  <2>1. Typed' /\ Plans'
    BY <1>4 DEF vars, rows, config, job, Amounts, Typed, Plans, Planned
  <2> QED BY <1>1, <2>1 DEF Amounts
<1> QED BY <1>2, <1>3, <1>4 DEF Next

\* The amounts of every reachable state.
LEMMA AmountsInvariant == Spec => []Amounts
BY AmountsInit, AmountsStep, PTL DEF Spec

\* Every rebalance, every administrator and every call keep the types: no quota,
\* none of the stored and none of the planned, is ever below 0.
THEOREM TypeCorrect == Spec => []TypeOK
BY AmountsType, AmountsInvariant, PTL

-----------------------------------------------------------------------------
\* A rebalance reaches its writes only by reading its pool.
LEMMA WritesAfterPool ==
    ASSUME Amounts, Next, NEW r \in Jobs, op[r] = "pool", op'[r] = "writing"
    PROVE  ReadPool(r)
<1>1. ASSUME UNCHANGED job PROVE FALSE
  BY <1>1 DEF job
<1>2. ASSUME NEW s \in Jobs, Progress(s) \/ Fail(s) \/ \E cron \in BOOLEAN : Begin(s, cron)
      PROVE  ReadPool(r)
  <2>1. op \in [Jobs -> {"idle", "reserved", "pool", "writing"}]
    BY DEF Amounts, Inv, Shape
  <2>2. CASE ReadPool(s)
    <3>1. op' = [op EXCEPT ![s] = "writing"]
      BY <2>2 DEF ReadPool
    <3>2. s = r
      BY <2>1, <3>1
    <3> QED BY <2>2, <3>2
  <2>3. CASE ~ ReadPool(s)
    <3>1. \/ \E o \in {"idle", "reserved", "pool"} : op' = [op EXCEPT ![s] = o]
          \/ op' = op
      BY <1>2, <2>3 DEF Progress, Fail, Begin, ReadReserved, Refuse, UpdateRow, Commit, Skip, Rollback, End
    <3> QED BY <2>1, <3>1
  <2> QED BY <2>2, <2>3
<1> QED BY <1>1, <1>2 DEF Next, Administer, Patch, SetStatus, Create, UpdateConfig, Accrue

\* compute_rebalance, whatever the statements before it have read.
THEOREM SharesAreSound == Spec => SharesSound
<1> DEFINE Sound(r) ==
        op[r] = "pool" /\ op'[r] = "writing" =>
          LET new == plan'[r]
          IN  /\ SumFunctionOnSet(new, DOMAIN new) + read[r].reserved = read[r].total
              /\ \A a \in DOMAIN new : new[a] >= read[r].floor
              /\ \A a, b \in DOMAIN new : usage[a] > usage[b] => new[a] >= new[b]
<1>1. Amounts /\ [Next]_vars => [\A r \in Jobs : Sound(r)]_vars
  <2> SUFFICES ASSUME Amounts, Next, NEW r \in Jobs, op[r] = "pool", op'[r] = "writing"
               PROVE  Sound(r)
    OBVIOUS
  <2>1. Fair(plan'[r], read[r], usage, Pool)
    BY WritesAfterPool, ReadPoolPlans
  <2>2. read[r].total \in Nat /\ read[r].reserved \in Nat
    BY DEF Amounts, Typed
  <2> QED BY <2>1, <2>2 DEF Fair
<1> QED BY <1>1, AmountsInvariant, PTL DEF Spec, SharesSound

\* Quotas change at the end of a rebalance only by its commit.
LEMMA EndsByCommit ==
    ASSUME Amounts, Next, NEW r \in Jobs, Ends(r), quota' # quota
    PROVE  Commit(r)
<1>1. ASSUME UNCHANGED job PROVE FALSE
  BY <1>1 DEF job, Ends
<1>2. ASSUME NEW s \in Jobs, Progress(s) \/ Fail(s) \/ \E cron \in BOOLEAN : Begin(s, cron)
      PROVE  Commit(r)
  <2>1. Commit(s)
    BY <1>2 DEF Progress, Fail, Begin, ReadReserved, ReadPool, Refuse, UpdateRow, Skip, Rollback, rows
  <2>2. op \in [Jobs -> {"idle", "reserved", "pool", "writing"}] /\ op' = [op EXCEPT ![s] = "idle"]
    BY <2>1 DEF Amounts, Inv, Shape, Commit, End
  <2>3. s = r
    BY <2>2 DEF Ends
  <2> QED BY <2>1, <2>3
<1> QED BY <1>1, <1>2 DEF Next, Administer, Patch, SetStatus, Create, UpdateConfig, Accrue

\* apply_rebalance conserves the total if it wrote every row of its pool.
THEOREM TotalConserved == Spec => ConservedWhenCurrent
<1> DEFINE Conserved(r) ==
          /\ Ends(r) /\ quota' # quota
          /\ held[r] = Pool /\ DOMAIN plan[r] = Pool
          /\ Reserved(quota) = read[r].reserved
          => TokensOf(quota', Active) = read[r].total
<1>1. Amounts /\ [Next]_vars => [\A r \in Jobs : Conserved(r)]_vars
  <2> SUFFICES ASSUME Amounts, Next, NEW r \in Jobs, Ends(r), quota' # quota,
                      held[r] = Pool, DOMAIN plan[r] = Pool, Reserved(quota) = read[r].reserved
               PROVE  TokensOf(quota', Active) = read[r].total
    OBVIOUS
  <2>1. Commit(r)
    BY EndsByCommit
  <2>2. op[r] = "writing" /\ quota' = [a \in Allocs |-> IF a \in Pool THEN plan[r][a] ELSE quota[a]]
    BY <2>1 DEF Commit
  <2>3. Planned(r)
    BY <2>2 DEF Amounts, Plans
  <2> DEFINE p == plan[r]
             old == [a \in Allocs |-> Tokens(quota[a])]
             new == [a \in Allocs |-> Tokens(quota'[a])]
             rest == Active \ Pool
  <2>4. Pool \subseteq Active /\ Active \subseteq Allocs
    BY DEF Pool, Active, Eligible
  <2>5. IsFiniteSet(Active) /\ IsFiniteSet(Pool) /\ IsFiniteSet(rest)
    BY <2>4, AllocsAssumption, FS_Subset
  <2>6. \A a \in Pool : p[a] \in Nat /\ new[a] = p[a]
    BY <2>2, <2>3, <2>4, UnlimitedAssumption DEF Planned, Tokens
  <2>7. \A a \in rest : old[a] \in Nat /\ new[a] = old[a]
    BY <2>2, <2>4, UnlimitedAssumption DEF Amounts, Typed, Tokens
  <2>8. SumFunctionOnSet(p, Pool) = read[r].total - read[r].reserved
    BY <2>3 DEF Planned
  <2>9. SumFunctionOnSet(old, rest) = read[r].reserved
    BY DEF Reserved, TokensOf
  <2> HIDE DEF p, old, new, rest
  <2>10. SumFunctionOnSet(new, Pool) = SumFunctionOnSet(p, Pool)
    BY <2>5, <2>6, SumSame
  <2>11. SumFunctionOnSet(new, rest) = SumFunctionOnSet(old, rest)
    BY <2>5, <2>7, SumSame
  <2>12. SumFunctionOnSet(new, Active) = SumFunctionOnSet(new, Pool) + SumFunctionOnSet(new, rest)
    <3>1. \A a \in Active : new[a] \in Int
      BY <2>6, <2>7 DEF rest
    <3> QED BY <2>4, <2>5, <3>1, SumSplits DEF rest
  <2>13. read[r].total \in Nat /\ read[r].reserved \in Nat
    BY DEF Amounts, Typed
  <2>14. SumFunctionOnSet(new, Active) = read[r].total
    BY <2>8, <2>9, <2>10, <2>11, <2>12, <2>13
  <2> QED BY <2>14 DEF TokensOf, new
<1> QED BY <1>1, AmountsInvariant, PTL DEF Spec, ConservedWhenCurrent

\* The partial unique index of the log: the second cron run of a period is
\* refused, and what it wrote is undone.
THEOREM CronRunsOnce == Spec => OneCronRun
<1>1. Amounts /\ [Next]_vars =>
        [\A r \in Jobs : Ends(r) /\ read[r].cron /\ cronLog => quota' = quota]_vars
  <2> SUFFICES ASSUME Amounts, Next, NEW r \in Jobs, Ends(r), read[r].cron, cronLog, quota' # quota
               PROVE  FALSE
    OBVIOUS
  <2> QED BY EndsByCommit DEF Commit, Duplicate
<1> QED BY <1>1, AmountsInvariant, PTL DEF Spec, OneCronRun

-----------------------------------------------------------------------------
\* The assumptions of SignInThrottle on its constants.
Configured ==
    /\ IsFiniteSet(Emails) /\ IsFiniteSet(Ips) /\ IsFiniteSet(SignIns)
    /\ Threshold \in Nat \ {0} /\ IpThreshold \in Nat \ {0}
    /\ Window \in Nat \ {0} /\ Lock \in Nat /\ Lock > Window

\* A window has ages (WINDOW), and a lock outlasts it (LOCK_DURATION).
LEMMA WindowBounds ==
    ASSUME Configured
    PROVE  Window \in Nat \ {0} /\ Lock \in Nat /\ Lock > Window
BY DEF Configured

\* A sign-in in flight holds a row.
LEMMA RowHeld ==
    ASSUME Configured, Throttle!TypeOK, NEW r \in SignIns, sign[r] # Throttle!Idle
    PROVE  /\ sign[r] \in Throttle!Row /\ sign[r].e \in Emails /\ sign[r].i \in Ips
           /\ sign[r].age \in 0..Lock
BY DEF Throttle!TypeOK, Throttle!Row

\* A row that becomes visible late counts for what is left, never for longer,
\* and the newer of two locks is one of the two.
LEMMA LockInRange ==
    ASSUME Configured, NEW a \in 0..Lock, NEW t, t.age \in 0..Lock
    PROVE  Throttle!Newest(a, Throttle!Left(Lock, t)) \in 0..Lock
<1>1. Throttle!Left(Lock, t) \in 0..Lock
  BY WindowBounds DEF Throttle!Left
<1> QED BY <1>1 DEF Throttle!Newest

\* A lock has a tick less, and not less than none.
LEMMA DownInRange ==
    ASSUME Configured, NEW n \in 0..Lock
    PROVE  Throttle!Down(n) \in 0..Lock
BY WindowBounds DEF Throttle!Down

\* A sign-in that passed its checks writes a row (record_attempt, is_locked, is_ip_locked).
LEMMA SignInBegins ==
    ASSUME Configured, Throttle!TypeOK, NEW r \in SignIns, NEW e \in Emails, NEW i \in Ips,
           NEW row \in {"fail", "email_lock", "ip_lock"}, Throttle!Begin(r, row, e, i)
    PROVE  Throttle!TypeOK'
<1>1. [row |-> row, e |-> e, i |-> i, age |-> 0] \in Throttle!Row
  BY WindowBounds DEF Throttle!Row
<1> QED BY <1>1 DEF Throttle!TypeOK, Throttle!Begin

\* A failure is counted at the age it has by now.
LEMMA FailureCounts ==
    ASSUME Configured, Throttle!TypeOK, NEW r \in SignIns, Throttle!CommitFail(r)
    PROVE  Throttle!TypeOK'
<1> DEFINE t == sign[r]
<1>1. t \in Throttle!Row /\ t.e \in Emails /\ t.i \in Ips /\ sign[r] # Throttle!Idle
  BY RowHeld DEF Throttle!CommitFail, Throttle!Commits
<1>2. fails' \in [Emails \X Ips -> [0..Window - 1 -> Nat]]
  <2>1. CASE t.age \in Throttle!Ages
    <3>1. <<t.e, t.i>> \in Emails \X Ips /\ fails[<<t.e, t.i>>] \in [0..Window - 1 -> Nat]
      BY <1>1 DEF Throttle!TypeOK
    <3> DEFINE f == fails[<<t.e, t.i>>]
               a == t.age
    <3>2. f[a] + 1 \in Nat
      <4>1. f \in [0..Window - 1 -> Nat] /\ a \in 0..Window - 1
        BY <2>1, <3>1 DEF Throttle!Ages
      <4> HIDE DEF f, a
      <4>2. f[a] \in Nat
        BY <4>1
      <4> QED BY <4>2
    <3>3. fails' = [fails EXCEPT ![<<t.e, t.i>>] = [f EXCEPT ![a] = f[a] + 1]]
      BY <2>1 DEF Throttle!CommitFail
    <3>4. [f EXCEPT ![a] = f[a] + 1] \in [0..Window - 1 -> Nat]
      BY <3>1, <3>2
    <3> QED BY <3>1, <3>3, <3>4 DEF Throttle!TypeOK
  <2>2. CASE t.age \notin Throttle!Ages
    BY <2>2 DEF Throttle!CommitFail, Throttle!TypeOK
  <2> QED BY <2>1, <2>2
<1>3. blamed' \subseteq Emails \cup Ips
  BY <1>1 DEF Throttle!CommitFail, Throttle!TypeOK
<1>4. sign' \in [SignIns -> {Throttle!Idle} \cup Throttle!Row] /\ UNCHANGED <<emailLock, ipLock, allowed>>
  BY DEF Throttle!CommitFail, Throttle!Commits, Throttle!TypeOK
<1> QED BY <1>2, <1>3, <1>4 DEF Throttle!TypeOK

\* A marker sets a lock within its range.
LEMMA LockSets ==
    ASSUME Configured, Throttle!TypeOK, NEW r \in SignIns, Throttle!CommitEmailLock(r) \/ Throttle!CommitIpLock(r)
    PROVE  Throttle!TypeOK'
<1>1. /\ sign[r].e \in Emails /\ sign[r].i \in Ips /\ sign[r].age \in 0..Lock
  BY RowHeld DEF Throttle!CommitEmailLock, Throttle!CommitIpLock, Throttle!Commits
<1>2. sign' \in [SignIns -> {Throttle!Idle} \cup Throttle!Row] /\ UNCHANGED <<fails, allowed, blamed>>
  BY DEF Throttle!CommitEmailLock, Throttle!CommitIpLock, Throttle!Commits, Throttle!TypeOK
<1>3. emailLock' \in [Emails -> 0..Lock] /\ ipLock' \in [Ips -> 0..Lock]
  <2>1. /\ Throttle!Newest(emailLock[sign[r].e], Throttle!Left(Lock, sign[r])) \in 0..Lock
        /\ Throttle!Newest(ipLock[sign[r].i], Throttle!Left(Lock, sign[r])) \in 0..Lock
    BY <1>1, LockInRange DEF Throttle!TypeOK
  <2> QED BY <2>1 DEF Throttle!CommitEmailLock, Throttle!CommitIpLock, Throttle!TypeOK
<1> QED BY <1>2, <1>3 DEF Throttle!TypeOK

\* Time passes for attempts, locks and rows in flight.
LEMMA TimePasses ==
    ASSUME Configured, Throttle!TypeOK, Throttle!Tick
    PROVE  Throttle!TypeOK'
<1>1. fails' \in [Emails \X Ips -> [0..Window - 1 -> Nat]]
  <2>1. ASSUME NEW p \in Emails \X Ips, NEW a \in Throttle!Ages
        PROVE  (IF a = 0 THEN 0 ELSE fails[p][a - 1]) \in Nat
    <3>1. fails[p] \in [0..Window - 1 -> Nat]
      BY <2>1 DEF Throttle!TypeOK
    <3>2. a # 0 => a - 1 \in 0..Window - 1
      BY <2>1, WindowBounds DEF Throttle!Ages
    <3> QED BY <3>1, <3>2
  <2> QED BY <2>1 DEF Throttle!Tick, Throttle!Ages
<1>2. emailLock' \in [Emails -> 0..Lock] /\ ipLock' \in [Ips -> 0..Lock]
  BY DownInRange DEF Throttle!Tick, Throttle!TypeOK
<1>3. sign' \in [SignIns -> {Throttle!Idle} \cup Throttle!Row]
  <2>1. ASSUME NEW r \in SignIns, sign[r] # Throttle!Idle, sign[r].age # Lock
        PROVE  [sign[r] EXCEPT !.age = sign[r].age + 1] \in Throttle!Row
    <3>1. sign[r] \in Throttle!Row /\ sign[r].age \in 0..Lock
      BY <2>1, RowHeld
    <3>2. sign[r].age + 1 \in 0..Lock
      BY <2>1, <3>1, WindowBounds
    <3> QED BY <3>1, <3>2 DEF Throttle!Row
  <2> QED BY <2>1 DEF Throttle!Tick, Throttle!TypeOK
<1> QED BY <1>1, <1>2, <1>3 DEF Throttle!Tick, Throttle!TypeOK

\* Every sign-in, every administrator and the clock keep the types: in
\* particular no lock of is_locked or is_ip_locked outlasts LOCK_DURATION.
THEOREM ThrottleTypes ==
    ASSUME Configured
    PROVE  Throttle!Spec => []Throttle!TypeOK
<1>1. Throttle!Init => Throttle!TypeOK
  BY WindowBounds DEF Throttle!Init, Throttle!TypeOK, Throttle!Ages
<1>2. Throttle!TypeOK /\ [Throttle!Next]_Throttle!vars => Throttle!TypeOK'
  <2> SUFFICES ASSUME Throttle!TypeOK, [Throttle!Next]_Throttle!vars PROVE Throttle!TypeOK'
    OBVIOUS
  <2>1. ASSUME NEW r \in SignIns, NEW e \in Emails, NEW i \in Ips,
               Throttle!MarkIp(r, e, i) \/ Throttle!MarkEmail(r, e, i) \/ Throttle!Fail(r, e, i)
        PROVE  Throttle!TypeOK'
    BY <2>1, SignInBegins DEF Throttle!MarkIp, Throttle!MarkEmail, Throttle!Fail
  <2>2. ASSUME NEW r \in SignIns, Throttle!Abort(r)
        PROVE  Throttle!TypeOK'
    BY <2>2 DEF Throttle!Abort, Throttle!TypeOK
  <2>3. ASSUME NEW i \in Ips, Throttle!EditSources(i)
        PROVE  Throttle!TypeOK'
    BY <2>3 DEF Throttle!EditSources, Throttle!TypeOK
  <2>4. CASE UNCHANGED Throttle!vars
    BY <2>4 DEF Throttle!vars, Throttle!TypeOK
  <2> QED BY <2>1, <2>2, <2>3, <2>4, FailureCounts, LockSets, TimePasses DEF Throttle!Next
<1> QED BY <1>1, <1>2, PTL DEF Throttle!Spec

-----------------------------------------------------------------------------
\* The failures of an identifier, of a source, by where and when they happened.
EmailSlots(e) == [x \in Ips \X Throttle!Ages |-> fails[<<e, x[1]>>][x[2]]]
IpSlots(i) == [x \in Emails \X Throttle!Ages |-> fails[<<x[1], i>>][x[2]]]

\* The sum that SignInThrottle takes is the one above.
LEMMA SameSum ==
    ASSUME NEW f
    PROVE  Throttle!SumFunction(f) = SumFunctionOnSet(f, DOMAIN f)
BY DEF Throttle!SumFunction, Throttle!SumFunctionOnSet, Throttle!FoldFunctionOnSet,
       Throttle!MapThenFoldSet, SumFunctionOnSet, FoldFunctionOnSet, MapThenFoldSet

\* The counts of _count_since are numbers, sums over the slots.
CountsSound ==
    /\ IsFiniteSet(Ips \X Throttle!Ages) /\ IsFiniteSet(Emails \X Throttle!Ages)
    /\ \A e \in Emails :
          /\ \A x \in Ips \X Throttle!Ages : EmailSlots(e)[x] \in Nat
          /\ Throttle!EmailFails(e) = SumFunctionOnSet(EmailSlots(e), Ips \X Throttle!Ages)
          /\ Throttle!EmailFails(e) \in Nat
    /\ \A i \in Ips :
          /\ \A x \in Emails \X Throttle!Ages : IpSlots(i)[x] \in Nat
          /\ Throttle!IpFails(i) = SumFunctionOnSet(IpSlots(i), Emails \X Throttle!Ages)
          /\ Throttle!IpFails(i) \in Nat

\* _count_since counts attempts: the count is a number, and zero without any.
LEMMA CountsAreNat ==
    ASSUME Configured
    PROVE  Throttle!TypeOK => CountsSound
<1> SUFFICES ASSUME Throttle!TypeOK PROVE CountsSound
  OBVIOUS
<1> DEFINE SE == Ips \X Throttle!Ages
           SI == Emails \X Throttle!Ages
<1>1. IsFiniteSet(SE) /\ IsFiniteSet(SI)
  <2>1. IsFiniteSet(Throttle!Ages)
    <3>1. 0 \in Int /\ Window - 1 \in Int
      BY WindowBounds
    <3> QED BY <3>1, FS_Interval DEF Throttle!Ages
  <2>2. IsFiniteSet(Emails) /\ IsFiniteSet(Ips)
    BY DEF Configured
  <2> HIDE DEF Throttle!Ages
  <2> QED BY <2>1, <2>2, FS_Product
<1>2. ASSUME NEW e \in Emails, NEW i \in Ips, NEW a \in Throttle!Ages
      PROVE  fails[<<e, i>>][a] \in Nat
  <2>1. fails[<<e, i>>] \in [0..Window - 1 -> Nat]
    BY DEF Throttle!TypeOK
  <2> QED BY <2>1 DEF Throttle!Ages
<1>3. ASSUME NEW e \in Emails
      PROVE  /\ \A x \in SE : EmailSlots(e)[x] \in Nat
             /\ Throttle!EmailFails(e) = SumFunctionOnSet(EmailSlots(e), SE)
  <2>1. \A x \in SE : EmailSlots(e)[x] \in Nat
    BY <1>2 DEF EmailSlots
  <2> QED BY <2>1, SameSum DEF EmailSlots, Throttle!EmailFails
<1>4. ASSUME NEW i \in Ips
      PROVE  /\ \A x \in SI : IpSlots(i)[x] \in Nat
             /\ Throttle!IpFails(i) = SumFunctionOnSet(IpSlots(i), SI)
  <2>1. \A x \in SI : IpSlots(i)[x] \in Nat
    BY <1>2 DEF IpSlots
  <2> QED BY <2>1, SameSum DEF IpSlots, Throttle!IpFails
<1> HIDE DEF SE, SI
<1>5. \A e \in Emails : SumFunctionOnSet(EmailSlots(e), SE) \in Nat
  BY <1>1, <1>3, SumIsNat
<1>6. \A i \in Ips : SumFunctionOnSet(IpSlots(i), SI) \in Nat
  BY <1>1, <1>4, SumIsNat
<1> QED BY <1>1, <1>3, <1>4, <1>5, <1>6 DEF SE, SI, CountsSound

\* The same of the counts after a step.
LEMMA CountsAreNatNext ==
    ASSUME Configured
    PROVE  Throttle!TypeOK' => CountsSound'
BY CountsAreNat, PTL

\* Whoever has a failure, a lock or a marker on its way has been blamed.
Blamed ==
    /\ \A e \in Emails, i \in Ips, a \in Throttle!Ages :
          fails[<<e, i>>][a] > 0 => e \in blamed /\ i \in blamed
    /\ \A e \in Emails : emailLock[e] > 0 => e \in blamed
    /\ \A i \in Ips : ipLock[i] > 0 => i \in blamed
    /\ \A r \in SignIns : /\ sign[r].row = "email_lock" => sign[r].e \in blamed
                          /\ sign[r].row = "ip_lock" => sign[r].i \in blamed

\* is_locked, is_ip_locked: a threshold is reached only by failures.
LEMMA FullIsBlamed ==
    ASSUME Configured, Throttle!TypeOK, Blamed
    PROVE  /\ \A e \in Emails : Throttle!EmailFull(e) => e \in blamed
           /\ \A i \in Ips : Throttle!IpFull(i) => i \in blamed
<1>1. ASSUME NEW e \in Emails, Throttle!EmailFull(e)
      PROVE  e \in blamed
  <2>1. Throttle!EmailFails(e) > 0
    BY <1>1, CountsAreNat DEF Throttle!EmailFull, Configured, CountsSound
  <2>2. \E x \in Ips \X Throttle!Ages : EmailSlots(e)[x] > 0
    BY <2>1, CountsAreNat, SumPositive DEF CountsSound
  <2> QED BY <2>2 DEF EmailSlots, Blamed
<1>2. ASSUME NEW i \in Ips, Throttle!IpFull(i)
      PROVE  i \in blamed
  <2>1. Throttle!IpFails(i) > 0
    BY <1>2, CountsAreNat DEF Throttle!IpFull, Configured, CountsSound
  <2>2. \E x \in Emails \X Throttle!Ages : IpSlots(i)[x] > 0
    BY <2>1, CountsAreNat, SumPositive DEF CountsSound
  <2> QED BY <2>2 DEF IpSlots, Blamed
<1> QED BY <1>1, <1>2

\* The number of sign-ins that SignInThrottle takes is the one of the library.
LEMMA SameCardinality ==
    ASSUME NEW S
    PROVE  Throttle!Cardinality(S) = Cardinality(S) /\ (Throttle!IsFiniteSet(S) <=> IsFiniteSet(S))
BY DEF Throttle!Cardinality, Throttle!IsFiniteSet, Cardinality, IsFiniteSet

\* A sign-in begins: a marker follows a full count, a failure a count that is not.
LEMMA BeginEffect ==
    ASSUME Configured, Throttle!TypeOK, NEW r \in SignIns, NEW e \in Emails, NEW i \in Ips,
           NEW row \in {"fail", "email_lock", "ip_lock"}, Throttle!Begin(r, row, e, i)
    PROVE  /\ sign[r] = Throttle!Idle /\ UNCHANGED <<fails, emailLock, ipLock, blamed>>
           /\ sign'[r].row = row /\ sign'[r].e = e /\ sign'[r].i = i
           /\ \A s \in SignIns \ {r} : sign'[s] = sign[s]
BY DEF Throttle!Begin, Throttle!TypeOK

\* is_locked and is_ip_locked write a marker only after failures.
LEMMA BeginBlamed ==
    ASSUME Configured, Throttle!TypeOK, Blamed, NEW r \in SignIns, NEW e \in Emails, NEW i \in Ips,
           Throttle!MarkIp(r, e, i) \/ Throttle!MarkEmail(r, e, i) \/ Throttle!Fail(r, e, i)
    PROVE  Blamed'
<1>1. CASE Throttle!MarkIp(r, e, i)
  <2>1. i \in blamed
    BY <1>1, FullIsBlamed DEF Throttle!MarkIp
  <2>2. Throttle!Begin(r, "ip_lock", e, i)
    BY <1>1 DEF Throttle!MarkIp
  <2> QED BY <2>1, <2>2, BeginEffect DEF Blamed
<1>2. CASE Throttle!MarkEmail(r, e, i)
  <2>1. e \in blamed
    BY <1>2, FullIsBlamed DEF Throttle!MarkEmail
  <2>2. Throttle!Begin(r, "email_lock", e, i)
    BY <1>2 DEF Throttle!MarkEmail
  <2> QED BY <2>1, <2>2, BeginEffect DEF Blamed
<1>3. CASE Throttle!Fail(r, e, i)
  <2>1. Throttle!Begin(r, "fail", e, i)
    BY <1>3 DEF Throttle!Fail
  <2> QED BY <2>1, BeginEffect DEF Blamed
<1> QED BY <1>1, <1>2, <1>3

\* A recorded failure blames, a marker locks who is blamed (record_attempt).
LEMMA CommitBlamed ==
    ASSUME Configured, Throttle!TypeOK, Blamed, NEW r \in SignIns,
           Throttle!CommitFail(r) \/ Throttle!CommitEmailLock(r) \/ Throttle!CommitIpLock(r)
    PROVE  Blamed'
<1> DEFINE t == sign[r]
<1>1. t.e \in Emails /\ t.i \in Ips /\ t.age \in 0..Lock
  BY RowHeld DEF Throttle!CommitFail, Throttle!CommitEmailLock, Throttle!CommitIpLock, Throttle!Commits
<1>2. \A s \in SignIns : sign'[s] = sign[s] \/ sign'[s].row = "none"
  BY DEF Throttle!CommitFail, Throttle!CommitEmailLock, Throttle!CommitIpLock, Throttle!Commits,
         Throttle!TypeOK, Throttle!Idle
<1>3. blamed \subseteq blamed'
  BY DEF Throttle!CommitFail, Throttle!CommitEmailLock, Throttle!CommitIpLock
<1>4. \A s \in SignIns : /\ sign'[s].row = "email_lock" => sign'[s].e \in blamed'
                         /\ sign'[s].row = "ip_lock" => sign'[s].i \in blamed'
  BY <1>2, <1>3 DEF Blamed
<1>5. \A e \in Emails, i \in Ips, a \in Throttle!Ages :
         fails'[<<e, i>>][a] > 0 => e \in blamed' /\ i \in blamed'
  <2> SUFFICES ASSUME NEW e \in Emails, NEW i \in Ips, NEW a \in Throttle!Ages, fails'[<<e, i>>][a] > 0
               PROVE  e \in blamed' /\ i \in blamed'
    OBVIOUS
  <2>1. CASE fails'[<<e, i>>] = fails[<<e, i>>]
    BY <2>1, <1>3 DEF Blamed
  <2>2. CASE fails'[<<e, i>>] # fails[<<e, i>>]
    <3>1. Throttle!CommitFail(r) /\ <<e, i>> = <<t.e, t.i>>
      BY <2>2, <1>1 DEF Throttle!CommitFail, Throttle!CommitEmailLock, Throttle!CommitIpLock, Throttle!TypeOK
    <3>2. blamed' = blamed \cup {t.e, t.i}
      BY <3>1 DEF Throttle!CommitFail
    <3> QED BY <3>1, <3>2
  <2> QED BY <2>1, <2>2
<1>6. \A e \in Emails : emailLock'[e] > 0 => e \in blamed'
  <2> SUFFICES ASSUME NEW e \in Emails, emailLock'[e] > 0 PROVE e \in blamed'
    OBVIOUS
  <2>1. CASE emailLock'[e] = emailLock[e]
    BY <2>1, <1>3 DEF Blamed
  <2>2. CASE emailLock'[e] # emailLock[e]
    <3>1. t.row = "email_lock" /\ e = t.e
      BY <2>2, <1>1 DEF Throttle!CommitFail, Throttle!CommitEmailLock, Throttle!CommitIpLock,
                       Throttle!Commits, Throttle!TypeOK
    <3> QED BY <3>1, <1>3 DEF Blamed
  <2> QED BY <2>1, <2>2
<1>7. \A i \in Ips : ipLock'[i] > 0 => i \in blamed'
  <2> SUFFICES ASSUME NEW i \in Ips, ipLock'[i] > 0 PROVE i \in blamed'
    OBVIOUS
  <2>1. CASE ipLock'[i] = ipLock[i]
    BY <2>1, <1>3 DEF Blamed
  <2>2. CASE ipLock'[i] # ipLock[i]
    <3>1. t.row = "ip_lock" /\ i = t.i
      BY <2>2, <1>1 DEF Throttle!CommitFail, Throttle!CommitEmailLock, Throttle!CommitIpLock,
                       Throttle!Commits, Throttle!TypeOK
    <3> QED BY <3>1, <1>3 DEF Blamed
  <2> QED BY <2>1, <2>2
<1> QED BY <1>4, <1>5, <1>6, <1>7 DEF Blamed

\* A tick moves every failure to the next age and changes nobody's sign-in but its age.
LEMMA TickEffect ==
    ASSUME Configured, Throttle!TypeOK, Throttle!Tick
    PROVE  /\ \A e \in Emails, i \in Ips, a \in Throttle!Ages :
                 fails'[<<e, i>>][a] = IF a = 0 THEN 0 ELSE fails[<<e, i>>][a - 1]
           /\ \A a \in Throttle!Ages : a # 0 => a - 1 \in Throttle!Ages
           /\ \A e \in Emails : emailLock'[e] > 0 => emailLock[e] > 0
           /\ \A i \in Ips : ipLock'[i] > 0 => ipLock[i] > 0
           /\ \A r \in SignIns : \/ sign'[r] = sign[r]
                                 \/ sign'[r].row = sign[r].row /\ sign'[r].e = sign[r].e
                                    /\ sign'[r].i = sign[r].i
           /\ blamed' = blamed
<1>1. \A e \in Emails, i \in Ips, a \in Throttle!Ages :
         fails'[<<e, i>>][a] = IF a = 0 THEN 0 ELSE fails[<<e, i>>][a - 1]
  BY DEF Throttle!Tick
<1>2. \A a \in Throttle!Ages : a # 0 => a - 1 \in Throttle!Ages
  BY WindowBounds DEF Throttle!Ages
<1>3. \A e \in Emails : emailLock'[e] = Throttle!Down(emailLock[e]) /\ emailLock[e] \in 0..Lock
  BY DEF Throttle!Tick, Throttle!TypeOK
<1>4. \A i \in Ips : ipLock'[i] = Throttle!Down(ipLock[i]) /\ ipLock[i] \in 0..Lock
  BY DEF Throttle!Tick, Throttle!TypeOK
<1>5. \A n \in 0..Lock : Throttle!Down(n) > 0 => n > 0
  BY WindowBounds DEF Throttle!Down
<1>6. ASSUME NEW r \in SignIns
      PROVE  \/ sign'[r] = sign[r]
             \/ sign'[r].row = sign[r].row /\ sign'[r].e = sign[r].e /\ sign'[r].i = sign[r].i
  <2>1. CASE sign[r] = Throttle!Idle \/ sign[r].age = Lock
    BY <2>1 DEF Throttle!Tick
  <2>2. CASE ~ (sign[r] = Throttle!Idle \/ sign[r].age = Lock)
    <3>1. sign'[r] = [sign[r] EXCEPT !.age = sign[r].age + 1] /\ sign[r] \in Throttle!Row
      BY <2>2, RowHeld DEF Throttle!Tick
    <3> QED BY <3>1 DEF Throttle!Row
  <2> QED BY <2>1, <2>2
<1> QED BY <1>1, <1>2, <1>3, <1>4, <1>5, <1>6 DEF Throttle!Tick

\* Every step keeps it so.
LEMMA BlamedStep ==
    ASSUME Configured, Throttle!TypeOK, Blamed, [Throttle!Next]_Throttle!vars
    PROVE  Blamed'
<1>1. CASE Throttle!Tick
  BY <1>1, TickEffect DEF Blamed
<1>2. ASSUME NEW r \in SignIns, Throttle!Abort(r)
      PROVE  Blamed'
  <2>1. \A s \in SignIns : sign'[s] = sign[s] \/ sign'[s].row = "none"
    BY <1>2 DEF Throttle!Abort, Throttle!TypeOK, Throttle!Idle
  <2>2. UNCHANGED <<fails, emailLock, ipLock, blamed>>
    BY <1>2 DEF Throttle!Abort
  <2> QED BY <2>1, <2>2 DEF Blamed
<1>3. ASSUME NEW i \in Ips, Throttle!EditSources(i)
      PROVE  Blamed'
  BY <1>3 DEF Throttle!EditSources, Blamed
<1>4. CASE UNCHANGED Throttle!vars
  BY <1>4 DEF Throttle!vars, Blamed
<1> QED BY <1>1, <1>2, <1>3, <1>4, BeginBlamed, CommitBlamed DEF Throttle!Next

\* Locks do not spread to those no failure was recorded of.
THEOREM LocksDoNotSpread ==
    ASSUME Configured
    PROVE  Throttle!Spec => []Throttle!InnocentUnlocked
<1>1. Throttle!Init => Blamed
  BY DEF Throttle!Init, Blamed, Throttle!Idle
<1>2. Throttle!TypeOK /\ Throttle!TypeOK' /\ Blamed /\ [Throttle!Next]_Throttle!vars => Blamed'
  BY BlamedStep
<1>3. Throttle!TypeOK /\ Blamed => Throttle!InnocentUnlocked
  <2> SUFFICES ASSUME Throttle!TypeOK, Blamed PROVE Throttle!InnocentUnlocked
    OBVIOUS
  <2>1. (\A e \in Emails : emailLock[e] \in 0..Lock) /\ (\A i \in Ips : ipLock[i] \in 0..Lock)
    BY DEF Throttle!TypeOK
  <2>2. \A n \in 0..Lock : n = 0 \/ n > 0
    BY WindowBounds
  <2> QED BY <2>1, <2>2 DEF Blamed, Throttle!InnocentUnlocked
<1> QED BY <1>1, <1>2, <1>3, ThrottleTypes, PTL DEF Throttle!Spec

-----------------------------------------------------------------------------
\* The failures on their way to an identifier, to a source.
Failing(e) == {r \in SignIns : sign[r].row = "fail" /\ sign[r].e = e}
FailingFrom(i) == {r \in SignIns : sign[r].row = "fail" /\ sign[r].i = i}

\* Counts n before, m after, failures on their way F before, G after: none is
\* more, or the limit was not reached, or one of them was counted.
Follows(n, F, m, G, limit) ==
    \/ m <= n /\ G \subseteq F
    \/ m < limit
    \/ \E r \in F : m <= n + 1 /\ G \subseteq F \ {r}

\* What has failed and what is failing stay below the bound together.
LEMMA BoundKept ==
    ASSUME Configured, NEW n \in Nat, NEW m \in Nat, NEW limit \in Nat \ {0},
           NEW F \in SUBSET SignIns, NEW G \in SUBSET SignIns, Follows(n, F, m, G, limit),
           n + Cardinality(F) <= limit - 1 + Cardinality(SignIns)
    PROVE  m + Cardinality(G) <= limit - 1 + Cardinality(SignIns)
<1>1. IsFiniteSet(SignIns) /\ IsFiniteSet(F) /\ IsFiniteSet(G)
  <2>1. IsFiniteSet(SignIns)
    BY DEF Configured
  <2> QED BY <2>1, FS_Subset
<1>2. /\ Cardinality(F) \in Nat /\ Cardinality(G) \in Nat /\ Cardinality(SignIns) \in Nat
      /\ Cardinality(G) <= Cardinality(SignIns)
  BY <1>1, FS_CardinalityType, FS_Subset
<1>3. CASE m <= n /\ G \subseteq F
  <2>1. Cardinality(G) <= Cardinality(F)
    BY <1>1, <1>3, FS_Subset
  <2> QED BY <1>2, <1>3, <2>1
<1>4. CASE m < limit
  BY <1>2, <1>4
<1>5. ASSUME NEW r \in F, m <= n + 1, G \subseteq F \ {r}
      PROVE  m + Cardinality(G) <= limit - 1 + Cardinality(SignIns)
  <2>1. IsFiniteSet(F \ {r}) /\ Cardinality(F \ {r}) = Cardinality(F) - 1
    BY <1>1, FS_RemoveElement
  <2>2. Cardinality(G) <= Cardinality(F \ {r})
    BY <1>5, <2>1, FS_Subset
  <2> QED BY <1>2, <1>5, <2>1, <2>2
<1> QED BY <1>3, <1>4, <1>5 DEF Follows

\* A committed failure counts once, where and when it happened (record_attempt).
LEMMA FailEffect ==
    ASSUME Configured, Throttle!TypeOK, NEW r \in SignIns, Throttle!CommitFail(r)
    PROVE  /\ sign[r].row = "fail" /\ sign[r].e \in Emails /\ sign[r].i \in Ips
           /\ sign'[r].row = "none" /\ \A s \in SignIns \ {r} : sign'[s] = sign[s]
           /\ \A e \in Emails, i \in Ips, a \in Throttle!Ages :
                 fails'[<<e, i>>][a] = IF e = sign[r].e /\ i = sign[r].i /\ a = sign[r].age
                                       THEN fails[<<e, i>>][a] + 1 ELSE fails[<<e, i>>][a]
<1> DEFINE t == sign[r]
<1>1. t.row = "fail" /\ t.e \in Emails /\ t.i \in Ips
  BY RowHeld DEF Throttle!CommitFail, Throttle!Commits
<1>2. sign'[r].row = "none" /\ \A s \in SignIns \ {r} : sign'[s] = sign[s]
  BY DEF Throttle!CommitFail, Throttle!Commits, Throttle!TypeOK, Throttle!Idle
<1>3. ASSUME NEW e \in Emails, NEW i \in Ips, NEW a \in Throttle!Ages
      PROVE  fails'[<<e, i>>][a] = IF e = t.e /\ i = t.i /\ a = t.age
                                   THEN fails[<<e, i>>][a] + 1 ELSE fails[<<e, i>>][a]
  <2>1. <<e, i>> \in Emails \X Ips /\ (<<e, i>> = <<t.e, t.i>> <=> e = t.e /\ i = t.i)
    OBVIOUS
  <2>2. fails \in [Emails \X Ips -> [Throttle!Ages -> Nat]]
    BY DEF Throttle!TypeOK, Throttle!Ages
  <2>3. fails' = IF t.age \in Throttle!Ages
                 THEN [fails EXCEPT ![<<t.e, t.i>>] = [fails[<<t.e, t.i>>] EXCEPT ![t.age] = @ + 1]]
                 ELSE fails
    BY DEF Throttle!CommitFail
  <2> HIDE DEF t
  <2> QED BY <2>1, <2>2, <2>3
<1> QED BY <1>1, <1>2, <1>3

\* The failures of an identifier after a step: as many, or one counted that was
\* on its way, or fewer because some have aged out of the window.
LEMMA EmailStep ==
    ASSUME Configured, Throttle!TypeOK, Throttle!TypeOK', [Throttle!Next]_Throttle!vars,
           NEW e \in Emails
    PROVE  Follows(Throttle!EmailFails(e), Failing(e),
                   Throttle!EmailFails(e)', Failing(e)', Threshold)
<1> DEFINE SE == Ips \X Throttle!Ages
<1>1. /\ IsFiniteSet(SE)
      /\ \A x \in SE : EmailSlots(e)[x] \in Nat
      /\ Throttle!EmailFails(e) = SumFunctionOnSet(EmailSlots(e), SE)
      /\ Throttle!EmailFails(e) \in Nat
  BY CountsAreNat DEF CountsSound
<1>2. /\ \A x \in SE : EmailSlots(e)'[x] \in Nat
      /\ Throttle!EmailFails(e)' = SumFunctionOnSet(EmailSlots(e)', SE)
      /\ Throttle!EmailFails(e)' \in Nat
  <2>1. SE' = SE
    BY DEF Throttle!Ages
  <2> QED BY <2>1, CountsAreNatNext DEF CountsSound
<1>3. \A i \in Ips, a \in Throttle!Ages :
         /\ EmailSlots(e)[<<i, a>>] = fails[<<e, i>>][a]
         /\ EmailSlots(e)'[<<i, a>>] = fails'[<<e, i>>][a]
  BY DEF EmailSlots
<1>4. ASSUME fails' = fails
      PROVE  Throttle!EmailFails(e)' = Throttle!EmailFails(e)
  BY <1>4 DEF Throttle!EmailFails, Throttle!Ages
<1>5. ASSUME NEW r \in SignIns, NEW f \in Emails, NEW i \in Ips,
             Throttle!MarkIp(r, f, i) \/ Throttle!MarkEmail(r, f, i)
      PROVE  Follows(Throttle!EmailFails(e), Failing(e),
                     Throttle!EmailFails(e)', Failing(e)', Threshold)
  <2>1. Throttle!Begin(r, "ip_lock", f, i) \/ Throttle!Begin(r, "email_lock", f, i)
    BY <1>5 DEF Throttle!MarkIp, Throttle!MarkEmail
  <2>2. /\ fails' = fails /\ sign'[r].row # "fail"
        /\ \A s \in SignIns \ {r} : sign'[s] = sign[s]
    BY <2>1, BeginEffect
  <2>3. Failing(e)' \subseteq Failing(e)
    BY <2>2 DEF Failing
  <2> QED BY <1>1, <1>4, <2>2, <2>3 DEF Follows
<1>6. ASSUME NEW r \in SignIns, NEW f \in Emails, NEW i \in Ips, Throttle!Fail(r, f, i)
      PROVE  Follows(Throttle!EmailFails(e), Failing(e),
                     Throttle!EmailFails(e)', Failing(e)', Threshold)
  <2>1. Throttle!Begin(r, "fail", f, i) /\ ~ Throttle!EmailFull(f)
    BY <1>6 DEF Throttle!Fail, Throttle!Passes
  <2>2. /\ fails' = fails /\ sign'[r].e = f
        /\ \A s \in SignIns \ {r} : sign'[s] = sign[s]
    BY <2>1, BeginEffect
  <2>3. CASE e = f
    <3>1. Throttle!EmailFails(e) < Threshold
      <4>1. ~ (Throttle!EmailFails(e) >= Threshold)
        BY <2>1, <2>3 DEF Throttle!EmailFull
      <4>2. Threshold \in Nat
        BY DEF Configured
      <4> QED BY <1>1, <4>1, <4>2
    <3> QED BY <1>4, <2>2, <3>1 DEF Follows
  <2>4. CASE e # f
    <3>1. Failing(e)' \subseteq Failing(e)
      BY <2>2, <2>4 DEF Failing
    <3> QED BY <1>1, <1>4, <2>2, <3>1 DEF Follows
  <2> QED BY <2>3, <2>4
<1>7. ASSUME NEW r \in SignIns, Throttle!CommitFail(r)
      PROVE  Follows(Throttle!EmailFails(e), Failing(e),
                     Throttle!EmailFails(e)', Failing(e)', Threshold)
  <2> DEFINE t == sign[r]
  <2>1. /\ t.row = "fail" /\ t.e \in Emails /\ t.i \in Ips /\ sign'[r].row = "none"
        /\ \A s \in SignIns \ {r} : sign'[s] = sign[s]
        /\ \A i \in Ips, a \in Throttle!Ages :
              fails'[<<e, i>>][a] = IF e = t.e /\ i = t.i /\ a = t.age
                                    THEN fails[<<e, i>>][a] + 1 ELSE fails[<<e, i>>][a]
    BY <1>7, FailEffect
  <2>2. Failing(e)' \subseteq Failing(e) \ {r}
    BY <2>1 DEF Failing
  <2>3. CASE e = t.e /\ t.age \in Throttle!Ages
    <3> DEFINE x == <<t.i, t.age>>
    <3>1. x \in SE /\ EmailSlots(e)'[x] = EmailSlots(e)[x] + 1
      <4>1. t.i \in Ips /\ t.age \in Throttle!Ages
        BY <2>1, <2>3
      <4> HIDE DEF t
      <4>2. fails'[<<e, t.i>>][t.age] = fails[<<e, t.i>>][t.age] + 1
        BY <2>1, <2>3, <4>1
      <4>3. /\ EmailSlots(e)'[<<t.i, t.age>>] = fails'[<<e, t.i>>][t.age]
            /\ EmailSlots(e)[<<t.i, t.age>>] = fails[<<e, t.i>>][t.age]
        BY <1>3, <4>1
      <4> QED BY <4>1, <4>2, <4>3
    <3>2. \A y \in SE \ {x} : EmailSlots(e)'[y] = EmailSlots(e)[y]
      <4>1. ASSUME NEW i \in Ips, NEW a \in Throttle!Ages, <<i, a>> # x
            PROVE  EmailSlots(e)'[<<i, a>>] = EmailSlots(e)[<<i, a>>]
        <5>1. ~ (i = t.i /\ a = t.age)
          BY <4>1
        <5> HIDE DEF t
        <5>2. fails'[<<e, i>>][a] = fails[<<e, i>>][a]
          BY <2>1, <5>1
        <5> QED BY <1>3, <5>2
      <4> QED BY <4>1
    <3>3. Throttle!EmailFails(e)' = Throttle!EmailFails(e) + 1
      <4> HIDE DEF x, SE
      <4> QED BY <1>1, <1>2, <3>1, <3>2, SumRaised
    <3>4. r \in Failing(e)
      BY <2>1, <2>3 DEF Failing
    <3>5. Throttle!EmailFails(e)' <= Throttle!EmailFails(e) + 1
      BY <1>1, <3>3
    <3> QED BY <2>2, <3>4, <3>5 DEF Follows
  <2>4. CASE ~ (e = t.e /\ t.age \in Throttle!Ages)
    <3>1. \A y \in SE : EmailSlots(e)'[y] = EmailSlots(e)[y]
      <4>1. ASSUME NEW i \in Ips, NEW a \in Throttle!Ages
            PROVE  EmailSlots(e)'[<<i, a>>] = EmailSlots(e)[<<i, a>>]
        <5>1. ~ (e = t.e /\ i = t.i /\ a = t.age)
          BY <2>4
        <5> HIDE DEF t
        <5>2. fails'[<<e, i>>][a] = fails[<<e, i>>][a]
          BY <2>1, <5>1
        <5> QED BY <1>3, <5>2
      <4> QED BY <4>1
    <3>2. Throttle!EmailFails(e)' = Throttle!EmailFails(e)
      <4> HIDE DEF SE
      <4> QED BY <1>1, <1>2, <3>1, SumSame
    <3> QED BY <1>1, <2>2, <3>2 DEF Follows
  <2> QED BY <2>3, <2>4
<1>8. CASE Throttle!Tick
  <2>1. /\ \A i \in Ips, a \in Throttle!Ages :
              fails'[<<e, i>>][a] = IF a = 0 THEN 0 ELSE fails[<<e, i>>][a - 1]
        /\ \A a \in Throttle!Ages : a # 0 => a - 1 \in Throttle!Ages
        /\ \A r \in SignIns : \/ sign'[r] = sign[r]
                              \/ sign'[r].row = sign[r].row /\ sign'[r].e = sign[r].e
    BY <1>8, TickEffect
  <2>2. Failing(e)' \subseteq Failing(e)
    BY <2>1 DEF Failing
  <2> DEFINE from == [x \in SE |-> <<x[1], x[2] - 1>>]
  <2>3. \A x \in SE : EmailSlots(e)'[x] # 0 =>
           from[x] \in SE /\ EmailSlots(e)'[x] = EmailSlots(e)[from[x]]
    <3>1. ASSUME NEW i \in Ips, NEW a \in Throttle!Ages, EmailSlots(e)'[<<i, a>>] # 0
          PROVE  a - 1 \in Throttle!Ages /\ EmailSlots(e)'[<<i, a>>] = EmailSlots(e)[<<i, a - 1>>]
      <4>1. EmailSlots(e)'[<<i, a>>] = IF a = 0 THEN 0 ELSE fails[<<e, i>>][a - 1]
        BY <1>3, <2>1
      <4>2. a # 0 /\ a - 1 \in Throttle!Ages
        BY <2>1, <3>1, <4>1
      <4> QED BY <1>3, <4>1, <4>2
    <3>2. \A i \in Ips, a \in Throttle!Ages : <<i, a>> \in SE /\ from[<<i, a>>] = <<i, a - 1>>
      OBVIOUS
    <3>3. \A x \in SE : \E i \in Ips, a \in Throttle!Ages : x = <<i, a>>
      OBVIOUS
    <3> HIDE DEF from
    <3> QED BY <3>1, <3>2, <3>3
  <2>4. \A x, y \in SE : from[x] = from[y] => x = y
    BY DEF Throttle!Ages
  <2>5. Throttle!EmailFails(e)' <= Throttle!EmailFails(e)
    <3> HIDE DEF SE, from
    <3> QED BY <1>1, <1>2, <2>3, <2>4, SumMoved
  <2> QED BY <2>2, <2>5 DEF Follows
<1>9. ASSUME NEW r \in SignIns,
             Throttle!CommitEmailLock(r) \/ Throttle!CommitIpLock(r) \/ Throttle!Abort(r)
      PROVE  Follows(Throttle!EmailFails(e), Failing(e),
                     Throttle!EmailFails(e)', Failing(e)', Threshold)
  <2>1. fails' = fails /\ \A s \in SignIns : sign'[s] = sign[s] \/ sign'[s].row = "none"
    BY <1>9 DEF Throttle!CommitEmailLock, Throttle!CommitIpLock, Throttle!Abort, Throttle!Commits,
                Throttle!TypeOK, Throttle!Idle
  <2>2. Failing(e)' \subseteq Failing(e)
    BY <2>1 DEF Failing
  <2> QED BY <1>1, <1>4, <2>1, <2>2 DEF Follows
<1>10. ASSUME UNCHANGED Throttle!vars \/ \E i \in Ips : Throttle!EditSources(i)
       PROVE  Follows(Throttle!EmailFails(e), Failing(e),
                      Throttle!EmailFails(e)', Failing(e)', Threshold)
  <2>1. fails' = fails /\ sign' = sign
    BY <1>10 DEF Throttle!EditSources, Throttle!vars
  <2>2. Failing(e)' \subseteq Failing(e)
    BY <2>1 DEF Failing
  <2> QED BY <1>1, <1>4, <2>1, <2>2 DEF Follows
<1> QED BY <1>5, <1>6, <1>7, <1>8, <1>9, <1>10 DEF Throttle!Next

\* The same of a source (is_ip_locked, _count_since by ip): as many, or one counted that was
\* on its way, or fewer because some have aged out of the window.
LEMMA IpStep ==
    ASSUME Configured, Throttle!TypeOK, Throttle!TypeOK', [Throttle!Next]_Throttle!vars,
           NEW j \in Ips
    PROVE  Follows(Throttle!IpFails(j), FailingFrom(j),
                   Throttle!IpFails(j)', FailingFrom(j)', IpThreshold)
<1> DEFINE SI == Emails \X Throttle!Ages
<1>1. /\ IsFiniteSet(SI)
      /\ \A x \in SI : IpSlots(j)[x] \in Nat
      /\ Throttle!IpFails(j) = SumFunctionOnSet(IpSlots(j), SI)
      /\ Throttle!IpFails(j) \in Nat
  BY CountsAreNat DEF CountsSound
<1>2. /\ \A x \in SI : IpSlots(j)'[x] \in Nat
      /\ Throttle!IpFails(j)' = SumFunctionOnSet(IpSlots(j)', SI)
      /\ Throttle!IpFails(j)' \in Nat
  <2>1. SI' = SI
    BY DEF Throttle!Ages
  <2> QED BY <2>1, CountsAreNatNext DEF CountsSound
<1>3. \A f \in Emails, a \in Throttle!Ages :
         /\ IpSlots(j)[<<f, a>>] = fails[<<f, j>>][a]
         /\ IpSlots(j)'[<<f, a>>] = fails'[<<f, j>>][a]
  BY DEF IpSlots
<1>4. ASSUME fails' = fails
      PROVE  Throttle!IpFails(j)' = Throttle!IpFails(j)
  BY <1>4 DEF Throttle!IpFails, Throttle!Ages
<1>5. ASSUME NEW r \in SignIns, NEW f \in Emails, NEW i \in Ips,
             Throttle!MarkIp(r, f, i) \/ Throttle!MarkEmail(r, f, i)
      PROVE  Follows(Throttle!IpFails(j), FailingFrom(j),
                     Throttle!IpFails(j)', FailingFrom(j)', IpThreshold)
  <2>1. Throttle!Begin(r, "ip_lock", f, i) \/ Throttle!Begin(r, "email_lock", f, i)
    BY <1>5 DEF Throttle!MarkIp, Throttle!MarkEmail
  <2>2. /\ fails' = fails /\ sign'[r].row # "fail"
        /\ \A s \in SignIns \ {r} : sign'[s] = sign[s]
    BY <2>1, BeginEffect
  <2>3. FailingFrom(j)' \subseteq FailingFrom(j)
    BY <2>2 DEF FailingFrom
  <2> QED BY <1>1, <1>4, <2>2, <2>3 DEF Follows
<1>6. ASSUME NEW r \in SignIns, NEW f \in Emails, NEW i \in Ips, Throttle!Fail(r, f, i)
      PROVE  Follows(Throttle!IpFails(j), FailingFrom(j),
                     Throttle!IpFails(j)', FailingFrom(j)', IpThreshold)
  <2>1. Throttle!Begin(r, "fail", f, i) /\ ~ Throttle!IpFull(i)
    BY <1>6 DEF Throttle!Fail, Throttle!Passes, Throttle!IpPasses
  <2>2. /\ fails' = fails /\ sign'[r].i = i
        /\ \A s \in SignIns \ {r} : sign'[s] = sign[s]
    BY <2>1, BeginEffect
  <2>3. CASE j = i
    <3>1. Throttle!IpFails(j) < IpThreshold
      <4>1. ~ (Throttle!IpFails(j) >= IpThreshold)
        BY <2>1, <2>3 DEF Throttle!IpFull
      <4>2. IpThreshold \in Nat
        BY DEF Configured
      <4> QED BY <1>1, <4>1, <4>2
    <3> QED BY <1>4, <2>2, <3>1 DEF Follows
  <2>4. CASE j # i
    <3>1. FailingFrom(j)' \subseteq FailingFrom(j)
      BY <2>2, <2>4 DEF FailingFrom
    <3> QED BY <1>1, <1>4, <2>2, <3>1 DEF Follows
  <2> QED BY <2>3, <2>4
<1>7. ASSUME NEW r \in SignIns, Throttle!CommitFail(r)
      PROVE  Follows(Throttle!IpFails(j), FailingFrom(j),
                     Throttle!IpFails(j)', FailingFrom(j)', IpThreshold)
  <2> DEFINE t == sign[r]
  <2>1. /\ t.row = "fail" /\ t.e \in Emails /\ t.i \in Ips /\ sign'[r].row = "none"
        /\ \A s \in SignIns \ {r} : sign'[s] = sign[s]
        /\ \A f \in Emails, a \in Throttle!Ages :
              fails'[<<f, j>>][a] = IF f = t.e /\ j = t.i /\ a = t.age
                                    THEN fails[<<f, j>>][a] + 1 ELSE fails[<<f, j>>][a]
    BY <1>7, FailEffect
  <2>2. FailingFrom(j)' \subseteq FailingFrom(j) \ {r}
    BY <2>1 DEF FailingFrom
  <2>3. CASE j = t.i /\ t.age \in Throttle!Ages
    <3> DEFINE x == <<t.e, t.age>>
    <3>1. x \in SI /\ IpSlots(j)'[x] = IpSlots(j)[x] + 1
      <4>1. t.e \in Emails /\ t.age \in Throttle!Ages
        BY <2>1, <2>3
      <4> HIDE DEF t
      <4>2. fails'[<<t.e, j>>][t.age] = fails[<<t.e, j>>][t.age] + 1
        BY <2>1, <2>3, <4>1
      <4>3. /\ IpSlots(j)'[<<t.e, t.age>>] = fails'[<<t.e, j>>][t.age]
            /\ IpSlots(j)[<<t.e, t.age>>] = fails[<<t.e, j>>][t.age]
        BY <1>3, <4>1
      <4> QED BY <4>1, <4>2, <4>3
    <3>2. \A y \in SI \ {x} : IpSlots(j)'[y] = IpSlots(j)[y]
      <4>1. ASSUME NEW f \in Emails, NEW a \in Throttle!Ages, <<f, a>> # x
            PROVE  IpSlots(j)'[<<f, a>>] = IpSlots(j)[<<f, a>>]
        <5>1. ~ (f = t.e /\ a = t.age)
          BY <4>1
        <5> HIDE DEF t
        <5>2. fails'[<<f, j>>][a] = fails[<<f, j>>][a]
          BY <2>1, <5>1
        <5> QED BY <1>3, <5>2
      <4> QED BY <4>1
    <3>3. Throttle!IpFails(j)' = Throttle!IpFails(j) + 1
      <4> HIDE DEF x, SI
      <4> QED BY <1>1, <1>2, <3>1, <3>2, SumRaised
    <3>4. r \in FailingFrom(j)
      BY <2>1, <2>3 DEF FailingFrom
    <3>5. Throttle!IpFails(j)' <= Throttle!IpFails(j) + 1
      BY <1>1, <3>3
    <3> QED BY <2>2, <3>4, <3>5 DEF Follows
  <2>4. CASE ~ (j = t.i /\ t.age \in Throttle!Ages)
    <3>1. \A y \in SI : IpSlots(j)'[y] = IpSlots(j)[y]
      <4>1. ASSUME NEW f \in Emails, NEW a \in Throttle!Ages
            PROVE  IpSlots(j)'[<<f, a>>] = IpSlots(j)[<<f, a>>]
        <5>1. ~ (f = t.e /\ j = t.i /\ a = t.age)
          BY <2>4
        <5> HIDE DEF t
        <5>2. fails'[<<f, j>>][a] = fails[<<f, j>>][a]
          BY <2>1, <5>1
        <5> QED BY <1>3, <5>2
      <4> QED BY <4>1
    <3>2. Throttle!IpFails(j)' = Throttle!IpFails(j)
      <4> HIDE DEF SI
      <4> QED BY <1>1, <1>2, <3>1, SumSame
    <3> QED BY <1>1, <2>2, <3>2 DEF Follows
  <2> QED BY <2>3, <2>4
<1>8. CASE Throttle!Tick
  <2>1. /\ \A f \in Emails, a \in Throttle!Ages :
              fails'[<<f, j>>][a] = IF a = 0 THEN 0 ELSE fails[<<f, j>>][a - 1]
        /\ \A a \in Throttle!Ages : a # 0 => a - 1 \in Throttle!Ages
        /\ \A r \in SignIns : \/ sign'[r] = sign[r]
                              \/ sign'[r].row = sign[r].row /\ sign'[r].i = sign[r].i
    BY <1>8, TickEffect
  <2>2. FailingFrom(j)' \subseteq FailingFrom(j)
    BY <2>1 DEF FailingFrom
  <2> DEFINE from == [x \in SI |-> <<x[1], x[2] - 1>>]
  <2>3. \A x \in SI : IpSlots(j)'[x] # 0 =>
           from[x] \in SI /\ IpSlots(j)'[x] = IpSlots(j)[from[x]]
    <3>1. ASSUME NEW f \in Emails, NEW a \in Throttle!Ages, IpSlots(j)'[<<f, a>>] # 0
          PROVE  a - 1 \in Throttle!Ages /\ IpSlots(j)'[<<f, a>>] = IpSlots(j)[<<f, a - 1>>]
      <4>1. IpSlots(j)'[<<f, a>>] = IF a = 0 THEN 0 ELSE fails[<<f, j>>][a - 1]
        BY <1>3, <2>1
      <4>2. a # 0 /\ a - 1 \in Throttle!Ages
        BY <2>1, <3>1, <4>1
      <4> QED BY <1>3, <4>1, <4>2
    <3>2. \A f \in Emails, a \in Throttle!Ages : <<f, a>> \in SI /\ from[<<f, a>>] = <<f, a - 1>>
      OBVIOUS
    <3>3. \A x \in SI : \E f \in Emails, a \in Throttle!Ages : x = <<f, a>>
      OBVIOUS
    <3> HIDE DEF from
    <3> QED BY <3>1, <3>2, <3>3
  <2>4. \A x, y \in SI : from[x] = from[y] => x = y
    BY DEF Throttle!Ages
  <2>5. Throttle!IpFails(j)' <= Throttle!IpFails(j)
    <3> HIDE DEF SI, from
    <3> QED BY <1>1, <1>2, <2>3, <2>4, SumMoved
  <2> QED BY <2>2, <2>5 DEF Follows
<1>9. ASSUME NEW r \in SignIns,
             Throttle!CommitEmailLock(r) \/ Throttle!CommitIpLock(r) \/ Throttle!Abort(r)
      PROVE  Follows(Throttle!IpFails(j), FailingFrom(j),
                     Throttle!IpFails(j)', FailingFrom(j)', IpThreshold)
  <2>1. fails' = fails /\ \A s \in SignIns : sign'[s] = sign[s] \/ sign'[s].row = "none"
    BY <1>9 DEF Throttle!CommitEmailLock, Throttle!CommitIpLock, Throttle!Abort, Throttle!Commits,
                Throttle!TypeOK, Throttle!Idle
  <2>2. FailingFrom(j)' \subseteq FailingFrom(j)
    BY <2>1 DEF FailingFrom
  <2> QED BY <1>1, <1>4, <2>1, <2>2 DEF Follows
<1>10. ASSUME UNCHANGED Throttle!vars \/ \E i \in Ips : Throttle!EditSources(i)
       PROVE  Follows(Throttle!IpFails(j), FailingFrom(j),
                      Throttle!IpFails(j)', FailingFrom(j)', IpThreshold)
  <2>1. fails' = fails /\ sign' = sign
    BY <1>10 DEF Throttle!EditSources, Throttle!vars
  <2>2. FailingFrom(j)' \subseteq FailingFrom(j)
    BY <2>1 DEF FailingFrom
  <2> QED BY <1>1, <1>4, <2>1, <2>2 DEF Follows
<1> QED BY <1>5, <1>6, <1>7, <1>8, <1>9, <1>10 DEF Throttle!Next

\* What is counted and what is on its way stay below the bound together.
Counted ==
    /\ \A e \in Emails : Throttle!EmailFails(e) + Cardinality(Failing(e))
                            <= Threshold - 1 + Cardinality(SignIns)
    /\ \A i \in Ips : Throttle!IpFails(i) + Cardinality(FailingFrom(i))
                            <= IpThreshold - 1 + Cardinality(SignIns)

\* Nobody has failed and nobody is failing.
LEMMA CountedInit ==
    ASSUME Configured, Throttle!Init
    PROVE  Counted
<1>1. Cardinality({}) = 0 /\ Cardinality(SignIns) \in Nat
  BY FS_EmptySet, FS_CardinalityType DEF Configured
<1>2. Threshold \in Nat \ {0} /\ IpThreshold \in Nat \ {0}
  BY DEF Configured
<1>3. (\A e \in Emails : Failing(e) = {}) /\ (\A i \in Ips : FailingFrom(i) = {})
  BY DEF Throttle!Init, Throttle!Idle, Failing, FailingFrom
<1>4. Throttle!TypeOK
  BY WindowBounds DEF Throttle!Init, Throttle!TypeOK, Throttle!Ages
<1>5. ASSUME NEW e \in Emails
      PROVE  Throttle!EmailFails(e) = 0
  <2>1. ~ \E x \in Ips \X Throttle!Ages : EmailSlots(e)[x] > 0
    <3>1. \A i \in Ips, a \in Throttle!Ages : fails[<<e, i>>][a] = 0
      BY DEF Throttle!Init
    <3>2. \A i \in Ips, a \in Throttle!Ages : EmailSlots(e)[<<i, a>>] = 0
      BY <3>1 DEF EmailSlots
    <3> QED BY <3>2
  <2>2. ~ (Throttle!EmailFails(e) > 0)
    BY <1>4, <2>1, CountsAreNat, SumPositive DEF CountsSound
  <2>3. Throttle!EmailFails(e) \in Nat
    BY <1>4, CountsAreNat DEF CountsSound
  <2> QED BY <2>2, <2>3
<1>6. ASSUME NEW i \in Ips
      PROVE  Throttle!IpFails(i) = 0
  <2>1. ~ \E x \in Emails \X Throttle!Ages : IpSlots(i)[x] > 0
    <3>1. \A e \in Emails, a \in Throttle!Ages : fails[<<e, i>>][a] = 0
      BY DEF Throttle!Init
    <3>2. \A e \in Emails, a \in Throttle!Ages : IpSlots(i)[<<e, a>>] = 0
      BY <3>1 DEF IpSlots
    <3> QED BY <3>2
  <2>2. ~ (Throttle!IpFails(i) > 0)
    BY <1>4, <2>1, CountsAreNat, SumPositive DEF CountsSound
  <2>3. Throttle!IpFails(i) \in Nat
    BY <1>4, CountsAreNat DEF CountsSound
  <2> QED BY <2>2, <2>3
<1>7. (0 + Cardinality({}) <= Threshold - 1 + Cardinality(SignIns)) /\ (0 + Cardinality({}) <= IpThreshold - 1 + Cardinality(SignIns))
  BY <1>1, <1>2
<1> QED BY <1>3, <1>5, <1>6, <1>7 DEF Counted

\* local_login: a sign-in checks the counts before it fails, and adds one to
\* each when it has.
LEMMA CountedStep ==
    ASSUME Configured, Throttle!TypeOK, Throttle!TypeOK', Counted, [Throttle!Next]_Throttle!vars
    PROVE  Counted'
<1>1. Threshold \in Nat \ {0} /\ IpThreshold \in Nat \ {0}
  BY DEF Configured
<1>2. CountsSound /\ CountsSound'
  BY CountsAreNat, CountsAreNatNext
<1>3. ASSUME NEW e \in Emails
      PROVE  Throttle!EmailFails(e)' + Cardinality(Failing(e)') <= Threshold - 1 + Cardinality(SignIns)
  <2>1. Throttle!EmailFails(e) \in Nat /\ Throttle!EmailFails(e)' \in Nat
    BY <1>2 DEF CountsSound
  <2>2. Failing(e) \in SUBSET SignIns /\ Failing(e)' \in SUBSET SignIns
    BY DEF Failing
  <2>3. Throttle!EmailFails(e) + Cardinality(Failing(e)) <= Threshold - 1 + Cardinality(SignIns)
    BY DEF Counted
  <2>4. Follows(Throttle!EmailFails(e), Failing(e), Throttle!EmailFails(e)', Failing(e)', Threshold)
    BY EmailStep
  <2> QED BY <1>1, <2>1, <2>2, <2>3, <2>4, BoundKept
<1>4. ASSUME NEW i \in Ips
      PROVE  Throttle!IpFails(i)' + Cardinality(FailingFrom(i)') <= IpThreshold - 1 + Cardinality(SignIns)
  <2>1. Throttle!IpFails(i) \in Nat /\ Throttle!IpFails(i)' \in Nat
    BY <1>2 DEF CountsSound
  <2>2. FailingFrom(i) \in SUBSET SignIns /\ FailingFrom(i)' \in SUBSET SignIns
    BY DEF FailingFrom
  <2>3. Throttle!IpFails(i) + Cardinality(FailingFrom(i)) <= IpThreshold - 1 + Cardinality(SignIns)
    BY DEF Counted
  <2>4. Follows(Throttle!IpFails(i), FailingFrom(i), Throttle!IpFails(i)', FailingFrom(i)', IpThreshold)
    BY IpStep
  <2> QED BY <1>1, <2>1, <2>2, <2>3, <2>4, BoundKept
<1> QED BY <1>3, <1>4 DEF Counted

\* Overlapping sign-ins pass on one count (ratelimit.py:114), but no more than
\* one each: within a window an identifier or a source fails at most one short
\* of its threshold, plus once for every sign-in that can be in flight.
THEOREM FailuresStayBounded ==
    ASSUME Configured
    PROVE  Throttle!Spec => []Throttle!FailuresBounded
<1>1. Throttle!Init => Counted
  BY CountedInit
<1>2. Throttle!TypeOK /\ Throttle!TypeOK' /\ Counted /\ [Throttle!Next]_Throttle!vars => Counted'
  BY CountedStep
<1>3. Throttle!TypeOK /\ Counted => Throttle!FailuresBounded
  <2> SUFFICES ASSUME Throttle!TypeOK, Counted PROVE Throttle!FailuresBounded
    OBVIOUS
  <2>1. IsFiniteSet(SignIns) /\ Threshold \in Nat /\ IpThreshold \in Nat
    BY DEF Configured
  <2>2. CountsSound /\ Cardinality(SignIns) \in Nat /\ Throttle!Cardinality(SignIns) = Cardinality(SignIns)
    BY <2>1, CountsAreNat, SameCardinality, FS_CardinalityType
  <2>3. ASSUME NEW F \in SUBSET SignIns
        PROVE  Cardinality(F) \in Nat
    BY <2>1, FS_Subset, FS_CardinalityType
  <2>4. ASSUME NEW e \in Emails
        PROVE  Throttle!EmailFails(e) <= Threshold - 1 + Throttle!Cardinality(SignIns)
    <3>1. Failing(e) \in SUBSET SignIns
      BY DEF Failing
    <3>2. Throttle!EmailFails(e) \in Nat /\ Cardinality(Failing(e)) \in Nat
      BY <2>2, <2>3, <3>1 DEF CountsSound
    <3>3. Throttle!EmailFails(e) + Cardinality(Failing(e)) <= Threshold - 1 + Cardinality(SignIns)
      BY DEF Counted
    <3> QED BY <2>1, <2>2, <3>2, <3>3
  <2>5. ASSUME NEW i \in Ips
        PROVE  Throttle!IpFails(i) <= IpThreshold - 1 + Throttle!Cardinality(SignIns)
    <3>1. FailingFrom(i) \in SUBSET SignIns
      BY DEF FailingFrom
    <3>2. Throttle!IpFails(i) \in Nat /\ Cardinality(FailingFrom(i)) \in Nat
      BY <2>2, <2>3, <3>1 DEF CountsSound
    <3>3. Throttle!IpFails(i) + Cardinality(FailingFrom(i)) <= IpThreshold - 1 + Cardinality(SignIns)
      BY DEF Counted
    <3> QED BY <2>1, <2>2, <3>2, <3>3
  <2> QED BY <2>4, <2>5 DEF Throttle!FailuresBounded
<1> QED BY <1>1, <1>2, <1>3, ThrottleTypes, PTL DEF Throttle!Spec
=============================================================================
