----------------------------- MODULE OrderLemmas -----------------------------
(* Facts about finite sets and minima that more than one component needs.   *)
EXTENDS Integers, FiniteSets, FiniteSetTheorems, WellFoundedInduction, TLAPS

\* A finite family of integers has a least element.
LEMMA LeastOfFamily ==
    ASSUME NEW S, IsFiniteSet(S), NEW f \in [S -> Int], S # {}
    PROVE  \E k \in S : \A j \in S : f[k] <= f[j]
<1> DEFINE Low(U) == \E k \in U : \A j \in U : f[k] <= f[j]
           T == {U \in SUBSET S : U # {} /\ ~ Low(U)}
           R == StrictSubsetOrdering(S)
<1>1. SUFFICES ASSUME ~ Low(S) PROVE FALSE
  OBVIOUS
<1>2. IsWellFoundedOn(R, SUBSET S)
  BY FS_StrictSubsetOrderingWellFounded, FS_FiniteSubsetsOfFinite
<1>3. T \subseteq SUBSET S /\ T # {}
  BY <1>1
<1>4. \E U \in T : \A V \in T : ~ (<<V, U>> \in R)
  <2> HIDE DEF T, R
  <2>1. QED
    BY <1>2, <1>3, WFMin
<1>5. PICK U \in T : \A V \in T : ~ (<<V, U>> \in R)
  BY <1>4
<1>6. PICK e \in U : TRUE
  OBVIOUS
<1>7. U \ {e} \notin T
  BY <1>5, <1>6 DEF StrictSubsetOrdering
<1>8. CASE U \ {e} = {}
  <2>1. U = {e} /\ f[e] \in Int
    BY <1>6, <1>8
  <2>2. Low(U)
    BY <2>1
  <2>3. QED
    BY <2>2
<1>9. CASE U \ {e} # {}
  <2>1. PICK k \in U \ {e} : \A j \in U \ {e} : f[k] <= f[j]
    BY <1>7, <1>9
  <2>2. f[k] \in Int /\ f[e] \in Int /\ \A j \in U : f[j] \in Int
    BY <1>6, <2>1
  <2>3. Low(U)
    <3>1. CASE f[k] <= f[e]
      <4>1. \A j \in U : f[k] <= f[j]
        BY <2>1, <3>1
      <4>2. QED
        BY <4>1
    <3>2. CASE ~ (f[k] <= f[e])
      <4>1. \A j \in U : f[e] <= f[j]
        BY <2>1, <2>2, <3>2
      <4>2. QED
        BY <4>1, <1>6
    <3>3. QED
      BY <3>1, <3>2
  <2>4. QED
    BY <2>3
<1>10. QED
  BY <1>8, <1>9
=============================================================================
