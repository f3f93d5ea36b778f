--------------------------- MODULE EmitOrderProofs ---------------------------
(***************************************************************************)
(* What is proved of EmitOrder for any scenes: the sort keeps what a       *)
(* device waits for in front of it, jumps no queue, and stops only on a    *)
(* cycle; the blocks of the program nest; a value from inside a container  *)
(* is computed before it is read outside; every device is emitted once;    *)
(* and the stop of a loop is computed in its body.                         *)
(***************************************************************************)
EXTENDS EmitOrder, OrderLemmas

\* The sort that has placed some devices and keeps the ready ones in the queue.
SortInv ==
    /\ sorted \in Seq(Sorting)
    /\ eff \in [Sorting -> Nat]
    /\ inDegree \in [Sorting -> Nat]
    /\ \A i, j \in 1..Len(sorted) : sorted[i] = sorted[j] => i = j
    /\ queue = {n \in Sorting \ Found : Before(n, Sorting) \subseteq Found}
    /\ \A n \in Sorting : inDegree[n] = Cardinality(Before(n, Sorting) \ Found)
    /\ \A i \in 1..Len(sorted) : Before(sorted[i], Sorting) \subseteq Placed(i-1)
    /\ \A i \in 1..Len(sorted) : \A n \in Sorting \ Placed(i) :
          Before(n, Sorting) \subseteq Placed(i-1) => ~ Ahead(n, sorted[i])

\* The scopes being emitted: the global one outermost, and only there.
StackInv ==
    /\ stack \in Seq([scope : Node \cup {Global}, part : {1, 2}, rest : Seq(Node)])
    /\ \A i \in 1..Len(stack) : stack[i].scope = Global <=> i = Len(stack)
    /\ pc \in {"start", "done"} => stack = <<>>
    /\ pc = "emit" => stack # <<>>
    /\ pc = "sort" => (stack = <<>> <=> job.scope = Global)

OrderInv ==
    /\ scene \in Scene
    /\ pc \in {"start", "sort", "emit", "done"}
    /\ job \in [scope : Node \cup {Global}, part : {1, 2}]
    /\ queue \subseteq Node
    /\ sorted \in Seq(Node)
    /\ pc = "sort" => SortInv
    /\ StackInv
    /\ out \in Seq([op : {"begin", "do", "break", "end"}, node : Node])
    /\ diags \subseteq {"controlPort", "cycle", "backward"}
    /\ warned \in BOOLEAN

-----------------------------------------------------------------------------
(* Operators.                                                               *)

\* The parts of a scope are finite sets of devices, and so is what one waits for.
LEMMA SetsFinite ==
    ASSUME NEW c, NEW p, NEW b
    PROVE  /\ Members(c, p) \subseteq Node
           /\ IsFiniteSet(Members(c, p))
           /\ Before(b, Members(c, p)) \subseteq Members(c, p)
           /\ IsFiniteSet(Before(b, Members(c, p)))
<1>1. Members(c, p) \subseteq Node
  BY DEF Members
<1>2. IsFiniteSet(Members(c, p))
  BY <1>1, NodeAssumption, FS_Subset
<1>3. Before(b, Members(c, p)) \subseteq Members(c, p)
  BY DEF Before
<1>4. QED
  BY <1>1, <1>2, <1>3, FS_Subset

\* Effective orders are numbers, whatever was memoised on a cycle.
LEMMA EffectiveType ==
    ASSUME scene \in Scene, NEW S, S \subseteq Node, IsFiniteSet(S),
           NEW e \in EffectiveOrders(S)
    PROVE  e \in [S -> Nat]
<1>1. \A n \in Node : scene.order[n] \in Nat
  BY DEF Scene
<1>2. \A n \in S : Effective(n, S) \in Nat
  <2> SUFFICES ASSUME NEW n \in S
               PROVE  Effective(n, S) \in Nat
    OBVIOUS
  <2> DEFINE fed == {m \in Feeds(n, S) : scene.order[m] # 0}
             orders == {scene.order[m] : m \in Feeds(n, S)} \ {0}
             f == [m \in fed |-> scene.order[m]]
  <2>1. fed \subseteq S /\ IsFiniteSet(fed) /\ f \in [fed -> Int]
    BY <1>1, FS_Subset DEF Feeds
  <2>2. orders \subseteq Nat
    BY <1>1 DEF Feeds
  <2>3. CASE fed = {}
    <3>1. orders = {}
      BY <2>3
    <3>2. QED
      BY <3>1, <1>1, SceneAssumption DEF Effective
  <2>4. CASE fed # {}
    <3>1. \E k \in fed : \A j \in fed : f[k] <= f[j]
      <4> HIDE DEF fed, f
      <4>1. QED
        BY <2>1, <2>4, LeastOfFamily
    <3>2. PICK k \in fed : \A j \in fed : scene.order[k] <= scene.order[j]
      BY <3>1
    <3>3. scene.order[k] \in orders /\ \A o \in orders : scene.order[k] <= o
      BY <3>2
    <3>4. (CHOOSE o \in orders : \A q \in orders : o <= q) \in Nat
      <4> HIDE DEF orders
      <4>1. QED
        BY <3>3, <2>2
    <3>5. QED
      BY <3>4, <1>1, <3>3 DEF Effective
  <2>5. QED
    BY <2>3, <2>4
<1> DEFINE exact == [n \in S |-> Effective(n, S)]
           unordered == {n \in S : scene.order[n] = 0}
           circling == {m \in unordered :
                          \E a \in Feeds(m, S) \cap unordered : a \in Before(m, S)}
           misled == {n \in unordered : Feeds(n, S) \cap circling # {}}
           values == {scene.order[m] : m \in S} \cup {Last}
           late == {f \in [misled -> values] : \A n \in misled : f[n] >= exact[n]}
<1>3. PICK f \in late : e = [n \in S |-> IF n \in misled THEN f[n] ELSE exact[n]]
  BY DEF EffectiveOrders
<1>4. values \subseteq Nat
  BY <1>1, SceneAssumption
<1>5. f \in [misled -> Nat]
  BY <1>3, <1>4
<1>6. exact \in [S -> Nat]
  BY <1>2
<1>7. QED
  <2> HIDE DEF exact, misled, late, values
  <2>1. QED
    BY <1>3, <1>5, <1>6

\* The head of the queue exists and is ahead of the rest.
LEMMA FirstIsAhead ==
    ASSUME NEW S, S \subseteq Node, eff \in [S -> Nat],
           NEW Q, Q \subseteq S, Q # {}
    PROVE  First(Q) \in Q /\ \A b \in Q \ {First(Q)} : Ahead(First(Q), b)
<1> DEFINE f == [n \in Q |-> eff[n]]
           E == {n \in Q : \A m \in Q : eff[n] <= eff[m]}
           g == [n \in E |-> n]
<1>1. IsFiniteSet(Q) /\ IsFiniteSet(E) /\ Q \subseteq Nat
  BY NodeAssumption, FS_Subset
<1>2. f \in [Q -> Int] /\ g \in [E -> Int]
  <2>1. f \in [Q -> Int]
    OBVIOUS
  <2>2. E \subseteq Int
    <3>1. E \subseteq Q
      OBVIOUS
    <3>2. QED
      <4> HIDE DEF E
      <4>1. QED
        BY <1>1, <3>1
  <2>3. g \in [E -> Int]
    <3> HIDE DEF E
    <3>1. QED
      BY <2>2
  <2>4. QED
    BY <2>1, <2>3
<1>3. \E k \in Q : \A j \in Q : f[k] <= f[j]
  <2> HIDE DEF f
  <2>1. QED
    BY <1>1, <1>2, LeastOfFamily
<1>4. E # {}
  BY <1>3
<1>5. \E k \in E : \A j \in E : g[k] <= g[j]
  <2> HIDE DEF E, g
  <2>1. QED
    BY <1>1, <1>2, <1>4, LeastOfFamily
<1>6. PICK k \in E : \A j \in E : k <= j
  BY <1>5
<1>7. \A b \in Q \ {k} : Ahead(k, b)
  <2> SUFFICES ASSUME NEW b \in Q \ {k}
               PROVE  Ahead(k, b)
    OBVIOUS
  <2>1. eff[k] \in Nat /\ eff[b] \in Nat /\ k \in Nat /\ b \in Nat /\ eff[k] <= eff[b]
    BY <1>1
  <2>2. CASE eff[k] < eff[b]
    BY <2>2 DEF Ahead
  <2>3. CASE eff[k] = eff[b]
    <3>1. b \in E
      BY <2>3
    <3>2. k <= b /\ k # b
      BY <3>1, <1>6
    <3>3. QED
      BY <2>3, <3>2, <2>1 DEF Ahead
  <2>4. QED
    BY <2>1, <2>2, <2>3
<1>8. QED
  BY <1>6, <1>7 DEF First

-----------------------------------------------------------------------------
(* The sort.                                                                *)

\* A sort starts with nothing placed.
LEMMA BeginSortKeeps ==
    ASSUME scene \in Scene, scene' = scene,
           NEW c \in Node \cup {Global}, NEW p \in {1, 2}, BeginSort(c, p)
    PROVE  /\ SortInv'
           /\ pc' = "sort" /\ job' = [scope |-> c, part |-> p]
           /\ queue' \subseteq Node /\ sorted' \in Seq(Node)
<1> DEFINE S == Members(c, p)
<1>1. Sorting' = S
  BY DEF BeginSort, Sorting, Members, PartOf, Halved
<1>2. S \subseteq Node /\ IsFiniteSet(S) /\ \A n : IsFiniteSet(Before(n, S))
  BY SetsFinite
<1>3. \A n \in S : Before(n, Sorting)' = Before(n, S)
  BY <1>1 DEF Before, Climb, Above, NeedsInit
<1>4. sorted' = <<>> /\ Len(sorted') = 0 /\ Found' = {}
  BY DEF BeginSort, Found, Placed
<1>5. eff' \in [S -> Nat]
  BY <1>2, EffectiveType DEF BeginSort
<1>6. inDegree' \in [S -> Nat]
  BY <1>2, FS_CardinalityType DEF BeginSort
<1>7. queue' = {n \in Sorting' \ Found' : Before(n, Sorting)' \subseteq Found'}
  BY <1>1, <1>3, <1>4 DEF BeginSort
<1>8. \A n \in S : inDegree'[n] = Cardinality(Before(n, Sorting)' \ Found')
  <2>1. \A n \in S : inDegree'[n] = Cardinality(Before(n, S))
    BY DEF BeginSort
  <2>2. QED
    BY <2>1, <1>3, <1>4
<1>9. SortInv'
  <2> HIDE DEF S
  <2>1. QED
    BY <1>1, <1>4, <1>5, <1>6, <1>7, <1>8 DEF SortInv
<1>10. QED
  BY <1>9, <1>2, <1>4 DEF BeginSort

\* Every device taken from the queue keeps the sort in order.
LEMMA PopKeeps ==
    ASSUME scene \in Scene, SortInv, Pop
    PROVE  /\ SortInv'
           /\ queue' \subseteq Node /\ sorted' \in Seq(Node)
<1> DEFINE S == Sorting
           B(n) == Before(n, Sorting)
           cur == First(queue)
           fed == {n \in S : cur \in B(n)}
<1>1. /\ S \subseteq Node /\ IsFiniteSet(S)
      /\ \A n : B(n) \subseteq S /\ IsFiniteSet(B(n))
  BY SetsFinite DEF Sorting
<1>0. PICK L \in Nat : L = Len(sorted)
  BY DEF SortInv
<1>2. /\ sorted \in Seq(S) /\ L \in Nat
      /\ eff \in [S -> Nat] /\ inDegree \in [S -> Nat]
  BY DEF SortInv
<1>3. queue = {n \in S \ Found : B(n) \subseteq Found}
  BY DEF SortInv
<1>4. \A n \in S : inDegree[n] = Cardinality(B(n) \ Found)
  BY DEF SortInv
<1>5. \A i \in 1..L : B(sorted[i]) \subseteq Placed(i-1)
  BY <1>0 DEF SortInv
<1>6. cur \in queue /\ \A b \in queue \ {cur} : Ahead(cur, b)
  <2>1. queue \subseteq S /\ queue # {}
    BY <1>3 DEF Pop
  <2>2. QED
    BY <2>1, <1>1, <1>2, FirstIsAhead
<1>7. cur \in S /\ cur \notin Found /\ B(cur) \subseteq Found
  BY <1>3, <1>6
<1>8. /\ sorted' = Append(sorted, cur)
      /\ inDegree' = [n \in S |-> IF n \in fed THEN inDegree[n] - 1 ELSE inDegree[n]]
      /\ queue' = (queue \ {cur}) \cup {n \in fed : inDegree[n] = 1}
      /\ eff' = eff /\ scene' = scene /\ job' = job
  BY DEF Pop
<1>9. Sorting' = S
  BY <1>8 DEF Sorting, Members, PartOf, Halved
<1>10. \A n \in S : Before(n, Sorting)' = B(n)
  BY <1>8, <1>9 DEF Before, Climb, Above, NeedsInit
<1> HIDE DEF S, B, cur, fed
<1>11. /\ sorted' \in Seq(S) /\ Len(sorted') = L + 1 /\ sorted'[L+1] = cur
       /\ \A i \in 1..L : sorted'[i] = sorted[i] /\ sorted[i] \in S
  BY <1>0, <1>2, <1>7, <1>8
<1>12. /\ \A i \in 0..L : Placed(i)' = Placed(i)
       /\ Placed(L) = Found /\ Placed(L+1)' = Found \cup {cur} /\ Found' = Found \cup {cur}
  <2>1. \A i \in 0..L : Placed(i)' = Placed(i)
    <3> SUFFICES ASSUME NEW i \in 0..L
                 PROVE  Placed(i)' = Placed(i)
      OBVIOUS
    <3>1. \A k \in 1..i : k \in 1..L
      BY <1>2
    <3>2. \A k \in 1..i : sorted'[k] = sorted[k]
      BY <3>1, <1>11
    <3>3. QED
      BY <3>2 DEF Placed
  <2>2. Placed(L) = Found
    BY <1>0 DEF Found
  <2>3. Placed(L+1)' = Placed(L) \cup {cur}
    <3>1. 1..(L+1) = (1..L) \cup {L+1}
      BY <1>2
    <3>2. QED
      BY <3>1, <1>11 DEF Placed
  <2>4. Found' = Placed(L+1)'
    BY <1>11 DEF Found, Placed
  <2>5. QED
    BY <2>1, <2>2, <2>3, <2>4
<1>13. \A n \in Found : \E i \in 1..L : n = sorted[i] /\ B(n) \subseteq Found
  <2>1. \A i \in 1..L : Placed(i-1) \subseteq Found
    BY <1>0, <1>2 DEF Placed, Found
  <2>2. QED
    BY <1>0, <2>1, <1>5 DEF Placed, Found
<1>14. \A n \in S : /\ inDegree'[n] = Cardinality(B(n) \ Found')
                     /\ inDegree'[n] \in Nat
  <2> SUFFICES ASSUME NEW n \in S
               PROVE  /\ inDegree'[n] = Cardinality(B(n) \ Found')
                      /\ inDegree'[n] \in Nat
    OBVIOUS
  <2> DEFINE W == B(n) \ Found
  <2>1. IsFiniteSet(W) /\ inDegree[n] = Cardinality(W) /\ Cardinality(W) \in Nat
    BY <1>1, <1>4, FS_Subset, FS_CardinalityType
  <2>2. B(n) \ Found' = W \ {cur}
    BY <1>12
  <2>3. /\ IsFiniteSet(W \ {cur})
        /\ Cardinality(W \ {cur}) = IF cur \in W THEN Cardinality(W) - 1 ELSE Cardinality(W)
        /\ Cardinality(W \ {cur}) \in Nat
    <3> HIDE DEF W
    <3>1. QED
      BY <2>1, FS_RemoveElement, FS_CardinalityType
  <2>4. cur \in W <=> n \in fed
    BY <1>7 DEF fed
  <2>5. inDegree'[n] = IF n \in fed THEN inDegree[n] - 1 ELSE inDegree[n]
    BY <1>8
  <2>6. QED
    BY <2>1, <2>2, <2>3, <2>4, <2>5
<1>15. inDegree' \in [S -> Nat]
  <2>1. inDegree' = [n \in S |-> inDegree'[n]]
    BY <1>8
  <2>2. QED
    BY <2>1, <1>14
<1>16. queue' = {n \in S \ Found' : B(n) \subseteq Found'}
  <2>1. ASSUME NEW n \in queue'
        PROVE  n \in S \ Found' /\ B(n) \subseteq Found'
    <3>1. CASE n \in queue \ {cur}
      BY <3>1, <1>3, <1>12
    <3>2. CASE n \in fed /\ inDegree[n] = 1
      <4>1. n \in S /\ cur \in B(n)
        BY <3>2 DEF fed
      <4>2. inDegree'[n] = 0
        BY <3>2, <4>1, <1>8
      <4>3. IsFiniteSet(B(n) \ Found')
        BY <1>1, FS_Subset
      <4>4. B(n) \ Found' = {}
        BY <4>1, <4>2, <4>3, <1>14, FS_EmptySet
      <4>5. n \notin Found /\ n # cur
        BY <4>1, <1>7, <1>13
      <4>6. QED
        BY <4>1, <4>4, <4>5, <1>12
    <3>3. QED
      BY <3>1, <3>2, <1>8
  <2>2. ASSUME NEW n \in S \ Found', B(n) \subseteq Found'
        PROVE  n \in queue'
    <3>1. n \in S /\ n \notin Found /\ n # cur
      BY <1>12
    <3>2. CASE cur \in B(n)
      <4>1. B(n) \ Found = {cur}
        BY <2>2, <3>2, <1>7, <1>12
      <4>2. inDegree[n] = 1
        BY <4>1, <3>1, <1>4, FS_Singleton
      <4>3. QED
        BY <4>2, <3>1, <3>2, <1>8 DEF fed
    <3>3. CASE cur \notin B(n)
      <4>1. B(n) \subseteq Found
        BY <2>2, <3>3, <1>12
      <4>2. n \in queue
        BY <4>1, <3>1, <1>3
      <4>3. QED
        BY <4>2, <3>1, <1>8
    <3>4. QED
      BY <3>2, <3>3
  <2>3. QED
    BY <2>1, <2>2
<1>17. \A i, j \in 1..(L+1) : sorted'[i] = sorted'[j] => i = j
  <2>1. \A i, j \in 1..L : sorted[i] = sorted[j] => i = j
    BY <1>0 DEF SortInv
  <2>2. \A i \in 1..L : sorted[i] # cur
    BY <1>0, <1>7 DEF Found, Placed
  <2>3. \A i \in 1..(L+1) : i \in 1..L \/ i = L + 1
    BY <1>2
  <2>4. QED
    BY <2>1, <2>2, <2>3, <1>11
<1>18. \A i \in 1..(L+1) : B(sorted'[i]) \subseteq Placed(i-1)'
  <2>1. \A i \in 1..L : B(sorted'[i]) \subseteq Placed(i-1)'
    <3> SUFFICES ASSUME NEW i \in 1..L
                 PROVE  B(sorted'[i]) \subseteq Placed(i-1)'
      OBVIOUS
    <3>1. i - 1 \in 0..L
      BY <1>2
    <3>2. Placed(i-1)' = Placed(i-1)
      BY <3>1, <1>12
    <3>3. QED
      BY <3>2, <1>5, <1>11
  <2>2. B(sorted'[L+1]) \subseteq Placed(L)'
    <3>1. L \in 0..L
      BY <1>2
    <3>2. QED
      BY <3>1, <1>7, <1>11, <1>12
  <2>3. (L+1)-1 = L /\ 1..(L+1) = (1..L) \cup {L+1}
    BY <1>2
  <2>4. QED
    BY <2>1, <2>2, <2>3
<1>19. \A i \in 1..(L+1) : \A n \in S \ Placed(i)' :
          B(n) \subseteq Placed(i-1)' => ~ Ahead(n, sorted'[i])
  <2>1. ASSUME NEW i \in 1..L, NEW n \in S \ Placed(i)', B(n) \subseteq Placed(i-1)'
        PROVE  ~ Ahead(n, sorted'[i])
    <3>1. i \in 0..L /\ i - 1 \in 0..L
      BY <1>2
    <3>2. Placed(i)' = Placed(i) /\ Placed(i-1)' = Placed(i-1)
      BY <3>1, <1>12
    <3>3. \A m \in S \ Placed(i) : B(m) \subseteq Placed(i-1) => ~ Ahead(m, sorted[i])
      BY <1>0 DEF SortInv, S, B
    <3>4. QED
      BY <2>1, <3>2, <3>3, <1>11
  <2>2. ASSUME NEW n \in S \ Placed(L+1)', B(n) \subseteq Placed(L)'
        PROVE  ~ Ahead(n, sorted'[L+1])
    <3>1. L \in 0..L
      BY <1>2
    <3>2. Placed(L)' = Found /\ n \notin Found /\ n # cur
      BY <3>1, <1>12
    <3>3. n \in queue \ {cur}
      BY <2>2, <3>2, <1>3
    <3>4. Ahead(cur, n)
      BY <3>3, <1>6
    <3>5. eff[cur] \in Nat /\ eff[n] \in Nat /\ cur \in Nat /\ n \in Nat
      BY <1>1, <1>2, <1>7, NodeAssumption
    <3>6. ~ Ahead(n, cur)
      BY <3>4, <3>5 DEF Ahead
    <3>7. QED
      BY <3>6, <1>11
  <2>3. (L+1)-1 = L /\ 1..(L+1) = (1..L) \cup {L+1}
    BY <1>2
  <2>4. QED
    BY <2>1, <2>2, <2>3
<1>20. SortInv'
  <2>1. \A n : \A m \in S : Ahead(n, m)' <=> Ahead(n, m)
    BY <1>8 DEF Ahead
  <2>2. \A i \in 1..(L+1) : sorted'[i] \in S
    BY <1>11, <1>2
  <2>3. \A i \in 1..(L+1) : Before(sorted[i], Sorting)' = B(sorted'[i])
    BY <1>8, <1>9, <2>2 DEF Before, Climb, Above, NeedsInit, B, S
  <2>4. \A i \in 1..(L+1) : \A n \in S : Ahead(n, sorted[i])' <=> Ahead(n, sorted'[i])
    BY <1>8 DEF Ahead
  <2>5. Len(sorted)' = L + 1
    BY <1>11
  <2>6. (/\ sorted \in Seq(Sorting) /\ eff \in [Sorting -> Nat]
         /\ inDegree \in [Sorting -> Nat])'
    BY <1>2, <1>8, <1>9, <1>11, <1>15
  <2>7. (\A i, j \in 1..Len(sorted) : sorted[i] = sorted[j] => i = j)'
    BY <1>17, <2>5
  <2>8. (queue = {n \in Sorting \ Found : Before(n, Sorting) \subseteq Found})'
    BY <1>16, <1>9, <1>10
  <2>9. (\A n \in Sorting : inDegree[n] = Cardinality(Before(n, Sorting) \ Found))'
    BY <1>14, <1>9, <1>10
  <2>10. (\A i \in 1..Len(sorted) : Before(sorted[i], Sorting) \subseteq Placed(i-1))'
    BY <1>18, <2>3, <2>5
  <2>11. (\A i \in 1..Len(sorted) : \A n \in Sorting \ Placed(i) :
            Before(n, Sorting) \subseteq Placed(i-1) => ~ Ahead(n, sorted[i]))'
    BY <1>19, <1>9, <1>10, <2>4, <2>5
  <2>12. QED
    BY <2>6, <2>7, <2>8, <2>9, <2>10, <2>11 DEF SortInv
<1>21. queue' \subseteq Node /\ sorted' \in Seq(Node)
  BY <1>1, <1>11, <1>16
<1>22. QED
  BY <1>20, <1>21

-----------------------------------------------------------------------------
(* The stack of scopes.                                                     *)

Frame == [scope : Node \cup {Global}, part : {1, 2}, rest : Seq(Node)]
Instruction == [op : {"begin", "do", "break", "end"}, node : Node]

LEMMA Pushed ==
    ASSUME NEW F, NEW f \in F, NEW s \in Seq(F)
    PROVE  /\ <<f>> \o s \in Seq(F) /\ <<f>> \o s # <<>>
           /\ Len(<<f>> \o s) = Len(s) + 1
           /\ (<<f>> \o s)[1] = f
           /\ \A i \in 1..Len(s) : (<<f>> \o s)[i+1] = s[i]
  OBVIOUS

LEMMA Popped ==
    ASSUME NEW F, NEW s \in Seq(F), s # <<>>
    PROVE  /\ Tail(s) \in Seq(F) /\ Len(Tail(s)) = Len(s) - 1 /\ Len(s) \in Nat \ {0}
           /\ Head(s) \in F /\ Head(s) = s[1]
           /\ \A i \in 1..(Len(s)-1) : Tail(s)[i] = s[i+1]
  OBVIOUS

LEMMA Extended ==
    ASSUME NEW s \in Seq(Instruction), NEW n \in Node,
           NEW op \in {"begin", "do", "break", "end"}
    PROVE  s \o Instr(op, n) \in Seq(Instruction)
<1>1. [op |-> op, node |-> n] \in Instruction
  BY DEF Instruction
<1>2. QED
  <2> HIDE DEF Instruction
  <2>1. QED
    BY <1>1 DEF Instr

\* The frame below a scope that is not the global one exists, and keeps its place.
LEMMA TailStack ==
    ASSUME StackInv, pc = "emit", Top.scope # Global
    PROVE  /\ Tail(stack) \in Seq(Frame) /\ Tail(stack) # <<>>
           /\ \A i \in 1..Len(Tail(stack)) :
                 Tail(stack)[i].scope = Global <=> i = Len(Tail(stack))
<1>1. stack \in Seq(Frame) /\ stack # <<>>
  BY DEF StackInv, Frame
<1>2. \A i \in 1..Len(stack) : stack[i].scope = Global <=> i = Len(stack)
  BY DEF StackInv
<1>3. /\ Tail(stack) \in Seq(Frame) /\ Len(Tail(stack)) = Len(stack) - 1
      /\ Len(stack) \in Nat \ {0} /\ Head(stack) = stack[1]
      /\ \A i \in 1..(Len(stack)-1) : Tail(stack)[i] = stack[i+1]
  BY <1>1, Popped
<1>4. Len(stack) # 1
  <2> SUFFICES ASSUME Len(stack) = 1
               PROVE  FALSE
    OBVIOUS
  <2>1. 1 \in 1..Len(stack)
    BY <1>3
  <2>2. stack[1].scope = Global
    BY <2>1, <1>2
  <2>3. QED
    BY <2>2, <1>3 DEF Top
<1>5. Tail(stack) # <<>>
  BY <1>3, <1>4
<1>6. ASSUME NEW i \in 1..Len(Tail(stack))
      PROVE  Tail(stack)[i].scope = Global <=> i = Len(Tail(stack))
  <2>1. i \in 1..(Len(stack)-1) /\ i + 1 \in 1..Len(stack)
    BY <1>3
  <2>2. Tail(stack)[i] = stack[i+1]
    BY <2>1, <1>3
  <2>3. stack[i+1].scope = Global <=> i + 1 = Len(stack)
    BY <2>1, <1>2
  <2>4. i + 1 = Len(stack) <=> i = Len(Tail(stack))
    BY <2>1, <1>3
  <2>5. QED
    BY <2>2, <2>3, <2>4
<1>7. QED
  BY <1>3, <1>5, <1>6

\* What a step does to the head of the stack leaves the other scopes in place.
LEMMA TopReplaced ==
    ASSUME StackInv, pc = "emit", NEW r \in Seq(Node)
    PROVE  LET s == <<[Top EXCEPT !.rest = r]>> \o Tail(stack)
           IN  /\ s \in Seq(Frame) /\ s # <<>>
               /\ \A i \in 1..Len(s) : s[i].scope = Global <=> i = Len(s)
<1> DEFINE f == [Top EXCEPT !.rest = r]
           s == <<f>> \o Tail(stack)
<1>1. stack \in Seq(Frame) /\ stack # <<>>
  BY DEF StackInv, Frame
<1>2. \A i \in 1..Len(stack) : stack[i].scope = Global <=> i = Len(stack)
  BY DEF StackInv
<1>3. /\ Tail(stack) \in Seq(Frame) /\ Len(Tail(stack)) = Len(stack) - 1
      /\ Len(stack) \in Nat \ {0} /\ Top \in Frame /\ Top = stack[1]
      /\ \A i \in 1..(Len(stack)-1) : Tail(stack)[i] = stack[i+1]
  BY <1>1, Popped DEF Top
<1>4. f \in Frame /\ f.scope = stack[1].scope
  BY <1>3 DEF Frame
<1> HIDE DEF f
<1>5. /\ s \in Seq(Frame) /\ s # <<>> /\ Len(s) = Len(stack) /\ s[1] = f
      /\ \A i \in 1..Len(Tail(stack)) : s[i+1] = Tail(stack)[i]
  BY <1>3, <1>4, Pushed
<1> HIDE DEF s
<1>6. ASSUME NEW i \in 1..Len(s)
      PROVE  s[i].scope = Global <=> i = Len(s)
  <2>1. CASE i = 1
    BY <2>1, <1>2, <1>3, <1>4, <1>5
  <2>2. CASE i # 1
    <3>1. i - 1 \in 1..Len(Tail(stack)) /\ i - 1 \in 1..(Len(stack)-1) /\ (i-1)+1 = i
      BY <2>2, <1>3, <1>5
    <3>2. s[i] = Tail(stack)[i-1] /\ Tail(stack)[i-1] = stack[i]
      BY <3>1, <1>3, <1>5
    <3>3. QED
      BY <3>2, <1>2, <1>5
  <2>3. QED
    BY <2>1, <2>2
<1>7. QED
  BY <1>5, <1>6 DEF s, f

-----------------------------------------------------------------------------
(* The invariant, action by action.                                         *)

\* Nothing is sorted before the start.
LEMMA InitKeeps == Init => OrderInv
<1> SUFFICES ASSUME Init
             PROVE  OrderInv
  OBVIOUS
<1>1. scene \in Scene
  BY SceneAssumption DEF Init
<1>2. job \in [scope : Node \cup {Global}, part : {1, 2}]
  BY DEF Init
<1>3. StackInv
  BY DEF Init, StackInv
<1>4. out \in Seq(Instruction) /\ sorted \in Seq(Node)
  <2>1. out = <<>> /\ sorted = <<>>
    BY DEF Init
  <2>2. QED
    BY <2>1
<1>5. pc = "start" /\ queue = {} /\ diags = {} /\ warned = FALSE
  BY DEF Init
<1>6. QED
  BY <1>1, <1>2, <1>3, <1>4, <1>5 DEF OrderInv, Instruction

LEMMA StartKeeps ==
    ASSUME OrderInv, Start
    PROVE  OrderInv'
<1>1. stack = <<>> /\ stack' = stack /\ scene' = scene
  BY DEF OrderInv, StackInv, Start
<1>2. CASE OutsideControl # {}
  <2>1. StackInv'
    BY <1>1, <1>2 DEF Start, OrderInv, StackInv
  <2>2. QED
    BY <1>2, <2>1 DEF Start, OrderInv, sortVars
<1>3. CASE OutsideControl = {}
  <2>1. BeginSort(Global, 1)
    BY <1>3 DEF Start
  <2>2. /\ SortInv' /\ pc' = "sort" /\ job' = [scope |-> Global, part |-> 1]
        /\ queue' \subseteq Node /\ sorted' \in Seq(Node)
    BY <1>1, <2>1, BeginSortKeeps DEF OrderInv
  <2>3. StackInv'
    BY <1>1, <2>2 DEF StackInv, OrderInv
  <2>4. QED
    BY <1>1, <1>3, <2>2, <2>3 DEF Start, OrderInv
<1>4. QED
  BY <1>2, <1>3

LEMMA PopStep ==
    ASSUME OrderInv, Pop
    PROVE  OrderInv'
<1>1. SortInv' /\ queue' \subseteq Node /\ sorted' \in Seq(Node)
  BY PopKeeps DEF OrderInv, Pop
<1>2. StackInv'
  BY DEF OrderInv, StackInv, Pop
<1>3. QED
  BY <1>1, <1>2 DEF OrderInv, Pop

LEMMA EnterKeeps ==
    ASSUME OrderInv, Enter
    PROVE  OrderInv'
<1> DEFINE f == [scope |-> job.scope, part |-> job.part, rest |-> sorted]
<1>1. f \in Frame /\ f.scope = job.scope
  BY DEF OrderInv, Frame
<1>2. stack' = <<f>> \o stack
  BY DEF Enter
<1>3. stack \in Seq(Frame) /\ (stack = <<>> <=> f.scope = Global)
  BY <1>1 DEF OrderInv, StackInv, Frame, Enter
<1> HIDE DEF f
<1>4. /\ stack' \in Seq(Frame) /\ stack' # <<>> /\ Len(stack') = Len(stack) + 1
      /\ stack'[1] = f /\ \A i \in 1..Len(stack) : stack'[i+1] = stack[i]
  BY <1>1, <1>2, <1>3, Pushed
<1>5. Len(stack) \in Nat /\ (stack = <<>> <=> Len(stack) = 0)
  BY <1>3
<1>6. ASSUME NEW i \in 1..Len(stack')
      PROVE  stack'[i].scope = Global <=> i = Len(stack')
  <2>1. CASE i = 1
    BY <2>1, <1>3, <1>4, <1>5
  <2>2. CASE i # 1
    <3>1. i - 1 \in 1..Len(stack) /\ (i-1)+1 = i
      BY <2>2, <1>4, <1>5
    <3>2. stack'[i] = stack[i-1]
      BY <3>1, <1>4
    <3>3. stack[i-1].scope = Global <=> i - 1 = Len(stack)
      BY <3>1 DEF OrderInv, StackInv
    <3>4. QED
      BY <3>1, <3>2, <3>3, <1>4, <1>5
  <2>3. QED
    BY <2>1, <2>2
<1>7. StackInv'
  BY <1>4, <1>6 DEF StackInv, Enter, Frame
<1>8. out' \in Seq(Instruction)
  <2>1. out \in Seq(Instruction)
    BY DEF OrderInv, Instruction
  <2>2. CASE job.scope # Global /\ job.part = 1
    <3>1. job.scope \in Node
      BY <2>2 DEF OrderInv
    <3>2. QED
      BY <2>1, <2>2, <3>1, Extended DEF Enter
  <2>3. QED
    BY <2>1, <2>2 DEF Enter
<1>9. diags' \subseteq {"controlPort", "cycle", "backward"} /\ warned' \in BOOLEAN
  BY DEF Enter, OrderInv
<1>10. QED
  BY <1>7, <1>8, <1>9 DEF OrderInv, Enter, Instruction

LEMMA RefuseKeeps ==
    ASSUME OrderInv, RefuseScene
    PROVE  OrderInv'
<1>1. stack = <<>>
  BY DEF OrderInv, StackInv, RefuseScene
<1>2. StackInv'
  BY <1>1 DEF StackInv, OrderInv, RefuseScene
<1>3. QED
  BY <1>2 DEF OrderInv, RefuseScene, sortVars

LEMMA DropKeeps ==
    ASSUME OrderInv, DropLoop
    PROVE  OrderInv'
<1>1. stack # <<>>
  BY DEF OrderInv, StackInv, DropLoop
<1>2. StackInv'
  BY <1>1 DEF StackInv, OrderInv, DropLoop
<1>3. QED
  BY <1>2 DEF OrderInv, DropLoop, sortVars

LEMMA EmitKeeps ==
    ASSUME OrderInv, EmitNode
    PROVE  OrderInv'
<1> DEFINE n == Head(Top.rest)
           r == Tail(Top.rest)
<1>1. /\ pc = "emit" /\ StackInv /\ stack # <<>> /\ stack \in Seq(Frame)
      /\ scene' = scene /\ diags' = diags /\ warned' = warned
  BY DEF OrderInv, StackInv, EmitNode, Frame
<1>2. Top \in Frame
  BY <1>1, Popped DEF Top
<1>3. Top.rest \in Seq(Node) /\ Top.rest # <<>>
  BY <1>2 DEF Frame, EmitNode
<1>4. n \in Node /\ r \in Seq(Node)
  <2> DEFINE q == Top.rest
  <2>1. q \in Seq(Node) /\ q # <<>>
    BY <1>3
  <2> HIDE DEF q
  <2>2. Head(q) \in Node /\ Tail(q) \in Seq(Node)
    BY <2>1
  <2>3. QED
    BY <2>2 DEF q
<1>5. stack' = <<[Top EXCEPT !.rest = r]>> \o Tail(stack)
  BY <1>2 DEF EmitNode, Frame
<1> HIDE DEF n, r
<1>6. /\ stack' \in Seq(Frame) /\ stack' # <<>>
      /\ \A i \in 1..Len(stack') : stack'[i].scope = Global <=> i = Len(stack')
  BY <1>1, <1>4, <1>5, TopReplaced
<1>7. CASE n \notin Emitted /\ scene.kind[n] \in Containers
  <2>1. BeginSort(n, 1) /\ out' = out
    BY <1>7 DEF EmitNode, n
  <2>2. /\ SortInv' /\ pc' = "sort" /\ job' = [scope |-> n, part |-> 1]
        /\ queue' \subseteq Node /\ sorted' \in Seq(Node)
    BY <1>1, <1>4, <2>1, BeginSortKeeps DEF OrderInv
  <2>3. job' \in [scope : Node \cup {Global}, part : {1, 2}] /\ job'.scope # Global
    BY <2>2, <1>4, GlobalAssumption
  <2>4. StackInv'
    BY <1>6, <2>2, <2>3 DEF StackInv, Frame
  <2>5. QED
    BY <1>1, <2>1, <2>2, <2>3, <2>4 DEF OrderInv
<1>8. CASE ~ (n \notin Emitted /\ scene.kind[n] \in Containers)
  <2>1. /\ out' = IF n \in Emitted THEN out ELSE out \o Instr("do", n)
        /\ pc' = pc /\ job' = job /\ queue' = queue /\ sorted' = sorted
    BY <1>8 DEF EmitNode, n, sortVars
  <2>2. out' \in Seq(Instruction)
    BY <2>1, <1>4, Extended DEF OrderInv, Instruction
  <2>3. StackInv'
    BY <1>1, <1>6, <2>1 DEF StackInv, Frame
  <2>4. QED
    BY <1>1, <2>1, <2>2, <2>3 DEF OrderInv, Instruction
<1>9. QED
  BY <1>7, <1>8

LEMMA NextPartKeeps ==
    ASSUME OrderInv, NextPart
    PROVE  OrderInv'
<1> DEFINE c == Top.scope
           p == Top.part + 1
<1>1. /\ pc = "emit" /\ StackInv /\ stack # <<>> /\ stack \in Seq(Frame)
      /\ scene' = scene /\ out' = out /\ diags' = diags /\ warned' = warned
      /\ BeginSort(c, p) /\ stack' = Tail(stack)
  BY DEF OrderInv, StackInv, NextPart, Frame
<1>2. Top \in Frame
  BY <1>1, Popped DEF Top
<1>3. Halved(c) /\ p \in {1, 2}
  BY <1>2 DEF NextPart, Parts, Frame
<1>4. c \in Node /\ c # Global
  BY <1>2, <1>3 DEF Frame, Halved
<1> HIDE DEF p
<1>5. /\ SortInv' /\ pc' = "sort" /\ job' = [scope |-> c, part |-> p]
      /\ queue' \subseteq Node /\ sorted' \in Seq(Node)
  BY <1>1, <1>3, <1>4, BeginSortKeeps DEF OrderInv
<1>6. job' \in [scope : Node \cup {Global}, part : {1, 2}] /\ job'.scope # Global
  BY <1>3, <1>4, <1>5
<1>7. StackInv'
  <2>1. /\ stack' \in Seq(Frame) /\ stack' # <<>>
        /\ \A i \in 1..Len(stack') : stack'[i].scope = Global <=> i = Len(stack')
    BY <1>1, <1>4, TailStack
  <2>2. QED
    BY <2>1, <1>5, <1>6 DEF StackInv, Frame
<1>8. QED
  BY <1>1, <1>5, <1>6, <1>7 DEF OrderInv

LEMMA CloseKeeps ==
    ASSUME OrderInv, CloseScope
    PROVE  OrderInv'
<1> DEFINE b == IF scene.kind[Top.scope] = "loop" /\ Fed(Top.scope)
                THEN Instr("break", Top.scope) ELSE <<>>
<1>1. /\ pc = "emit" /\ StackInv /\ stack # <<>> /\ stack \in Seq(Frame)
      /\ scene' = scene /\ pc' = pc /\ diags' = diags /\ warned' = warned
      /\ Top.scope # Global /\ stack' = Tail(stack)
      /\ job' = job /\ queue' = queue /\ sorted' = sorted
      /\ out' = out \o b \o Instr("end", Top.scope)
  BY DEF OrderInv, StackInv, CloseScope, Frame, sortVars
<1>2. Top \in Frame
  BY <1>1, Popped DEF Top
<1>3. Top.scope \in Node
  BY <1>1, <1>2 DEF Frame
<1>4. out \o b \in Seq(Instruction)
  <2>1. out \in Seq(Instruction)
    BY DEF OrderInv, Instruction
  <2>2. out \o Instr("break", Top.scope) \in Seq(Instruction)
    BY <1>3, <2>1, Extended
  <2>3. out \o <<>> = out
    <3> HIDE DEF b
    <3>1. QED
      BY <2>1
  <2>4. QED
    BY <2>1, <2>2, <2>3
<1>5. out' \in Seq(Instruction)
  <2> DEFINE s == out \o b
  <2>1. s \in Seq(Instruction) /\ out' = s \o Instr("end", Top.scope)
    BY <1>1, <1>4
  <2> HIDE DEF s
  <2>2. QED
    BY <1>3, <2>1, Extended
<1>6. StackInv'
  <2>1. /\ stack' \in Seq(Frame) /\ stack' # <<>>
        /\ \A i \in 1..Len(stack') : stack'[i].scope = Global <=> i = Len(stack')
    BY <1>1, TailStack
  <2>2. QED
    BY <2>1, <1>1 DEF StackInv, Frame
<1>7. QED
  BY <1>1, <1>5, <1>6 DEF OrderInv, Instruction

LEMMA FinishKeeps ==
    ASSUME OrderInv, Finish
    PROVE  OrderInv'
<1>1. /\ stack # <<>> /\ stack \in Seq(Frame) /\ Top.scope = Global
      /\ pc' = "done" /\ stack' = Tail(stack)
  BY DEF OrderInv, StackInv, Finish, Frame
<1>2. /\ Len(stack) \in Nat \ {0} /\ Head(stack) = stack[1]
      /\ Tail(stack) \in Seq(Frame) /\ Len(Tail(stack)) = Len(stack) - 1
  BY <1>1, Popped
<1>3. Len(stack) = 1
  <2>1. 1 \in 1..Len(stack)
    BY <1>2
  <2>2. QED
    BY <2>1, <1>1, <1>2 DEF OrderInv, StackInv, Top
<1>4. stack' = <<>>
  BY <1>1, <1>2, <1>3
<1>5. stack' \in Seq(Frame) /\ Len(stack') = 0
  BY <1>2, <1>3, <1>4
<1>6. StackInv'
  <2>1. (stack \in Seq([scope : Node \cup {Global}, part : {1, 2}, rest : Seq(Node)]))'
    BY <1>5 DEF Frame
  <2>2. (\A i \in 1..Len(stack) : stack[i].scope = Global <=> i = Len(stack))'
    BY <1>5
  <2>3. stack' = <<>> /\ pc' = "done"
    BY <1>1, <1>4
  <2>4. QED
    BY <2>1, <2>2, <2>3 DEF StackInv
<1>7. QED
  BY <1>6 DEF OrderInv, Finish, sortVars

LEMMA StutterKeeps ==
    ASSUME OrderInv, UNCHANGED vars
    PROVE  OrderInv'
<1>1. SortInv' <=> SortInv
  BY DEF vars, SortInv, Sorting, Members, PartOf, Halved, Found, Placed, Before,
         Climb, Above, NeedsInit, Ahead
<1>2. StackInv' <=> StackInv
  BY DEF vars, StackInv
<1>3. QED
  BY <1>1, <1>2 DEF vars, OrderInv

-----------------------------------------------------------------------------
\* Every sort, in every scope of every scene, keeps the state of Kahn's
\* algorithm: in-degrees count what is still to come, the queue is what is ready.
THEOREM OrderInvariant == Spec => []OrderInv
<1>1. Init => OrderInv
  BY InitKeeps
<1>2. OrderInv /\ [Next]_vars => OrderInv'
  <2> SUFFICES ASSUME OrderInv, [Next]_vars
               PROVE  OrderInv'
    OBVIOUS
  <2>1. CASE Start
    BY <2>1, StartKeeps
  <2>2. CASE Pop
    BY <2>2, PopStep
  <2>3. CASE Enter
    BY <2>3, EnterKeeps
  <2>4. CASE RefuseScene
    BY <2>4, RefuseKeeps
  <2>5. CASE DropLoop
    BY <2>5, DropKeeps
  <2>6. CASE EmitNode
    BY <2>6, EmitKeeps
  <2>7. CASE NextPart
    BY <2>7, NextPartKeeps
  <2>8. CASE CloseScope
    BY <2>8, CloseKeeps
  <2>9. CASE Finish
    BY <2>9, FinishKeeps
  <2>10. CASE Returned \/ UNCHANGED vars
    BY <2>10, StutterKeeps DEF Returned
  <2>11. QED
    BY <2>1, <2>2, <2>3, <2>4, <2>5, <2>6, <2>7, <2>8, <2>9, <2>10 DEF Next
<1>3. QED
  BY <1>1, <1>2, PTL DEF Spec

\* Whatever the scenes, the state keeps its shape and no device waits for fewer
\* than nobody.
THEOREM TypeCorrect == Spec => []TypeOK
<1>1. OrderInv => TypeOK
  BY DEF OrderInv, SortInv, StackInv, TypeOK
<1>2. QED
  BY <1>1, OrderInvariant, PTL

\* In every scope what a device waits for comes before it.
THEOREM SortCorrect == Spec => []SortRespects
<1>1. OrderInv => SortRespects
  BY DEF OrderInv, SortInv, SortRespects
<1>2. QED
  BY <1>1, OrderInvariant, PTL

\* A device overtakes one of earlier order only while it has to wait.
THEOREM NoJumpCorrect == Spec => []NoJump
<1>1. OrderInv => NoJump
  <2> SUFFICES ASSUME OrderInv, pc = "sort",
                      NEW j \in 1..Len(sorted), NEW i \in 1..(j-1),
                      Ahead(sorted[j], sorted[i])
               PROVE  \E k \in i..(j-1) : sorted[k] \in Before(sorted[j], Sorting)
    BY DEF NoJump, Ahead
  <2>1. SortInv
    BY DEF OrderInv
  <2>2. PICK L \in Nat : L = Len(sorted)
    BY <2>1 DEF SortInv
  <2>3. i \in 1..L /\ j \in 1..L /\ i < j
    BY <2>2
  <2> DEFINE B == Before(sorted[j], Sorting)
  <2>4. B \subseteq Placed(j-1)
    BY <2>1 DEF SortInv
  <2>5. sorted[j] \in Sorting \ Placed(i)
    <3>1. sorted[j] \in Sorting
      BY <2>1, <2>2, <2>3 DEF SortInv
    <3>2. \A k \in 1..i : k \in 1..L /\ k # j
      BY <2>2, <2>3
    <3>3. \A k \in 1..i : sorted[k] # sorted[j]
      BY <2>1, <2>2, <2>3, <3>2 DEF SortInv
    <3>4. QED
      BY <3>1, <3>3 DEF Placed
  <2>6. ~ (B \subseteq Placed(i-1))
    BY <2>1, <2>2, <2>3, <2>5 DEF SortInv
  <2>7. PICK b \in B : b \notin Placed(i-1)
    BY <2>6
  <2>8. PICK k \in 1..(j-1) : b = sorted[k]
    BY <2>4, <2>7 DEF Placed
  <2>9. k \notin 1..(i-1)
    BY <2>7, <2>8 DEF Placed
  <2>10. k \in i..(j-1)
    BY <2>3, <2>8, <2>9
  <2>11. QED
    BY <2>7, <2>8, <2>10
<1>2. QED
  BY <1>1, OrderInvariant, PTL

\* A sort that stops early has met a cycle: everything left waits for something
\* that is left.
THEOREM StuckCorrect == Spec => []StuckOnCycle
<1>1. OrderInv => StuckOnCycle
  BY DEF OrderInv, SortInv, StuckOnCycle
<1>2. QED
  BY <1>1, OrderInvariant, PTL
-----------------------------------------------------------------------------
(* Blocks nest.  Each scope on the stack is open in the program, they are    *)
(* different scopes, and below a container's lies the one it is in.          *)

Written(o) == {o[i] : i \in 1..Len(o)}

OpenIn(o, c) ==
    /\ [op |-> "begin", node |-> c] \in Written(o)
    /\ [op |-> "end", node |-> c] \notin Written(o)

Block(x) == IF x.op = "break" THEN x.node ELSE scene.home[x.node]

Nested(o) ==
    \A i \in 1..Len(o) :
        Block(o[i]) # Global =>
            /\ \E j \in 1..(i-1) : o[j] = [op |-> "begin", node |-> Block(o[i])]
            /\ \A j \in 1..(i-1) : o[j] # [op |-> "end", node |-> Block(o[i])]

\* s is a stack of scopes for the program o.
Stacked(s, o) ==
    /\ \A i \in 1..Len(s) : s[i].scope # Global => OpenIn(o, s[i].scope)
    /\ \A i, j \in 1..Len(s) : s[i].scope = s[j].scope => i = j
    /\ \A i \in 1..(Len(s)-1) : scene.home[s[i].scope] = s[i+1].scope
    /\ \A i \in 1..Len(s) : \A k \in 1..Len(s[i].rest) :
          scene.home[s[i].rest[k]] = s[i].scope

\* The scope of the sort under way is the next to be pushed.
Pending ==
    pc = "sort" /\ job.scope # Global =>
        /\ \A i \in 1..Len(stack) : stack[i].scope # job.scope
        /\ scene.home[job.scope] = stack[1].scope
        /\ job.part = 1 => [op |-> "end", node |-> job.scope] \notin Written(out)
        /\ job.part = 2 => OpenIn(out, job.scope)

NestInv == Nested(out) /\ Stacked(stack, out) /\ Pending

\* A program goes on with an instruction whose block is open.
LEMMA NestedOn ==
    ASSUME NEW o \in Seq(Instruction), Nested(o), NEW n \in Node,
           NEW op \in {"begin", "do", "break", "end"},
           Block([op |-> op, node |-> n]) # Global => OpenIn(o, Block([op |-> op, node |-> n]))
    PROVE  /\ o \o Instr(op, n) \in Seq(Instruction)
           /\ Nested(o \o Instr(op, n))
           /\ Written(o \o Instr(op, n)) = Written(o) \cup {[op |-> op, node |-> n]}
<1> DEFINE x == [op |-> op, node |-> n]
           q == o \o <<x>>
<1>1. x \in Instruction
  BY DEF Instruction
<1>2. Block(x) # Global => OpenIn(o, Block(x))
  OBVIOUS
<1> HIDE DEF x, Instruction
<1>3. /\ q \in Seq(Instruction) /\ Len(q) = Len(o) + 1 /\ Len(o) \in Nat
      /\ q[Len(o) + 1] = x /\ \A i \in 1..Len(o) : q[i] = o[i]
  BY <1>1
<1> HIDE DEF q
<1>4. Written(q) = Written(o) \cup {x}
  BY <1>3 DEF Written
<1>5. ASSUME NEW i \in 1..Len(q), Block(q[i]) # Global
      PROVE  /\ \E j \in 1..(i-1) : q[j] = [op |-> "begin", node |-> Block(q[i])]
             /\ \A j \in 1..(i-1) : q[j] # [op |-> "end", node |-> Block(q[i])]
  <2>1. CASE i = Len(o) + 1
    <3>1. q[i] = x /\ i - 1 = Len(o)
      BY <1>3, <2>1
    <3>2. OpenIn(o, Block(x))
      BY <1>2, <1>5, <3>1
    <3> QED
      BY <1>3, <3>1, <3>2 DEF OpenIn, Written
  <2>2. CASE i # Len(o) + 1
    <3>1. i \in 1..Len(o) /\ \A j \in 1..(i-1) : j \in 1..Len(o)
      BY <1>3, <2>2
    <3>2. q[i] = o[i] /\ \A j \in 1..(i-1) : q[j] = o[j]
      BY <1>3, <3>1
    <3> QED
      BY <1>5, <3>1, <3>2 DEF Nested
  <2> QED
    BY <2>1, <2>2
<1>6. Nested(q)
  BY <1>5 DEF Nested
<1>7. q = o \o Instr(op, n)
  BY DEF q, x, Instr
<1> QED
  BY <1>3, <1>4, <1>6, <1>7 DEF x

LEMMA NestInit == Init => NestInv
<1> SUFFICES ASSUME Init
             PROVE  NestInv
  OBVIOUS
<1>1. out = <<>> /\ stack = <<>> /\ pc = "start" /\ Len(<<>>) = 0
  BY DEF Init
<1>2. Nested(out)
  BY <1>1 DEF Nested
<1>3. Stacked(stack, out)
  BY <1>1 DEF Stacked
<1> QED
  BY <1>1, <1>2, <1>3 DEF NestInv, Pending

\* The scope that was sorted is pushed.
LEMMA NestEnter ==
    ASSUME OrderInv, NestInv, Enter
    PROVE  NestInv'
<1> DEFINE f == [scope |-> job.scope, part |-> job.part, rest |-> sorted]
<1>1. f \in Frame /\ f.scope = job.scope /\ f.rest = sorted
  BY DEF OrderInv, Frame
<1>2. /\ stack' = <<f>> \o stack /\ pc = "sort" /\ pc' = "emit" /\ scene' = scene
      /\ out' = IF job.scope # Global /\ job.part = 1
                THEN out \o Instr("begin", job.scope) ELSE out
  BY DEF Enter
<1>3. stack \in Seq(Frame) /\ (stack = <<>> <=> job.scope = Global)
  BY <1>2 DEF OrderInv, StackInv, Frame
<1> HIDE DEF f
<1>4. /\ Len(stack') = Len(stack) + 1 /\ stack'[1] = f /\ Len(stack) \in Nat
      /\ \A i \in 1..Len(stack) : stack'[i+1] = stack[i]
  BY <1>1, <1>2, <1>3, Pushed
<1>5. \A i \in 1..Len(stack') : i # 1 => i - 1 \in 1..Len(stack) /\ stack'[i] = stack[i-1]
  <2> TAKE i \in 1..Len(stack')
  <2> HAVE i # 1
  <2>1. i - 1 \in 1..Len(stack) /\ (i - 1) + 1 = i
    BY <1>4
  <2> QED
    BY <1>4, <2>1
<1>6. job.scope # Global => job.scope \in Node /\ Len(stack) >= 1
  BY <1>3, <1>4 DEF OrderInv
<1>7. job.part \in {1, 2} /\ out \in Seq(Instruction)
  BY DEF OrderInv, Instruction
<1>8. /\ Nested(out')
      /\ \A c : OpenIn(out, c) => OpenIn(out', c)
      /\ job.scope # Global => OpenIn(out', job.scope)
  <2>1. CASE job.scope # Global /\ job.part = 1
    <3>1. /\ scene.home[job.scope] = stack[1].scope
          /\ [op |-> "end", node |-> job.scope] \notin Written(out)
      BY <1>2, <2>1 DEF NestInv, Pending
    <3>2. 1 \in 1..Len(stack)
      BY <1>4, <1>6, <2>1
    <3>3. Block([op |-> "begin", node |-> job.scope]) = stack[1].scope
      BY <3>1 DEF Block
    <3>4. stack[1].scope # Global => OpenIn(out, stack[1].scope)
      BY <3>2 DEF NestInv, Stacked
    <3>5. /\ Nested(out \o Instr("begin", job.scope))
          /\ Written(out \o Instr("begin", job.scope))
               = Written(out) \cup {[op |-> "begin", node |-> job.scope]}
      BY <1>6, <1>7, <2>1, <3>3, <3>4, NestedOn DEF NestInv
    <3>6. Written(out') = Written(out) \cup {[op |-> "begin", node |-> job.scope]}
      BY <1>2, <2>1, <3>5
    <3>7. \A c : [op |-> "end", node |-> c] # [op |-> "begin", node |-> job.scope]
      OBVIOUS
    <3>8. Nested(out')
      BY <1>2, <2>1, <3>5
    <3> QED
      BY <3>1, <3>6, <3>7, <3>8 DEF OpenIn
  <2>2. CASE ~ (job.scope # Global /\ job.part = 1)
    BY <1>2, <1>7, <2>2 DEF NestInv, Pending
  <2> QED
    BY <2>1, <2>2
<1>9. Nested(out)'
  BY <1>2, <1>8 DEF Nested, Block
<1>10. \A i \in 1..Len(stack') : stack'[i].scope # Global => OpenIn(out', stack'[i].scope)
  <2> TAKE i \in 1..Len(stack')
  <2> HAVE stack'[i].scope # Global
  <2>1. CASE i = 1
    BY <1>1, <1>4, <1>8, <2>1
  <2>2. CASE i # 1
    <3>1. OpenIn(out, stack'[i].scope)
      BY <1>5, <2>2 DEF NestInv, Stacked
    <3> QED
      BY <1>8, <3>1
  <2> QED
    BY <2>1, <2>2
<1>11. \A i \in 1..Len(stack) : stack[i].scope # job.scope
  <2>1. CASE job.scope = Global
    <3>1. Len(stack) = 0
      BY <1>3, <2>1
    <3> QED
      BY <3>1
  <2>2. CASE job.scope # Global
    BY <1>2, <2>2 DEF NestInv, Pending
  <2> QED
    BY <2>1, <2>2
<1>12. \A i, j \in 1..Len(stack') : stack'[i].scope = stack'[j].scope => i = j
  <2> TAKE i, j \in 1..Len(stack')
  <2> HAVE stack'[i].scope = stack'[j].scope
  <2>1. CASE i = 1 /\ j = 1
    BY <2>1
  <2>2. CASE (i # 1 /\ j = 1) \/ (i = 1 /\ j # 1)
    BY <1>1, <1>4, <1>5, <1>11, <2>2
  <2>3. CASE i # 1 /\ j # 1
    <3>1. i - 1 = j - 1
      BY <1>5, <2>3 DEF NestInv, Stacked
    <3> QED
      BY <1>4, <3>1
  <2> QED
    BY <2>1, <2>2, <2>3
<1>13. \A i \in 1..(Len(stack')-1) : scene'.home[stack'[i].scope] = stack'[i+1].scope
  <2> TAKE i \in 1..(Len(stack')-1)
  <2>1. i \in 1..Len(stack) /\ stack'[i+1] = stack[i] /\ i \in 1..Len(stack')
    BY <1>4
  <2>2. CASE i = 1
    <3>1. job.scope # Global
      <4>1. Len(stack) # 0
        BY <1>4, <2>1
      <4> QED
        BY <1>3, <4>1
    <3>2. scene.home[job.scope] = stack[1].scope
      BY <1>2, <3>1 DEF NestInv, Pending
    <3> QED
      BY <1>1, <1>2, <1>4, <2>1, <2>2, <3>2
  <2>3. CASE i # 1
    <3>1. i - 1 \in 1..(Len(stack) - 1) /\ (i - 1) + 1 = i
      BY <1>4, <2>1, <2>3
    <3>2. scene.home[stack[i-1].scope] = stack[(i-1)+1].scope
      BY <3>1 DEF NestInv, Stacked
    <3>3. stack'[i] = stack[i-1]
      BY <1>5, <2>1, <2>3
    <3> QED
      BY <1>2, <2>1, <3>1, <3>2, <3>3
  <2> QED
    BY <2>2, <2>3
<1>14. \A i \in 1..Len(stack') : \A k \in 1..Len(stack'[i].rest) :
          scene'.home[stack'[i].rest[k]] = stack'[i].scope
  <2> TAKE i \in 1..Len(stack')
  <2>1. CASE i = 1
    <3>1. sorted \in Seq(Sorting)
      BY <1>2 DEF OrderInv, SortInv
    <3>2. \A k \in 1..Len(sorted) : sorted[k] \in Sorting
      BY <3>1
    <3>3. \A k \in 1..Len(sorted) : scene.home[sorted[k]] = job.scope
      BY <3>2 DEF Sorting, Members
    <3> QED
      BY <1>1, <1>2, <1>4, <2>1, <3>3
  <2>2. CASE i # 1
    BY <1>2, <1>5, <2>2 DEF NestInv, Stacked
  <2> QED
    BY <2>1, <2>2
<1>15. Stacked(stack, out)'
  BY <1>10, <1>12, <1>13, <1>14 DEF Stacked, OpenIn, Written
<1> QED
  BY <1>2, <1>9, <1>15 DEF NestInv, Pending

\* A stack with fewer scopes is one, and stays one for a longer program in which
\* they are open.
LEMMA StackedTail ==
    ASSUME NEW s \in Seq(Frame), s # <<>>, NEW o, Stacked(s, o), NEW q,
           \A i \in 2..Len(s) : OpenIn(o, s[i].scope) => OpenIn(q, s[i].scope)
    PROVE  Stacked(Tail(s), q)
<1> DEFINE t == Tail(s)
<1>1. /\ Len(t) = Len(s) - 1 /\ Len(s) \in Nat \ {0}
      /\ \A i \in 1..(Len(s)-1) : t[i] = s[i+1]
  BY Popped
<1> HIDE DEF t
<1>2. \A i \in 1..Len(t) : i + 1 \in 2..Len(s) /\ i + 1 \in 1..Len(s) /\ t[i] = s[i+1]
  BY <1>1
<1>3. \A i \in 1..Len(t) : t[i].scope # Global => OpenIn(q, t[i].scope)
  BY <1>2 DEF Stacked
<1>4. \A i, j \in 1..Len(t) : t[i].scope = t[j].scope => i = j
  <2> TAKE i, j \in 1..Len(t)
  <2> HAVE t[i].scope = t[j].scope
  <2>1. i + 1 = j + 1
    BY <1>2 DEF Stacked
  <2> QED
    BY <1>1, <2>1
<1>5. \A i \in 1..(Len(t)-1) : scene.home[t[i].scope] = t[i+1].scope
  <2> TAKE i \in 1..(Len(t)-1)
  <2>1. i \in 1..Len(t) /\ i + 1 \in 1..Len(t) /\ i + 1 \in 1..(Len(s)-1)
    BY <1>1
  <2>2. scene.home[s[i+1].scope] = s[(i+1)+1].scope
    BY <2>1 DEF Stacked
  <2> QED
    BY <1>2, <2>1, <2>2
<1>6. \A i \in 1..Len(t) : \A k \in 1..Len(t[i].rest) : scene.home[t[i].rest[k]] = t[i].scope
  BY <1>2 DEF Stacked
<1>7. Stacked(t, q)
  BY <1>3, <1>4, <1>5, <1>6 DEF Stacked
<1> QED
  BY <1>7 DEF t

\* Neither a device taken off the innermost scope nor an instruction that ends
\* none of them disturbs the stack.
LEMMA StackedNext ==
    ASSUME NEW s \in Seq(Frame), s # <<>>, NEW o, Stacked(s, o), NEW q,
           \A c : OpenIn(o, c) => OpenIn(q, c),
           Head(s).rest # <<>>
    PROVE  LET t == <<[Head(s) EXCEPT !.rest = Tail(@)]>> \o Tail(s) IN
           /\ Stacked(t, q)
           /\ t[1].scope = s[1].scope /\ Len(t) = Len(s) /\ Len(s) \in Nat \ {0}
           /\ \A i \in 1..Len(s) : t[i].scope = s[i].scope
           /\ Head(Head(s).rest) \in Node
           /\ scene.home[Head(Head(s).rest)] = s[1].scope
<1> DEFINE r == Head(s).rest
           f == [Head(s) EXCEPT !.rest = Tail(r)]
           t == <<f>> \o Tail(s)
<1>1. /\ Tail(s) \in Seq(Frame) /\ Len(Tail(s)) = Len(s) - 1 /\ Len(s) \in Nat \ {0}
      /\ Head(s) \in Frame /\ Head(s) = s[1]
      /\ \A i \in 1..(Len(s)-1) : Tail(s)[i] = s[i+1]
  BY Popped
<1>2. r \in Seq(Node) /\ r # <<>> /\ r = s[1].rest
  BY <1>1 DEF Frame
<1> HIDE DEF r
<1>3. /\ Tail(r) \in Seq(Node) /\ Len(Tail(r)) = Len(r) - 1 /\ Len(r) \in Nat \ {0}
      /\ Head(r) \in Node /\ Head(r) = r[1]
      /\ \A k \in 1..(Len(r)-1) : Tail(r)[k] = r[k+1]
  BY <1>2, Popped
<1>4. f \in Frame /\ f.scope = s[1].scope /\ f.rest = Tail(r)
  BY <1>1, <1>3 DEF Frame
<1>5. [Head(s) EXCEPT !.rest = Tail(@)] = f
  BY <1>1 DEF r, Frame
<1> HIDE DEF f
<1>6. Len(t) = Len(s) /\ t[1] = f /\ \A i \in 1..Len(Tail(s)) : t[i+1] = Tail(s)[i]
  BY <1>1, <1>4, Pushed
<1> HIDE DEF t
<1>7. \A i \in 1..Len(s) : i # 1 => t[i] = s[i]
  <2> TAKE i \in 1..Len(s)
  <2> HAVE i # 1
  <2>1. i - 1 \in 1..Len(Tail(s)) /\ i - 1 \in 1..(Len(s)-1) /\ (i - 1) + 1 = i
    BY <1>1
  <2> QED
    BY <1>1, <1>6, <2>1
<1>8. \A i \in 1..Len(s) : t[i].scope = s[i].scope
  BY <1>4, <1>6, <1>7
<1>9. \A i \in 1..Len(t) : t[i].scope # Global => OpenIn(q, t[i].scope)
  BY <1>6, <1>8 DEF Stacked
<1>10. \A i, j \in 1..Len(t) : t[i].scope = t[j].scope => i = j
  BY <1>6, <1>8 DEF Stacked
<1>11. \A i \in 1..(Len(t)-1) : scene.home[t[i].scope] = t[i+1].scope
  <2> TAKE i \in 1..(Len(t)-1)
  <2>1. i \in 1..(Len(s)-1) /\ i \in 1..Len(s) /\ i + 1 \in 1..Len(s)
    BY <1>1, <1>6
  <2> QED
    BY <1>8, <2>1 DEF Stacked
<1>12. 1 \in 1..Len(s) /\ \A k \in 1..Len(r) : scene.home[r[k]] = s[1].scope
  BY <1>1, <1>2 DEF Stacked
<1>13. \A i \in 1..Len(t) : \A k \in 1..Len(t[i].rest) : scene.home[t[i].rest[k]] = t[i].scope
  <2> TAKE i \in 1..Len(t)
  <2>1. CASE i = 1
    <3>1. \A k \in 1..Len(Tail(r)) : k + 1 \in 1..Len(r) /\ Tail(r)[k] = r[k+1]
      BY <1>3
    <3>2. \A k \in 1..Len(Tail(r)) : scene.home[Tail(r)[k]] = s[1].scope
      BY <1>12, <3>1
    <3> QED
      BY <1>4, <1>6, <2>1, <3>2
  <2>2. CASE i # 1
    <3>1. i \in 1..Len(s) /\ t[i] = s[i]
      BY <1>6, <1>7, <2>2
    <3> QED
      BY <3>1 DEF Stacked
  <2> QED
    BY <2>1, <2>2
<1>14. Stacked(t, q)
  BY <1>9, <1>10, <1>11, <1>13 DEF Stacked
<1>15. scene.home[Head(r)] = s[1].scope
  BY <1>3, <1>12
<1> QED
  BY <1>1, <1>3, <1>4, <1>5, <1>6, <1>8, <1>14, <1>15 DEF t, r

\* The next device of the innermost scope.
LEMMA NestEmit ==
    ASSUME OrderInv, NestInv, EmitNode
    PROVE  NestInv'
<1> DEFINE n == Head(Top.rest)
           t == <<[Top EXCEPT !.rest = Tail(@)]>> \o Tail(stack)
<1>1. /\ pc = "emit" /\ stack \in Seq(Frame) /\ stack # <<>> /\ Top.rest # <<>>
      /\ stack' = t /\ scene' = scene
  BY DEF EmitNode, OrderInv, StackInv, Frame
<1>2. out \in Seq(Instruction) /\ Nested(out) /\ Stacked(stack, out)
  BY DEF OrderInv, Instruction, NestInv
<1>3. ASSUME NEW q, \A c : OpenIn(out, c) => OpenIn(q, c)
      PROVE  /\ Stacked(t, q)
             /\ t[1].scope = stack[1].scope /\ Len(t) = Len(stack) /\ Len(stack) \in Nat \ {0}
             /\ \A i \in 1..Len(stack) : t[i].scope = stack[i].scope
             /\ n \in Node
             /\ scene.home[n] = stack[1].scope
  BY <1>1, <1>2, <1>3, StackedNext DEF Top
<1>4. /\ t[1].scope = stack[1].scope /\ Len(t) = Len(stack) /\ Len(stack) \in Nat \ {0}
      /\ \A i \in 1..Len(stack) : t[i].scope = stack[i].scope
      /\ n \in Node
      /\ scene.home[n] = stack[1].scope
  BY <1>3
<1>5. Emitted = {out[i].node : i \in 1..Len(out)}
  BY DEF Emitted
<1>6. CASE n \notin Emitted /\ scene.kind[n] \in Containers
  <2>1. BeginSort(n, 1) /\ out' = out
    BY <1>6 DEF EmitNode
  <2>2. pc' = "sort" /\ job' = [scope |-> n, part |-> 1]
    BY <2>1 DEF BeginSort
  <2> HIDE DEF n, t
  <2>3. Stacked(t, out)
    BY <1>3
  <2>4. Stacked(stack, out)' /\ Nested(out)'
    BY <1>1, <1>2, <2>1, <2>3 DEF Stacked, OpenIn, Written, Nested, Block
  <2>5. \A op \in {"begin", "end"} : [op |-> op, node |-> n] \notin Written(out)
    BY <1>6 DEF Written, Emitted
  <2>6. \A i \in 1..Len(stack) : stack[i].scope # n
    <3>1. n # Global
      BY <1>4, GlobalAssumption
    <3>2. \A i \in 1..Len(stack) : stack[i].scope # Global =>
             [op |-> "begin", node |-> stack[i].scope] \in Written(out)
      BY <1>2 DEF Stacked, OpenIn
    <3> QED
      BY <2>5, <3>1, <3>2
  <2>7. Pending'
    <3>1. job'.scope = n /\ job'.part = 1
      BY <2>2
    <3>2. \A i \in 1..Len(stack') : stack'[i].scope # job'.scope
      BY <1>1, <1>4, <2>6, <3>1
    <3>3. scene'.home[job'.scope] = stack'[1].scope
      BY <1>1, <1>4, <3>1
    <3>4. [op |-> "end", node |-> job'.scope] \notin Written(out')
      BY <2>1, <2>5, <3>1
    <3> QED
      BY <3>1, <3>2, <3>3, <3>4 DEF Pending, Written
  <2> QED
    BY <2>4, <2>7 DEF NestInv
<1>7. CASE ~ (n \notin Emitted /\ scene.kind[n] \in Containers)
  <2>1. /\ out' = IF n \in Emitted THEN out ELSE out \o Instr("do", n)
        /\ pc' = pc
    BY <1>7 DEF EmitNode
  <2> HIDE DEF n, t
  <2>2. Block([op |-> "do", node |-> n]) = stack[1].scope
    BY <1>4 DEF Block
  <2>3. stack[1].scope # Global => OpenIn(out, stack[1].scope)
    BY <1>2, <1>4 DEF Stacked
  <2>4. /\ Nested(out \o Instr("do", n))
        /\ Written(out \o Instr("do", n)) = Written(out) \cup {[op |-> "do", node |-> n]}
    BY <1>2, <1>4, <2>2, <2>3, NestedOn
  <2>5. \A c : OpenIn(out, c) => OpenIn(out \o Instr("do", n), c)
    <3>1. \A c : [op |-> "end", node |-> c] # [op |-> "do", node |-> n]
      OBVIOUS
    <3> QED
      BY <2>4, <3>1 DEF OpenIn
  <2>6. Nested(out') /\ \A c : OpenIn(out, c) => OpenIn(out', c)
    BY <1>2, <2>1, <2>4, <2>5
  <2>7. Stacked(t, out')
    BY <1>3, <2>6
  <2>8. Stacked(stack, out)' /\ Nested(out)'
    BY <1>1, <2>6, <2>7 DEF Stacked, OpenIn, Written, Nested, Block
  <2> QED
    BY <1>1, <2>1, <2>8 DEF NestInv, Pending
<1> QED
  BY <1>6, <1>7

\* The second half of a scope: its block is still open, and it is off the stack.
LEMMA NestNextPart ==
    ASSUME OrderInv, NestInv, NextPart
    PROVE  NestInv'
<1> DEFINE c == Top.scope
           p == Top.part + 1
<1>1. /\ stack \in Seq(Frame) /\ stack # <<>> /\ StackInv /\ pc = "emit"
      /\ stack' = Tail(stack) /\ scene' = scene /\ out' = out
      /\ p \in Parts(c) /\ BeginSort(c, p)
  BY DEF NextPart, OrderInv, StackInv, Frame
<1>2. /\ Tail(stack) \in Seq(Frame) /\ Len(Tail(stack)) = Len(stack) - 1
      /\ Len(stack) \in Nat \ {0} /\ Top \in Frame /\ Top = stack[1]
      /\ \A i \in 1..(Len(stack)-1) : Tail(stack)[i] = stack[i+1]
  BY <1>1, Popped DEF Top
<1>3. Halved(c) /\ p = 2
  BY <1>1, <1>2 DEF Parts, Frame
<1>4. c # Global /\ c = stack[1].scope
  BY <1>2, <1>3 DEF Halved
<1>5. pc' = "sort" /\ job' = [scope |-> c, part |-> p]
  BY <1>1 DEF BeginSort
<1>6. Len(Tail(stack)) >= 1
  <2>1. Tail(stack) # <<>>
    BY <1>1, <1>4, TailStack
  <2> HIDE DEF c, p
  <2>2. Len(Tail(stack)) # 0
    BY <1>2, <2>1
  <2> QED
    BY <1>2, <2>2
<1> HIDE DEF c, p
<1>7. job'.scope = c /\ job'.part = 2
  BY <1>3, <1>5
<1>8. Stacked(stack, out) /\ Nested(out)
  BY DEF NestInv
<1>9. Stacked(Tail(stack), out)
  BY <1>1, <1>8, StackedTail
<1>10. Stacked(stack, out)' /\ Nested(out)'
  BY <1>1, <1>8, <1>9 DEF Stacked, OpenIn, Written, Nested, Block
<1>11. 1 \in 1..Len(stack) /\ 1 \in 1..(Len(stack)-1)
  BY <1>2, <1>6
<1>12. OpenIn(out, c)
  BY <1>4, <1>8, <1>11 DEF Stacked
<1>13. \A i \in 1..Len(Tail(stack)) : Tail(stack)[i].scope # c
  <2> TAKE i \in 1..Len(Tail(stack))
  <2>1. i + 1 \in 1..Len(stack) /\ i + 1 # 1 /\ Tail(stack)[i] = stack[i+1]
    BY <1>2
  <2> QED
    BY <1>4, <1>8, <1>11, <2>1 DEF Stacked
<1>14. scene.home[c] = Tail(stack)[1].scope
  <2>1. Tail(stack)[1] = stack[1+1]
    BY <1>2, <1>11
  <2>2. scene.home[stack[1].scope] = stack[1+1].scope
    BY <1>8, <1>11 DEF Stacked
  <2> QED
    BY <1>4, <2>1, <2>2
<1>15. Pending'
  BY <1>1, <1>7, <1>12, <1>13, <1>14 DEF Pending, OpenIn, Written
<1> QED
  BY <1>10, <1>15 DEF NestInv

\* A container ends; it is the innermost, and the others are not it.
LEMMA NestClose ==
    ASSUME OrderInv, NestInv, CloseScope
    PROVE  NestInv'
<1> DEFINE c == Top.scope
           b == IF scene.kind[c] = "loop" /\ Fed(c) THEN Instr("break", c) ELSE <<>>
           o == out \o b
<1>1. /\ stack \in Seq(Frame) /\ stack # <<>> /\ StackInv /\ pc = "emit"
      /\ stack' = Tail(stack) /\ scene' = scene /\ pc' = pc /\ c # Global
      /\ out' = o \o Instr("end", c)
  BY DEF CloseScope, OrderInv, StackInv, Frame
<1>2. /\ Len(Tail(stack)) = Len(stack) - 1
      /\ Len(stack) \in Nat \ {0} /\ Top \in Frame /\ Top = stack[1]
      /\ \A i \in 1..(Len(stack)-1) : Tail(stack)[i] = stack[i+1]
      /\ Tail(stack) \in Seq(Frame)
  BY <1>1, Popped DEF Top
<1>3. c \in Node /\ c = stack[1].scope
  BY <1>1, <1>2 DEF Frame
<1>4. Len(Tail(stack)) # 0
  <2>1. Tail(stack) # <<>>
    BY <1>1, TailStack
  <2> HIDE DEF c, b, o
  <2> QED
    BY <1>2, <2>1
<1>5. b = Instr("break", c) \/ b = <<>>
  OBVIOUS
<1> HIDE DEF c, b
<1>6. Stacked(stack, out) /\ Nested(out) /\ out \in Seq(Instruction)
  BY DEF NestInv, OrderInv, Instruction
<1>7. 1 \in 1..Len(stack) /\ 1 \in 1..(Len(stack)-1) /\ 1 + 1 \in 1..Len(stack)
  BY <1>2, <1>4
<1>8. /\ OpenIn(out, c)
      /\ scene.home[c] = stack[1+1].scope
      /\ stack[1+1].scope # Global => OpenIn(out, stack[1+1].scope)
  BY <1>1, <1>3, <1>6, <1>7 DEF Stacked
<1>9. /\ o \in Seq(Instruction) /\ Nested(o)
      /\ Written(o) \subseteq Written(out) \cup {[op |-> "break", node |-> c]}
      /\ Written(out) \subseteq Written(o)
  <2>1. CASE b = <<>>
    <3>1. o = out
      BY <1>6, <2>1
    <3> QED
      BY <1>6, <3>1
  <2>2. CASE b = Instr("break", c)
    <3>1. Block([op |-> "break", node |-> c]) = c
      BY DEF Block
    <3>2. /\ out \o Instr("break", c) \in Seq(Instruction)
          /\ Nested(out \o Instr("break", c))
          /\ Written(out \o Instr("break", c)) = Written(out) \cup {[op |-> "break", node |-> c]}
      BY <1>3, <1>6, <1>8, <3>1, NestedOn
    <3> QED
      BY <2>2, <3>2
  <2> QED
    BY <1>5, <2>1, <2>2
<1> HIDE DEF o
<1>10. \A d : OpenIn(out, d) => OpenIn(o, d)
  <2>1. \A d : [op |-> "end", node |-> d] # [op |-> "break", node |-> c]
    OBVIOUS
  <2> QED
    BY <1>9, <2>1 DEF OpenIn
<1>11. Block([op |-> "end", node |-> c]) = scene.home[c]
  BY DEF Block
<1>12. /\ Nested(o \o Instr("end", c))
       /\ Written(o \o Instr("end", c)) = Written(o) \cup {[op |-> "end", node |-> c]}
  <2> DEFINE d == scene.home[c]
  <2>1. d # Global => OpenIn(o, d)
    BY <1>8, <1>10
  <2>2. Block([op |-> "end", node |-> c]) # Global =>
           OpenIn(o, Block([op |-> "end", node |-> c]))
    BY <1>11, <2>1
  <2> HIDE DEF d
  <2> QED
    BY <1>3, <1>9, <2>2, NestedOn
<1>13. \A d : d # c /\ OpenIn(out, d) => OpenIn(out', d)
  <2>1. \A d : d # c => [op |-> "end", node |-> d] # [op |-> "end", node |-> c]
    OBVIOUS
  <2>2. Written(out') = Written(o) \cup {[op |-> "end", node |-> c]}
    BY <1>1, <1>12
  <2> QED
    BY <1>10, <2>1, <2>2 DEF OpenIn
<1>14. \A i \in 2..Len(stack) : stack[i].scope # c
  <2> TAKE i \in 2..Len(stack)
  <2>1. i \in 1..Len(stack) /\ i # 1
    BY <1>2
  <2> QED
    BY <1>3, <1>6, <1>7, <2>1 DEF Stacked
<1>15. Stacked(Tail(stack), out')
  BY <1>1, <1>6, <1>13, <1>14, StackedTail
<1>16. Stacked(stack, out)' /\ Nested(out)'
  BY <1>1, <1>12, <1>15 DEF Stacked, OpenIn, Written, Nested, Block
<1> QED
  BY <1>1, <1>16 DEF NestInv, Pending

\* The global scope ends.
LEMMA NestFinish ==
    ASSUME OrderInv, NestInv, Finish
    PROVE  NestInv'
<1>1. /\ stack \in Seq(Frame) /\ stack # <<>>
      /\ stack' = Tail(stack) /\ scene' = scene /\ out' = out /\ pc' = "done"
  BY DEF Finish, OrderInv, StackInv, Frame
<1>2. Stacked(Tail(stack), out) /\ Nested(out)
  BY <1>1, StackedTail DEF NestInv
<1> QED
  BY <1>1, <1>2 DEF NestInv, Pending, Stacked, OpenIn, Written, Nested, Block

\* The steps that neither push nor write.
LEMMA NestRest ==
    ASSUME OrderInv, NestInv,
           Start \/ Pop \/ RefuseScene \/ DropLoop \/ Returned \/ UNCHANGED vars
    PROVE  NestInv'
<1>1. UNCHANGED <<scene, stack, out>>
  BY DEF Start, Pop, RefuseScene, DropLoop, Returned, vars, sortVars
<1>2. Stacked(stack, out)' /\ Nested(out)'
  BY <1>1 DEF NestInv, Stacked, OpenIn, Written, Nested, Block
<1>3. pc' = "sort" /\ job'.scope # Global => pc = "sort" /\ job' = job
  <2>1. CASE Start
    <3>1. pc' = "done" \/ job' = [scope |-> Global, part |-> 1]
      BY <2>1 DEF Start, BeginSort
    <3> QED
      BY <3>1
  <2>2. CASE ~Start
    BY <2>2 DEF Pop, RefuseScene, DropLoop, Returned, vars, sortVars
  <2> QED
    BY <2>1, <2>2
<1>4. Pending'
  BY <1>1, <1>3 DEF NestInv, Pending, OpenIn, Written
<1> QED
  BY <1>2, <1>4 DEF NestInv

LEMMA NestInvariant == Spec => []NestInv
<1>1. Init => NestInv
  BY NestInit
<1>2. OrderInv /\ NestInv /\ [Next]_vars => NestInv'
  <2> SUFFICES ASSUME OrderInv, NestInv, [Next]_vars
               PROVE  NestInv'
    OBVIOUS
  <2>1. CASE Enter
    BY <2>1, NestEnter
  <2>2. CASE EmitNode
    BY <2>2, NestEmit
  <2>3. CASE NextPart
    BY <2>3, NestNextPart
  <2>4. CASE CloseScope
    BY <2>4, NestClose
  <2>5. CASE Finish
    BY <2>5, NestFinish
  <2>6. CASE Start \/ Pop \/ RefuseScene \/ DropLoop \/ Returned \/ UNCHANGED vars
    BY <2>6, NestRest
  <2> QED
    BY <2>1, <2>2, <2>3, <2>4, <2>5, <2>6 DEF Next
<1> QED
  BY <1>1, <1>2, OrderInvariant, PTL DEF Spec

\* The blocks of every program nest: no instruction stands outside the begin and
\* the end of the container its device is in, and no break outside its loop.
THEOREM NestCorrect == Spec => []BlocksNest
<1>1. NestInv => BlocksNest
  BY DEF NestInv, Nested, BlocksNest, Block
<1> QED
  BY <1>1, NestInvariant, PTL

-----------------------------------------------------------------------------
(* What is still to come.  A device begins when it is its turn in its scope: *)
(* what it waits for there, and all inside that, is over by then, and what   *)
(* has begun is not to come again.                                           *)

Elements(r) == {r[k] : k \in 1..Len(r)}

\* What a scope has left is of the part at hand, each device once, none before
\* what it waits for.
Lined(f) ==
    LET S == Members(f.scope, f.part) IN
    /\ f.part \in Parts(f.scope)
    /\ \A k \in 1..Len(f.rest) : f.rest[k] \in S
    /\ \A k, l \in 1..Len(f.rest) : f.rest[k] = f.rest[l] => k = l
    /\ \A k \in 1..Len(f.rest) : \A l \in k..Len(f.rest) :
          f.rest[l] \notin Before(f.rest[k], S)

\* It is the turn of n in the scope: nothing it waits for is left.
Called(n, f) ==
    /\ PartOf(n) = f.part
    /\ n \notin Elements(f.rest)
    /\ Before(n, Members(f.scope, f.part)) \cap ({n} \cup Elements(f.rest)) = {}

\* On a stack of scopes it is the turn of each in the one below.
Ranked(s) ==
    /\ \A i \in 1..Len(s) : Lined(s[i])
    /\ \A i \in 1..(Len(s)-1) : Called(s[i].scope, s[i+1])

\* And that of the scope of the sort in the innermost.
NextCalled ==
    pc = "sort" =>
        /\ job.part \in Parts(job.scope)
        /\ job.scope # Global => /\ scene.kind[job.scope] \in Containers
                                 /\ Called(job.scope, stack[1])

RankInv == Ranked(stack) /\ NextCalled

\* y is left in a scope that is sorted or emitted, or in a later part of it.
Waits(y) ==
    \/ pc = "start"
    \/ pc = "sort" /\ scene.home[y] = job.scope /\ PartOf(y) >= job.part
    \/ \E i \in 1..Len(stack) :
          /\ scene.home[y] = stack[i].scope
          /\ PartOf(y) > stack[i].part \/ y \in Elements(stack[i].rest)

\* The scopes that are sorted or emitted.
Open ==
    {stack[i].scope : i \in 1..Len(stack)} \cup (IF pc = "sort" THEN {job.scope} ELSE {})

Beginning(n) == pc = "sort" /\ job.part = 1 /\ n = job.scope

\* n or a scope above it is left: n may yet begin.
Coming(n) == Beginning(n) \/ \E y \in {n} \cup Above[n] : Waits(y)

\* What is left is in an open scope and not one.
ScopesInv ==
    /\ pc # "start" => \A y \in Node : Waits(y) => y \notin Open /\ scene.home[y] \in Open
    /\ \A c \in Open \ {Global} : scene.home[c] \in Open

\* The device x and what is inside it.
Under(x) == {a \in Node : x \in {a} \cup Above[a]}

Precedes(n) == Before(n, Members(scene.home[n], PartOf(n)))

\* What begins now does not begin again, and nothing it waits for begins later.
Timely(n) ==
    /\ ~ Coming(n)
    /\ \A x \in Precedes(n) : n \notin Under(x) /\ \A a \in Under(x) : ~ Coming(a)

OnceInv ==
    /\ \A n \in Emitted : ~ Coming(n) /\ Begun(n) # {}
    /\ \A n \in Node : \A i, j \in Begun(n) : i = j

OutwardInv ==
    \A b \in Node : Begun(b) # {} =>
        \A x \in Precedes(b) :
            /\ b \notin Under(x)
            /\ \A a \in Under(x) : ~ Coming(a) /\ \A i \in Begun(b) : \A j \in Begun(a) : j < i

Housed == \A n \in Node : scene.home[n] # Global => scene.kind[scene.home[n]] \in Containers

\* Nothing is lost while no cycle is met in a loop, a branch or a phase.
Unbroken == LoopsAcyclic /\ ~ warned /\ ~ (pc = "done" /\ diags # {})

\* A device of an emitted scope is emitted or to come.
Kept(n) == n \in Emitted \/ Waits(n) \/ Beginning(n)

WholeInv ==
    Unbroken => \A n \in Node : scene.home[n] \in Emitted \cup {Global} => Kept(n)

-----------------------------------------------------------------------------
(* The scope tree.                                                          *)

\* The scopes above a device: its home, and with each the one that is in.
LEMMA AboveClosed ==
    ASSUME scene \in Scene, NEW n \in Node
    PROVE  /\ Above[n] \subseteq Node
           /\ scene.home[n] # Global => scene.home[n] \in Above[n]
           /\ Upward(scene.home, Above[n])
<1>1. scene.home \in [Node -> Node \cup {Global}]
  BY DEF Scene
<1>2. Above[n] = {a \in Node : \A S \in SUBSET Node :
           scene.home[n] \in S \cup {Global} /\ Upward(scene.home, S) => a \in S}
  BY DEF Above, Ancestors
<1>3. ASSUME NEW x \in Above[n], scene.home[x] # Global
      PROVE  scene.home[x] \in Above[n]
  <2>1. x \in Node /\ scene.home[x] \in Node
    BY <1>1, <1>2, <1>3
  <2>2. ASSUME NEW S \in SUBSET Node, scene.home[n] \in S \cup {Global}, Upward(scene.home, S)
        PROVE  scene.home[x] \in S
    <3>1. x \in S
      BY <1>2, <2>2
    <3> QED
      BY <1>3, <2>2, <3>1 DEF Upward
  <2> QED
    BY <1>2, <2>1, <2>2
<1>4. Upward(scene.home, Above[n])
  BY <1>3 DEF Upward
<1> QED
  BY <1>1, <1>2, <1>4

\* They are the least set of that kind.
LEMMA AboveLeast ==
    ASSUME scene \in Scene, NEW n \in Node, NEW S \in SUBSET Node,
           scene.home[n] \in S \cup {Global}, Upward(scene.home, S)
    PROVE  Above[n] \subseteq S
  BY DEF Above, Ancestors

\* What is above a device is its home, or above that.
LEMMA AboveHome ==
    ASSUME scene \in Scene, NEW n \in Node, NEW x \in Above[n]
    PROVE  /\ scene.home[n] \in Node
           /\ x = scene.home[n] \/ x \in Above[scene.home[n]]
<1>1. scene.home[n] \in Node \cup {Global}
  BY DEF Scene
<1>2. scene.home[n] # Global
  <2> SUFFICES ASSUME scene.home[n] = Global
               PROVE  FALSE
    OBVIOUS
  <2>1. Upward(scene.home, {})
    BY DEF Upward
  <2>2. Above[n] \subseteq {}
    BY <2>1, AboveLeast
  <2> QED
    BY <2>2
<1>3. PICK h \in Node : h = scene.home[n]
  BY <1>1, <1>2
<1>4. /\ Above[h] \subseteq Node
      /\ scene.home[h] # Global => scene.home[h] \in Above[h]
      /\ Upward(scene.home, Above[h])
  BY AboveClosed
<1>5. Upward(scene.home, {h} \cup Above[h])
  BY <1>4 DEF Upward
<1>6. Above[n] \subseteq {h} \cup Above[h]
  BY <1>3, <1>4, <1>5, AboveLeast
<1> QED
  BY <1>3, <1>6

\* What is above a scope is above what the scope is above.
LEMMA AboveAbove ==
    ASSUME scene \in Scene, NEW n \in Node, NEW x \in Above[n]
    PROVE  x \in Node /\ Above[x] \subseteq Above[n]
<1>1. Above[n] \subseteq Node /\ Upward(scene.home, Above[n])
  BY AboveClosed
<1>2. x \in Node /\ scene.home[x] \in Above[n] \cup {Global}
  BY <1>1 DEF Upward
<1> QED
  BY <1>1, <1>2, AboveLeast

\* Of two scopes above a device one is above the other.
LEMMA AboveLinear ==
    ASSUME scene \in Scene, NEW n \in Node, NEW x \in {n} \cup Above[n],
           NEW y \in {n} \cup Above[n]
    PROVE  x = y \/ x \in Above[y] \/ y \in Above[x]
<1> DEFINE T == {z \in Above[n] : x = z \/ x \in Above[z] \/ z \in Above[x]}
<1>1. CASE x = n \/ y = n
  BY <1>1
<1>2. CASE x # n /\ y # n
  <2>1. x \in Above[n] /\ y \in Above[n] /\ x \in Node
    BY <1>2, AboveAbove
  <2>2. T \subseteq Node /\ Above[n] \subseteq Node
    BY AboveClosed
  <2>3. scene.home[n] \in T
    <3>1. scene.home[n] \in Node /\ (x = scene.home[n] \/ x \in Above[scene.home[n]])
      BY <2>1, AboveHome
    <3>2. scene.home[n] \in Above[n]
      BY <3>1, GlobalAssumption, AboveClosed
    <3> QED
      BY <3>1, <3>2
  <2>4. Upward(scene.home, T)
    <3> SUFFICES ASSUME NEW z \in T, scene.home[z] # Global
                 PROVE  scene.home[z] \in T
      BY DEF Upward
    <3>1. z \in Node /\ scene.home[z] \in Above[n]
      BY <2>2, AboveClosed DEF Upward
    <3>2. CASE x = z
      BY <3>1, <3>2, AboveClosed
    <3>3. CASE z \in Above[x]
      BY <2>1, <3>1, <3>3, AboveClosed DEF Upward
    <3>4. CASE x \in Above[z]
      BY <3>1, <3>4, AboveHome
    <3> QED
      BY <3>2, <3>3, <3>4
  <2> HIDE DEF T
  <2>5. Above[n] \subseteq T
    BY <2>2, <2>3, <2>4, AboveLeast
  <2> QED
    BY <2>1, <2>5 DEF T
<1> QED
  BY <1>1, <1>2

-----------------------------------------------------------------------------
(* What is still to come.                                                   *)

\* The scopes that are open hold the scopes above what is in them.
LEMMA OpenAbove ==
    scene \in Scene /\ ScopesInv =>
        \A n \in Node : scene.home[n] \in Open \cup {Global} => Above[n] \subseteq Open
<1> SUFFICES ASSUME scene \in Scene, ScopesInv,
                    NEW n \in Node, scene.home[n] \in Open \cup {Global}
             PROVE  Above[n] \subseteq Open
  OBVIOUS
<1>1. scene.home \in [Node -> Node \cup {Global}]
  BY DEF Scene
<1> DEFINE T == Open \cap Node
<1>2. Upward(scene.home, T)
  BY <1>1, GlobalAssumption DEF ScopesInv, Upward
<1>3. scene.home[n] \in T \cup {Global}
  BY <1>1
<1> HIDE DEF T
<1>4. T \in SUBSET Node
  BY DEF T
<1>5. Above[n] \subseteq T
  BY <1>2, <1>3, <1>4, AboveLeast
<1> QED
  BY <1>5 DEF T

\* Nothing in a device is to come once the device had its turn.
LEMMA PastIsPast ==
    scene \in Scene /\ ScopesInv /\ pc # "start" =>
        \A x \in Node : ~ Waits(x) /\ x \notin Open /\ scene.home[x] \in Open =>
            \A a \in Under(x) : ~ Coming(a)
<1> SUFFICES ASSUME scene \in Scene, ScopesInv, pc # "start",
                    NEW x \in Node, ~ Waits(x), x \notin Open, scene.home[x] \in Open,
                    NEW a \in Node, x \in {a} \cup Above[a], Coming(a)
             PROVE  FALSE
  BY DEF Under
<1>1. CASE Beginning(a)
  <2>1. a \in Open /\ a # Global
    BY <1>1, GlobalAssumption DEF Beginning, Open
  <2>2. Above[a] \subseteq Open
    BY <2>1, OpenAbove DEF ScopesInv
  <2> QED
    BY <2>1, <2>2
<1>2. CASE ~ Beginning(a)
  <2>1. PICK y \in {a} \cup Above[a] : Waits(y)
    BY <1>2 DEF Coming
  <2>2. y \in Node
    BY <2>1, AboveAbove
  <2>3. y \notin Open /\ scene.home[y] \in Open
    BY <2>1, <2>2 DEF ScopesInv
  <2>4. Above[y] \subseteq Open /\ Above[x] \subseteq Open
    BY <2>2, <2>3, OpenAbove
  <2>5. x = y \/ x \in Above[y] \/ y \in Above[x]
    BY <2>1, AboveLinear
  <2> QED
    BY <2>1, <2>3, <2>4, <2>5
<1> QED
  BY <1>1, <1>2

\* Nor is a scope that has begun.
LEMMA OpenIsBegun ==
    scene \in Scene /\ ScopesInv /\ pc # "start" =>
        \A c \in Node : c \in Open /\ ~ Beginning(c) => ~ Coming(c)
<1> SUFFICES ASSUME scene \in Scene, ScopesInv, pc # "start",
                    NEW c \in Node, c \in Open, ~ Beginning(c),
                    NEW y \in {c} \cup Above[c], Waits(y)
             PROVE  FALSE
  BY DEF Coming
<1>1. scene.home[c] \in Open
  BY GlobalAssumption DEF ScopesInv
<1>2. Above[c] \subseteq Open /\ y \in Node
  BY <1>1, OpenAbove, AboveAbove
<1> QED
  BY <1>2 DEF ScopesInv

-----------------------------------------------------------------------------
(* The scopes on the stack, and what each still has to emit.                *)

LEMMA Elements1 ==
    ASSUME NEW r \in Seq(Node), r # <<>>
    PROVE  /\ Head(r) \in Elements(r)
           /\ Elements(Tail(r)) \subseteq Elements(r)
           /\ Elements(r) = {Head(r)} \cup Elements(Tail(r))
<1>1. /\ Tail(r) \in Seq(Node) /\ Len(Tail(r)) = Len(r) - 1 /\ Len(r) \in Nat \ {0}
      /\ Head(r) = r[1] /\ \A k \in 1..(Len(r)-1) : Tail(r)[k] = r[k+1]
  BY Popped
<1>2. \A k \in 1..Len(Tail(r)) : k + 1 \in 1..Len(r) /\ Tail(r)[k] = r[k+1]
  BY <1>1
<1>3. \A k \in 1..Len(r) : k = 1 \/ (k - 1 \in 1..Len(Tail(r)) /\ r[k] = Tail(r)[k-1])
  <2> TAKE k \in 1..Len(r)
  <2>1. CASE k = 1
    BY <2>1
  <2>2. CASE k # 1
    <3>1. k - 1 \in 1..(Len(r)-1) /\ (k - 1) + 1 = k
      BY <1>1, <2>2
    <3> QED
      BY <1>1, <3>1
  <2> QED
    BY <2>1, <2>2
<1>4. 1 \in 1..Len(r)
  BY <1>1
<1>5. Elements(r) \subseteq {Head(r)} \cup Elements(Tail(r))
  BY <1>1, <1>3 DEF Elements
<1>6. Elements(Tail(r)) \subseteq Elements(r)
  BY <1>2 DEF Elements
<1>7. Head(r) \in Elements(r)
  BY <1>1, <1>4 DEF Elements
<1> QED
  BY <1>5, <1>6, <1>7

LEMMA RankedTail ==
    ASSUME NEW s \in Seq(Frame), s # <<>>, Ranked(s)
    PROVE  Ranked(Tail(s))
<1> DEFINE t == Tail(s)
<1>1. /\ Len(t) = Len(s) - 1 /\ Len(s) \in Nat \ {0}
      /\ \A i \in 1..(Len(s)-1) : t[i] = s[i+1]
  BY Popped
<1> HIDE DEF t
<1>2. \A i \in 1..Len(t) : i + 1 \in 1..Len(s) /\ t[i] = s[i+1]
  BY <1>1
<1>3. \A i \in 1..Len(t) : Lined(t[i])
  BY <1>2 DEF Ranked
<1>4. \A i \in 1..(Len(t)-1) : Called(t[i].scope, t[i+1])
  <2> TAKE i \in 1..(Len(t)-1)
  <2>1. i \in 1..Len(t) /\ i + 1 \in 1..Len(t) /\ i + 1 \in 1..(Len(s)-1)
    BY <1>1
  <2>2. Called(s[i+1].scope, s[(i+1)+1])
    BY <2>1 DEF Ranked
  <2> QED
    BY <1>2, <2>1, <2>2
<1>5. Ranked(t)
  BY <1>3, <1>4 DEF Ranked
<1> QED
  BY <1>5 DEF t

LEMMA RankedPush ==
    ASSUME NEW s \in Seq(Frame), Ranked(s), NEW f \in Frame, Lined(f),
           s # <<>> => Called(f.scope, s[1])
    PROVE  Ranked(<<f>> \o s)
<1> DEFINE t == <<f>> \o s
<1>1. /\ Len(t) = Len(s) + 1 /\ Len(s) \in Nat /\ t[1] = f
      /\ \A i \in 1..Len(s) : t[i+1] = s[i]
  BY Pushed
<1> HIDE DEF t
<1>2. \A i \in 1..Len(t) : i = 1 \/ (i - 1 \in 1..Len(s) /\ t[i] = s[i-1])
  <2> TAKE i \in 1..Len(t)
  <2>1. CASE i # 1
    <3>1. i - 1 \in 1..Len(s) /\ (i - 1) + 1 = i
      BY <1>1, <2>1
    <3> QED
      BY <1>1, <3>1
  <2> QED
    BY <2>1
<1>3. \A i \in 1..Len(t) : Lined(t[i])
  BY <1>1, <1>2 DEF Ranked
<1>4. \A i \in 1..(Len(t)-1) : Called(t[i].scope, t[i+1])
  <2> TAKE i \in 1..(Len(t)-1)
  <2>1. i \in 1..Len(t) /\ i \in 1..Len(s) /\ t[i+1] = s[i]
    BY <1>1
  <2>2. CASE i = 1
    <3>1. s # <<>>
      BY <2>1
    <3> QED
      BY <1>1, <2>1, <2>2, <3>1
  <2>3. CASE i # 1
    <3>1. i - 1 \in 1..(Len(s)-1) /\ (i - 1) + 1 = i /\ t[i] = s[i-1]
      BY <1>1, <1>2, <2>1, <2>3
    <3>2. Called(s[i-1].scope, s[(i-1)+1])
      BY <3>1 DEF Ranked
    <3> QED
      BY <2>1, <3>1, <3>2
  <2> QED
    BY <2>2, <2>3
<1>5. Ranked(t)
  BY <1>3, <1>4 DEF Ranked
<1> QED
  BY <1>5 DEF t

\* The head of what a scope has left has its turn.
LEMMA LinedNext ==
    ASSUME NEW f \in Frame, Lined(f), f.rest # <<>>, NEW g \in Frame,
           g.scope = f.scope, g.part = f.part, g.rest = Tail(f.rest)
    PROVE  /\ Lined(g)
           /\ Head(f.rest) \in Members(f.scope, f.part)
           /\ Called(Head(f.rest), g)
           /\ Elements(g.rest) \subseteq Elements(f.rest)
           /\ Elements(f.rest) = {Head(f.rest)} \cup Elements(g.rest)
<1> DEFINE r == f.rest
           S == Members(f.scope, f.part)
<1>1. r \in Seq(Node) /\ r # <<>>
  BY DEF Frame
<1>2. /\ \A k \in 1..Len(r) : r[k] \in S
      /\ \A k, l \in 1..Len(r) : r[k] = r[l] => k = l
      /\ \A k \in 1..Len(r) : \A l \in k..Len(r) : r[l] \notin Before(r[k], S)
      /\ f.part \in Parts(f.scope)
  BY DEF Lined
<1>3. g.rest = Tail(r)
  OBVIOUS
<1> HIDE DEF r
<1>4. /\ Tail(r) \in Seq(Node) /\ Len(Tail(r)) = Len(r) - 1 /\ Len(r) \in Nat \ {0}
      /\ Head(r) = r[1] /\ \A k \in 1..(Len(r)-1) : Tail(r)[k] = r[k+1]
  BY <1>1, Popped
<1>5. \A k \in 1..Len(Tail(r)) : k + 1 \in 1..Len(r) /\ Tail(r)[k] = r[k+1]
  BY <1>4
<1>6. 1 \in 1..Len(r)
  BY <1>4
<1>7. Lined(g)
  <2>1. \A k \in 1..Len(Tail(r)) : Tail(r)[k] \in S
    BY <1>2, <1>5
  <2>2. \A k, l \in 1..Len(Tail(r)) : Tail(r)[k] = Tail(r)[l] => k = l
    <3> TAKE k, l \in 1..Len(Tail(r))
    <3> HAVE Tail(r)[k] = Tail(r)[l]
    <3>1. k + 1 = l + 1
      BY <1>2, <1>5
    <3> QED
      BY <1>4, <3>1
  <2>3. \A k \in 1..Len(Tail(r)) : \A l \in k..Len(Tail(r)) : Tail(r)[l] \notin Before(Tail(r)[k], S)
    <3> TAKE k \in 1..Len(Tail(r))
    <3> TAKE l \in k..Len(Tail(r))
    <3>1. l \in 1..Len(Tail(r)) /\ l + 1 \in (k+1)..Len(r)
      BY <1>4
    <3>2. r[l+1] \notin Before(r[k+1], S)
      BY <1>2, <1>5, <3>1
    <3> QED
      BY <1>5, <3>1, <3>2
  <2> QED
    BY <1>2, <1>3, <2>1, <2>2, <2>3 DEF Lined
<1>8. \A k \in 1..Len(Tail(r)) : Tail(r)[k] # r[1]
  <2> TAKE k \in 1..Len(Tail(r))
  <2>1. k + 1 # 1
    BY <1>4
  <2> QED
    BY <1>2, <1>5, <1>6, <2>1
<1>9. \A k \in 1..Len(Tail(r)) : Tail(r)[k] \notin Before(r[1], S)
  <2> TAKE k \in 1..Len(Tail(r))
  <2>1. k + 1 \in 1..Len(r)
    BY <1>5
  <2>2. r[k+1] \notin Before(r[1], S)
    BY <1>2, <1>6, <2>1
  <2> QED
    BY <1>5, <2>2
<1>10. Head(r) \in S /\ PartOf(Head(r)) = f.part
  BY <1>2, <1>4, <1>6 DEF Members
<1>11. Called(Head(r), g)
  <2>1. r[1] \notin Before(r[1], S)
    <3>1. 1 \in 1..Len(r)
      BY <1>6
    <3> QED
      BY <1>2, <1>6, <3>1
  <2>2. Head(r) \notin Elements(g.rest)
    BY <1>3, <1>4, <1>8 DEF Elements
  <2>3. Before(Head(r), S) \cap Elements(g.rest) = {}
    BY <1>3, <1>4, <1>9 DEF Elements
  <2>4. S = Members(g.scope, g.part)
    OBVIOUS
  <2> HIDE DEF S
  <2> QED
    BY <1>4, <1>10, <2>1, <2>2, <2>3, <2>4 DEF Called
<1>12. Elements(Tail(r)) \subseteq Elements(r) /\ Elements(r) = {Head(r)} \cup Elements(Tail(r))
  BY <1>1, Elements1
<1> QED
  BY <1>3, <1>7, <1>10, <1>11, <1>12 DEF r

\* What it hands out leaves the order of the stack in place.
LEMMA RankedNext ==
    ASSUME NEW s \in Seq(Frame), s # <<>>, Ranked(s), Head(s).rest # <<>>
    PROVE  LET g == [Head(s) EXCEPT !.rest = Tail(@)]
               t == <<g>> \o Tail(s)
               n == Head(Head(s).rest) IN
           /\ Ranked(t)
           /\ n \in Members(s[1].scope, s[1].part)
           /\ Called(n, t[1])
           /\ t[1] = g /\ g.scope = s[1].scope /\ g.part = s[1].part
           /\ Elements(s[1].rest) = {n} \cup Elements(g.rest)
<1> DEFINE g == [Head(s) EXCEPT !.rest = Tail(Head(s).rest)]
           t == <<g>> \o Tail(s)
           n == Head(Head(s).rest)
<1>1. /\ Tail(s) \in Seq(Frame) /\ Len(Tail(s)) = Len(s) - 1 /\ Len(s) \in Nat \ {0}
      /\ Head(s) \in Frame /\ Head(s) = s[1]
      /\ \A i \in 1..(Len(s)-1) : Tail(s)[i] = s[i+1]
  BY Popped
<1>2. g = [Head(s) EXCEPT !.rest = Tail(@)]
  BY <1>1 DEF Frame
<1>3. PICK f \in Frame : f = s[1] /\ f = Head(s)
  BY <1>1
<1>4. f.rest \in Seq(Node) /\ f.rest # <<>>
  BY <1>3 DEF Frame
<1>5. Tail(f.rest) \in Seq(Node)
  BY <1>4, Popped
<1>6. /\ g \in Frame /\ g.scope = f.scope /\ g.part = f.part /\ g.rest = Tail(f.rest)
  BY <1>3, <1>5 DEF Frame
<1>7. Lined(f)
  <2>1. 1 \in 1..Len(s)
    BY <1>1
  <2> QED
    BY <1>3, <2>1 DEF Ranked
<1> HIDE DEF g
<1>8. /\ Lined(g)
      /\ Head(f.rest) \in Members(f.scope, f.part)
      /\ Called(Head(f.rest), g)
      /\ Elements(f.rest) = {Head(f.rest)} \cup Elements(g.rest)
  BY <1>4, <1>6, <1>7, LinedNext
<1>9. Tail(s) # <<>> => Called(g.scope, Tail(s)[1])
  <2> HAVE Tail(s) # <<>>
  <2>1. Len(Tail(s)) # 0
    BY <1>1
  <2>2. 1 \in 1..(Len(s)-1)
    BY <1>1, <2>1
  <2>3. Called(s[1].scope, s[1+1]) /\ Tail(s)[1] = s[1+1]
    BY <1>1, <2>2 DEF Ranked
  <2> QED
    BY <1>3, <1>6, <2>3
<1>10. Ranked(Tail(s))
  BY RankedTail
<1>11. Ranked(t)
  BY <1>1, <1>6, <1>8, <1>9, <1>10, RankedPush
<1>12. t[1] = g
  BY <1>1, <1>6, Pushed
<1> QED
  BY <1>2, <1>3, <1>6, <1>8, <1>11, <1>12

\* The order is of the stack, as long as the scene is the same.
LEMMA RankedLater ==
    ASSUME scene' = scene
    PROVE  Ranked(stack)' <=> Ranked(stack')
  BY DEF Ranked, Lined, Called, Parts, Members, PartOf, Halved, Before, Climb, Above,
         NeedsInit, Elements

LEMMA CalledLater ==
    ASSUME scene' = scene, NEW n, NEW f
    PROVE  Called(n, f)' <=> Called(n, f)
  BY DEF Called, Members, PartOf, Halved, Before, Climb, Above, NeedsInit, Elements

\* Nothing has begun.
LEMMA RankInit == Init => RankInv
<1> SUFFICES ASSUME Init
             PROVE  RankInv
  OBVIOUS
<1>1. stack = <<>> /\ pc = "start" /\ Len(<<>>) = 0
  BY DEF Init
<1> QED
  BY <1>1 DEF RankInv, Ranked, NextCalled

LEMMA RankRest ==
    ASSUME OrderInv, RankInv,
           Start \/ Pop \/ RefuseScene \/ DropLoop \/ Returned \/ UNCHANGED vars
    PROVE  RankInv'
<1>1. UNCHANGED <<scene, stack>>
  BY DEF Start, Pop, RefuseScene, DropLoop, Returned, vars
<1>2. Ranked(stack)'
  BY <1>1, RankedLater DEF RankInv
<1>3. NextCalled'
  <2>1. CASE Start
    <3> SUFFICES ASSUME pc' = "sort"
                 PROVE  NextCalled'
      BY DEF NextCalled
    <3>1. job' = [scope |-> Global, part |-> 1]
      BY <2>1 DEF Start, BeginSort
    <3>2. job'.scope = Global /\ job'.part = 1
      BY <3>1
    <3>3. Parts(job.scope)' = {1}
      BY <3>2 DEF Parts, Halved
    <3> QED
      BY <3>2, <3>3 DEF NextCalled
  <2>2. CASE Pop \/ Returned \/ UNCHANGED vars
    <3>1. pc' = pc /\ job' = job
      BY <2>2 DEF Pop, Returned, vars
    <3>2. Called(job.scope, stack[1])' <=> Called(job.scope, stack[1])
      <4>1. PICK c, f : c = job.scope /\ f = stack[1]
        OBVIOUS
      <4>2. Called(c, f)' <=> Called(c, f)
        BY <1>1, CalledLater
      <4> QED
        BY <1>1, <3>1, <4>1, <4>2 DEF Called, Elements, Members, PartOf, Halved, Before, Climb,
           Above, NeedsInit
    <3>3. Parts(job.scope)' = Parts(job.scope)
      BY <1>1, <3>1 DEF Parts, Halved
    <3> QED
      BY <1>1, <3>1, <3>2, <3>3 DEF RankInv, NextCalled
  <2>3. CASE RefuseScene \/ DropLoop
    BY <2>3 DEF RefuseScene, DropLoop, NextCalled
  <2> QED
    BY <2>1, <2>2, <2>3
<1> QED
  BY <1>2, <1>3 DEF RankInv

\* A sort leaves a device only behind what it waits for.
LEMMA SortedIsLined ==
    ASSUME OrderInv, pc = "sort", job.part \in Parts(job.scope)
    PROVE  Lined([scope |-> job.scope, part |-> job.part, rest |-> sorted])
<1>1. PICK f \in Frame : /\ f = [scope |-> job.scope, part |-> job.part, rest |-> sorted]
                         /\ f.scope = job.scope /\ f.part = job.part /\ f.rest = sorted
  <2>1. [scope |-> job.scope, part |-> job.part, rest |-> sorted] \in Frame
    BY DEF OrderInv, Frame
  <2> QED
    BY <2>1
<1>2. SortInv /\ Sorting = Members(f.scope, f.part)
  BY <1>1 DEF OrderInv, Sorting
<1>3. \A k \in 1..Len(sorted) : sorted[k] \in Sorting
  BY <1>2 DEF SortInv
<1>4. \A k, l \in 1..Len(sorted) : sorted[k] = sorted[l] => k = l
  BY <1>2 DEF SortInv
<1>5. \A k \in 1..Len(sorted) : \A l \in k..Len(sorted) : sorted[l] \notin Before(sorted[k], Sorting)
  <2> TAKE k \in 1..Len(sorted)
  <2> TAKE l \in k..Len(sorted)
  <2> SUFFICES ASSUME sorted[l] \in Before(sorted[k], Sorting)
               PROVE  FALSE
    OBVIOUS
  <2>1. sorted[l] \in Placed(k-1)
    BY <1>2 DEF SortInv
  <2>2. PICK m \in 1..(k-1) : sorted[l] = sorted[m]
    BY <2>1 DEF Placed
  <2>3. PICK L \in Nat : L = Len(sorted)
    BY <1>2 DEF SortInv
  <2>4. m \in 1..L /\ l \in 1..L /\ m # l
    BY <2>3
  <2> QED
    BY <1>4, <2>2, <2>3, <2>4
<1>6. Lined(f)
  BY <1>1, <1>2, <1>3, <1>4, <1>5 DEF Lined
<1> QED
  BY <1>1, <1>6

LEMMA RankEnter ==
    ASSUME OrderInv, RankInv, Enter
    PROVE  RankInv'
<1> DEFINE f == [scope |-> job.scope, part |-> job.part, rest |-> sorted]
<1>1. f \in Frame /\ f.scope = job.scope
  BY DEF OrderInv, Frame
<1>2. stack' = <<f>> \o stack /\ pc = "sort" /\ pc' = "emit" /\ scene' = scene
  BY DEF Enter
<1>3. stack \in Seq(Frame) /\ (stack = <<>> <=> job.scope = Global)
  BY <1>2 DEF OrderInv, StackInv, Frame
<1>4. Lined(f)
  BY <1>2, SortedIsLined DEF RankInv, NextCalled
<1>5. stack # <<>> => Called(f.scope, stack[1])
  BY <1>1, <1>2, <1>3 DEF RankInv, NextCalled
<1> HIDE DEF f
<1>6. Ranked(stack')
  BY <1>1, <1>2, <1>3, <1>4, <1>5, RankedPush DEF RankInv
<1> QED
  BY <1>2, <1>6, RankedLater DEF RankInv, NextCalled

\* What a step takes from the innermost scope.
LEMMA EmitTakes ==
    ASSUME OrderInv, RankInv, EmitNode
    PROVE  LET n == Head(Top.rest)
               g == [Top EXCEPT !.rest = Tail(@)] IN
           /\ stack \in Seq(Frame) /\ stack # <<>> /\ Len(stack) \in Nat \ {0}
           /\ Top = stack[1]
           /\ stack' = <<g>> \o Tail(stack) /\ Len(stack') = Len(stack)
           /\ stack'[1] = g /\ \A i \in 2..Len(stack) : stack'[i] = stack[i]
           /\ Ranked(stack')
           /\ n \in Members(stack[1].scope, stack[1].part)
           /\ Called(n, stack'[1])
           /\ g.scope = stack[1].scope /\ g.part = stack[1].part
           /\ Elements(stack[1].rest) = {n} \cup Elements(g.rest)
<1> DEFINE n == Head(Top.rest)
           g == [Top EXCEPT !.rest = Tail(@)]
<1>1. stack \in Seq(Frame) /\ stack # <<>> /\ Top.rest # <<>> /\ stack' = <<g>> \o Tail(stack)
  BY DEF EmitNode, OrderInv, StackInv, Frame
<1>2. /\ Tail(stack) \in Seq(Frame) /\ Len(Tail(stack)) = Len(stack) - 1
      /\ Len(stack) \in Nat \ {0} /\ Top \in Frame /\ Top = stack[1]
      /\ \A i \in 1..(Len(stack)-1) : Tail(stack)[i] = stack[i+1]
  BY <1>1, Popped DEF Top
<1>3. /\ Ranked(stack') /\ n \in Members(stack[1].scope, stack[1].part)
      /\ Called(n, stack'[1]) /\ stack'[1] = g
      /\ g.scope = stack[1].scope /\ g.part = stack[1].part
      /\ Elements(stack[1].rest) = {n} \cup Elements(g.rest)
  BY <1>1, RankedNext DEF RankInv, Top
<1>4. g \in Frame
  <2>1. Top.rest \in Seq(Node)
    BY <1>2 DEF Frame
  <2>2. Tail(Top.rest) \in Seq(Node)
    BY <1>1, <2>1, Popped
  <2> QED
    BY <1>2, <2>2 DEF Frame
<1> HIDE DEF g, n
<1>5. Len(stack') = Len(stack) /\ \A i \in 1..Len(Tail(stack)) : stack'[i+1] = Tail(stack)[i]
  BY <1>1, <1>2, <1>4, Pushed
<1>6. \A i \in 2..Len(stack) : stack'[i] = stack[i]
  <2> TAKE i \in 2..Len(stack)
  <2>1. i - 1 \in 1..Len(Tail(stack)) /\ i - 1 \in 1..(Len(stack)-1) /\ (i - 1) + 1 = i
    BY <1>2
  <2> QED
    BY <1>2, <1>5, <2>1
<1> QED
  BY <1>1, <1>2, <1>3, <1>5, <1>6 DEF g, n

LEMMA RankEmit ==
    ASSUME OrderInv, RankInv, EmitNode
    PROVE  RankInv'
<1> DEFINE n == Head(Top.rest)
<1>1. /\ Ranked(stack') /\ Called(n, stack'[1])
      /\ n \in Members(stack[1].scope, stack[1].part)
  BY EmitTakes
<1>2. scene' = scene /\ pc = "emit"
  BY DEF EmitNode
<1>3. Ranked(stack)'
  BY <1>1, <1>2, RankedLater
<1>4. NextCalled'
  <2>1. CASE n \notin Emitted /\ scene.kind[n] \in Containers
    <3>1. BeginSort(n, 1)
      BY <2>1 DEF EmitNode
    <3>2. job' = [scope |-> n, part |-> 1]
      BY <3>1 DEF BeginSort
    <3>3. job'.scope = n /\ job'.part = 1
      BY <3>2
    <3> HIDE DEF n
    <3>4. Called(job.scope, stack[1])'
      BY <1>1, <1>2, <3>3 DEF Called, Elements, Members, PartOf, Halved, Before, Climb,
         Above, NeedsInit
    <3>5. (job.part \in Parts(job.scope))'
      BY <3>3 DEF Parts
    <3>6. scene'.kind[job'.scope] \in Containers
      BY <1>2, <2>1, <3>3
    <3> QED
      BY <3>4, <3>5, <3>6 DEF NextCalled
  <2>2. CASE ~ (n \notin Emitted /\ scene.kind[n] \in Containers)
    <3>1. pc' = pc
      BY <2>2 DEF EmitNode
    <3> QED
      BY <1>2, <3>1 DEF NextCalled
  <2> QED
    BY <2>1, <2>2
<1> QED
  BY <1>3, <1>4 DEF RankInv

\* The stack below its top.
LEMMA TailIs ==
    ASSUME OrderInv, pc = "emit"
    PROVE  /\ stack \in Seq(Frame) /\ stack # <<>> /\ Len(stack) \in Nat \ {0}
           /\ Top = stack[1] /\ Top \in Frame
           /\ Len(Tail(stack)) = Len(stack) - 1
           /\ \A i \in 1..(Len(stack)-1) : Tail(stack)[i] = stack[i+1]
           /\ Top.scope # Global => Len(stack) - 1 >= 1
           /\ Top.scope = Global => Len(stack) = 1
<1>1. stack \in Seq(Frame) /\ stack # <<>> /\ StackInv
  BY DEF OrderInv, StackInv, Frame
<1>2. /\ Len(Tail(stack)) = Len(stack) - 1
      /\ Len(stack) \in Nat \ {0} /\ Top \in Frame /\ Top = stack[1]
      /\ \A i \in 1..(Len(stack)-1) : Tail(stack)[i] = stack[i+1]
  BY <1>1, Popped DEF Top
<1>3. 1 \in 1..Len(stack)
  BY <1>2
<1>4. stack[1].scope = Global <=> 1 = Len(stack)
  BY <1>1, <1>3 DEF StackInv
<1> QED
  BY <1>1, <1>2, <1>4

LEMMA RankNextPart ==
    ASSUME OrderInv, RankInv, NextPart
    PROVE  RankInv'
<1> DEFINE c == Top.scope
           p == Top.part + 1
<1>1. /\ pc = "emit" /\ stack' = Tail(stack) /\ scene' = scene
      /\ p \in Parts(c) /\ BeginSort(c, p)
  BY DEF NextPart
<1>2. /\ stack \in Seq(Frame) /\ stack # <<>> /\ Len(stack) \in Nat \ {0}
      /\ Top = stack[1] /\ Top \in Frame
      /\ Len(Tail(stack)) = Len(stack) - 1
      /\ \A i \in 1..(Len(stack)-1) : Tail(stack)[i] = stack[i+1]
      /\ c # Global => Len(stack) - 1 >= 1
  BY <1>1, TailIs
<1>3. Halved(c)
  BY <1>1, <1>2 DEF Parts, Frame
<1>4. c # Global /\ scene.kind[c] \in Containers
  BY <1>3 DEF Halved, Containers
<1>5. job' = [scope |-> c, part |-> p]
  BY <1>1 DEF BeginSort
<1>6. job'.scope = c /\ job'.part = p
  BY <1>5
<1>7. Ranked(stack')
  BY <1>1, <1>2, RankedTail DEF RankInv
<1>8. Called(stack[1].scope, stack[1+1]) /\ stack'[1] = stack[1+1]
  <2>1. 1 \in 1..(Len(stack)-1)
    BY <1>2, <1>4
  <2> QED
    BY <1>1, <1>2, <2>1 DEF RankInv, Ranked
<1>9. Called(c, stack'[1])
  BY <1>2, <1>8
<1> HIDE DEF c, p
<1>10. Called(job.scope, stack[1])'
  <2>1. scene' = scene
    BY <1>1
  <2>2. job'.scope = c
    BY <1>6
  <2> QED
    BY <1>9, <2>1, <2>2 DEF Called, Elements, Members, PartOf, Halved, Before, Climb,
       Above, NeedsInit
<1>11. (job.part \in Parts(job.scope))'
  BY <1>1, <1>6 DEF Parts, Halved
<1>12. scene'.kind[job'.scope] \in Containers
  BY <1>1, <1>4, <1>6
<1>13. Ranked(stack)'
  BY <1>1, <1>7, RankedLater
<1> QED
  BY <1>10, <1>11, <1>12, <1>13 DEF RankInv, NextCalled

LEMMA RankClose ==
    ASSUME OrderInv, RankInv, CloseScope \/ Finish
    PROVE  RankInv'
<1>1. pc = "emit" /\ stack' = Tail(stack) /\ scene' = scene /\ pc' # "sort"
  BY DEF CloseScope, Finish
<1>2. stack \in Seq(Frame) /\ stack # <<>>
  BY <1>1, TailIs
<1>3. Ranked(stack')
  BY <1>1, <1>2, RankedTail DEF RankInv
<1> QED
  BY <1>1, <1>3, RankedLater DEF RankInv, NextCalled

LEMMA RankInvariant == Spec => []RankInv
<1>1. Init => RankInv
  BY RankInit
<1>2. OrderInv /\ RankInv /\ [Next]_vars => RankInv'
  <2> SUFFICES ASSUME OrderInv, RankInv, [Next]_vars
               PROVE  RankInv'
    OBVIOUS
  <2>1. CASE Enter
    BY <2>1, RankEnter
  <2>2. CASE EmitNode
    BY <2>2, RankEmit
  <2>3. CASE NextPart
    BY <2>3, RankNextPart
  <2>4. CASE CloseScope \/ Finish
    BY <2>4, RankClose
  <2>5. CASE Start \/ Pop \/ RefuseScene \/ DropLoop \/ Returned \/ UNCHANGED vars
    BY <2>5, RankRest
  <2> QED
    BY <2>1, <2>2, <2>3, <2>4, <2>5 DEF Next
<1> QED
  BY <1>1, <1>2, OrderInvariant, PTL DEF Spec

-----------------------------------------------------------------------------
(* What is left is in an open scope.                                        *)

LEMMA SceneStays == [Next]_vars => scene' = scene
  BY DEF Next, Start, Pop, Enter, RefuseScene, DropLoop, EmitNode, NextPart, CloseScope,
     Finish, Returned, vars

\* A scope on the stack that is in a device's home is the one below.
LEMMA Below ==
    ASSUME OrderInv, NestInv, NEW j \in 1..Len(stack), stack[j].scope # Global
    PROVE  /\ j + 1 \in 1..Len(stack) /\ Len(stack) \in Nat
           /\ scene.home[stack[j].scope] = stack[j+1].scope
           /\ \A i \in 1..Len(stack) : scene.home[stack[j].scope] = stack[i].scope => i = j + 1
<1>1. PICK L \in Nat : L = Len(stack)
  BY DEF OrderInv, StackInv
<1>2. j # L
  BY <1>1 DEF OrderInv, StackInv
<1>3. j \in 1..(L-1) /\ j + 1 \in 1..L
  BY <1>1, <1>2
<1>4. scene.home[stack[j].scope] = stack[j+1].scope
  BY <1>1, <1>3 DEF NestInv, Stacked
<1>5. \A i \in 1..L : stack[j+1].scope = stack[i].scope => j + 1 = i
  BY <1>1, <1>3 DEF NestInv, Stacked
<1> QED
  BY <1>1, <1>3, <1>4, <1>5

\* The scope of the sort is in the innermost scope and not on the stack.
LEMMA SortBelow ==
    ASSUME OrderInv, NestInv, pc = "sort", job.scope # Global
    PROVE  /\ 1 \in 1..Len(stack)
           /\ scene.home[job.scope] = stack[1].scope
           /\ \A i \in 1..Len(stack) : stack[i].scope # job.scope
           /\ \A i \in 1..Len(stack) : scene.home[job.scope] = stack[i].scope => i = 1
<1>1. stack # <<>> /\ stack \in Seq(Frame)
  BY DEF OrderInv, StackInv, Frame
<1>2. 1 \in 1..Len(stack)
  BY <1>1
<1>3. scene.home[job.scope] = stack[1].scope
  BY DEF NestInv, Pending
<1>4. \A i \in 1..Len(stack) : stack[i].scope # job.scope
  BY DEF NestInv, Pending
<1>5. \A i \in 1..Len(stack) : stack[1].scope = stack[i].scope => 1 = i
  BY <1>2 DEF NestInv, Stacked
<1> QED
  BY <1>2, <1>3, <1>4, <1>5

LEMMA ScopesHold == OrderInv /\ NestInv /\ RankInv => ScopesInv
<1> SUFFICES ASSUME OrderInv, NestInv, RankInv
             PROVE  ScopesInv
  OBVIOUS
<1>1. ASSUME NEW c \in Open, c # Global
      PROVE  scene.home[c] \in Open
  <2>1. CASE \E j \in 1..Len(stack) : c = stack[j].scope
    <3>1. PICK j \in 1..Len(stack) : c = stack[j].scope
      BY <2>1
    <3>2. j + 1 \in 1..Len(stack) /\ scene.home[stack[j].scope] = stack[j+1].scope
      BY <1>1, <3>1, Below
    <3> QED
      BY <3>1, <3>2 DEF Open
  <2>2. CASE pc = "sort" /\ c = job.scope
    <3>1. 1 \in 1..Len(stack) /\ scene.home[job.scope] = stack[1].scope
      BY <1>1, <2>2, SortBelow
    <3> QED
      BY <2>2, <3>1 DEF Open
  <2> QED
    BY <1>1, <2>1, <2>2 DEF Open
<1>2. ASSUME pc # "start", NEW y \in Node, Waits(y)
      PROVE  y \notin Open /\ scene.home[y] \in Open
  <2>0. y # Global
    BY GlobalAssumption
  <2>1. scene.home[y] \in Open
    BY <1>2 DEF Waits, Open
  <2>2. ASSUME NEW j \in 1..Len(stack), y = stack[j].scope
        PROVE  FALSE
    <3>1. /\ j + 1 \in 1..Len(stack) /\ Len(stack) \in Nat
          /\ scene.home[y] = stack[j+1].scope
          /\ \A i \in 1..Len(stack) : scene.home[y] = stack[i].scope => i = j + 1
      BY <2>0, <2>2, Below
    <3>2. CASE pc = "sort" /\ scene.home[y] = job.scope
      <4>1. CASE job.scope = Global
        <5>1. stack = <<>>
          BY <3>2, <4>1 DEF OrderInv, StackInv
        <5> QED
          BY <5>1
      <4>2. CASE job.scope # Global
        BY <3>1, <3>2, <4>2, SortBelow
      <4> QED
        BY <4>1, <4>2
    <3>3. CASE \E i \in 1..Len(stack) :
                  /\ scene.home[y] = stack[i].scope
                  /\ PartOf(y) > stack[i].part \/ y \in Elements(stack[i].rest)
      <4>1. PartOf(y) > stack[j+1].part \/ y \in Elements(stack[j+1].rest)
        BY <3>1, <3>3
      <4>2. Called(y, stack[j+1])
        <5>1. j \in 1..(Len(stack)-1)
          BY <3>1
        <5> QED
          BY <2>2, <5>1 DEF RankInv, Ranked
      <4>3. PartOf(y) = stack[j+1].part /\ PartOf(y) \in {1, 2}
        BY <4>2 DEF Called, PartOf
      <4> QED
        BY <4>1, <4>2, <4>3 DEF Called
    <3> QED
      BY <1>2, <3>2, <3>3 DEF Waits
  <2>3. ASSUME pc = "sort", y = job.scope
        PROVE  FALSE
    <3>1. /\ 1 \in 1..Len(stack)
          /\ scene.home[y] = stack[1].scope
          /\ \A i \in 1..Len(stack) : stack[i].scope # y
          /\ \A i \in 1..Len(stack) : scene.home[y] = stack[i].scope => i = 1
      BY <2>0, <2>3, SortBelow
    <3>2. scene.home[y] # job.scope
      BY <2>3, <3>1
    <3>3. PartOf(y) > stack[1].part \/ y \in Elements(stack[1].rest)
      BY <1>2, <2>3, <3>1, <3>2 DEF Waits
    <3>4. Called(y, stack[1])
      BY <2>0, <2>3 DEF RankInv, NextCalled
    <3>5. PartOf(y) = stack[1].part /\ PartOf(y) \in {1, 2}
      BY <3>4 DEF Called, PartOf
    <3> QED
      BY <3>3, <3>4, <3>5 DEF Called
  <2> QED
    BY <2>1, <2>2, <2>3 DEF Open
<1> QED
  BY <1>1, <1>2 DEF ScopesInv

\* Once it is the turn of a device, what it waits for is over, and so is all inside.
TurnsPast ==
    \A k \in 1..Len(stack) : \A n \in Node :
        scene.home[n] = stack[k].scope /\ Called(n, stack[k]) =>
            \A x \in {n} \cup Precedes(n) :
                (k = 1 \/ x # stack[k-1].scope) =>
                    /\ \A a \in Under(x) : ~ Coming(a)
                    /\ x # n => n \notin Under(x)

LEMMA TurnPast == OrderInv /\ NestInv /\ RankInv /\ pc = "emit" => TurnsPast
<1> SUFFICES ASSUME OrderInv, NestInv, RankInv, pc = "emit",
                    NEW k \in 1..Len(stack), NEW n \in Node,
                    scene.home[n] = stack[k].scope, Called(n, stack[k]),
                    NEW x \in {n} \cup Precedes(n),
                    k = 1 \/ x # stack[k-1].scope
             PROVE  /\ \A a \in Under(x) : ~ Coming(a)
                    /\ x # n => n \notin Under(x)
  BY DEF TurnsPast
<1>0. ScopesInv /\ scene \in Scene /\ pc # "start"
  BY ScopesHold DEF OrderInv
<1>1. /\ x \in Node /\ scene.home[x] = stack[k].scope /\ PartOf(x) = stack[k].part
      /\ x \notin Elements(stack[k].rest) /\ PartOf(x) \in {1, 2}
  <2>1. Precedes(n) = Before(n, Members(stack[k].scope, stack[k].part))
    BY DEF Called, Precedes
  <2>2. Precedes(n) \subseteq Members(stack[k].scope, stack[k].part)
    BY <2>1, SetsFinite
  <2>3. x = n \/ (x \in Members(stack[k].scope, stack[k].part) /\ x \notin Elements(stack[k].rest))
    BY <2>1, <2>2 DEF Called
  <2>4. PartOf(x) \in {1, 2}
    BY DEF PartOf
  <2> QED
    BY <2>3, <2>4 DEF Called, Members
<1>2. scene.home[x] \in Open
  BY <1>1 DEF Open
<1>3. ~ Waits(x)
  <2>1. \A i \in 1..Len(stack) : stack[k].scope = stack[i].scope => k = i
    BY DEF NestInv, Stacked
  <2> QED
    BY <1>1, <2>1 DEF Waits
<1>4. x \notin Open
  <2> SUFFICES ASSUME NEW j \in 1..Len(stack), x = stack[j].scope
               PROVE  FALSE
    BY DEF Open
  <2>1. x # Global
    BY <1>1, GlobalAssumption
  <2>2. k = j + 1
    BY <1>1, <2>1, Below
  <2> QED
    BY <2>2
<1>5. \A a \in Under(x) : ~ Coming(a)
  BY <1>0, <1>1, <1>2, <1>3, <1>4, PastIsPast
<1>6. x # n => n \notin Under(x)
  <2>1. Above[n] \subseteq Open
    BY <1>0, <1>1, <1>2, OpenAbove
  <2> QED
    BY <1>4, <2>1 DEF Under
<1> QED
  BY <1>5, <1>6

-----------------------------------------------------------------------------
(* What a step leaves to come, and what it writes.                          *)

\* What is left after a step was left before, or its container was.
LEMMA WaitsBack ==
    ASSUME OrderInv, NestInv, RankInv, [Next]_vars, NEW y \in Node
    PROVE  /\ Waits(y)' => Waits(y) \/ (scene.home[y] \in Node /\ Waits(scene.home[y]))
           /\ Beginning(y)' => Beginning(y) \/ Waits(y)
<1> DEFINE Back == /\ Waits(y)' => Waits(y) \/ (scene.home[y] \in Node /\ Waits(scene.home[y]))
                   /\ Beginning(y)' => Beginning(y) \/ Waits(y)
<1>0. scene' = scene /\ PartOf(y)' = PartOf(y) /\ PartOf(y) \in {1, 2}
  BY SceneStays DEF PartOf, Halved
<1>1. CASE Start
  <2>1. Waits(y)
    BY <1>1 DEF Start, Waits
  <2> QED
    BY <2>1
<1>2. CASE Pop \/ Returned \/ UNCHANGED vars
  <2>1. pc' = pc /\ job' = job /\ stack' = stack
    BY <1>2 DEF Pop, Returned, vars
  <2> QED
    BY <1>0, <2>1 DEF Waits, Beginning
<1>3. CASE RefuseScene \/ DropLoop
  <2>1. pc' \in {"emit", "done"} /\ stack' = stack
    BY <1>3 DEF RefuseScene, DropLoop
  <2> QED
    BY <1>0, <2>1 DEF Waits, Beginning
<1>4. CASE Enter
  <2> DEFINE f == [scope |-> job.scope, part |-> job.part, rest |-> sorted]
  <2>1. f \in Frame /\ f.scope = job.scope /\ f.part = job.part /\ f.rest = sorted
    BY DEF OrderInv, Frame
  <2>2. stack' = <<f>> \o stack /\ pc = "sort" /\ pc' = "emit" /\ stack \in Seq(Frame)
    BY <1>4 DEF Enter, OrderInv, StackInv, Frame
  <2> HIDE DEF f
  <2>3. /\ Len(stack') = Len(stack) + 1 /\ stack'[1] = f /\ Len(stack) \in Nat
        /\ \A i \in 1..Len(stack) : stack'[i+1] = stack[i]
    BY <2>1, <2>2, Pushed
  <2>4. ASSUME NEW i \in 1..Len(stack'), scene.home[y] = stack'[i].scope,
               PartOf(y) > stack'[i].part \/ y \in Elements(stack'[i].rest)
        PROVE  Waits(y)
    <3>1. CASE i = 1
      <4>1. scene.home[y] = job.scope
        BY <2>1, <2>3, <2>4, <3>1
      <4>2. PartOf(y) > job.part \/ y \in Elements(sorted)
        BY <2>1, <2>3, <2>4, <3>1
      <4>3. y \in Elements(sorted) => PartOf(y) = job.part
        <5>1. sorted \in Seq(Sorting)
          BY <2>2 DEF OrderInv, SortInv
        <5>2. \A k \in 1..Len(sorted) : sorted[k] \in Members(job.scope, job.part)
          BY <5>1 DEF Sorting
        <5> QED
          BY <5>2 DEF Elements, Members
      <4>4. job.part \in {1, 2}
        BY DEF OrderInv
      <4>5. PartOf(y) >= job.part
        BY <1>0, <4>2, <4>3, <4>4
      <4> QED
        BY <2>2, <4>1, <4>5 DEF Waits
    <3>2. CASE i # 1
      <4>1. i - 1 \in 1..Len(stack) /\ (i - 1) + 1 = i
        BY <2>3, <3>2
      <4>2. stack'[i] = stack[i-1]
        BY <2>3, <4>1
      <4> QED
        BY <2>4, <4>1, <4>2 DEF Waits
    <3> QED
      BY <3>1, <3>2
  <2> QED
    BY <1>0, <2>2, <2>4 DEF Waits, Beginning
<1>5. CASE EmitNode
  <2> DEFINE n == Head(Top.rest)
             g == [Top EXCEPT !.rest = Tail(@)]
  <2>1. /\ Len(stack) \in Nat \ {0} /\ Len(stack') = Len(stack)
        /\ stack'[1] = g /\ \A i \in 2..Len(stack) : stack'[i] = stack[i]
        /\ n \in Members(stack[1].scope, stack[1].part)
        /\ g.scope = stack[1].scope /\ g.part = stack[1].part
        /\ Elements(stack[1].rest) = {n} \cup Elements(g.rest)
    BY <1>5, EmitTakes
  <2>2. pc = "emit" /\ (pc' = "emit" \/ (pc' = "sort" /\ job' = [scope |-> n, part |-> 1]))
    BY <1>5 DEF EmitNode, BeginSort
  <2> HIDE DEF n, g
  <2>3. n \in Node /\ Waits(n)
    <3>1. 1 \in 1..Len(stack) /\ n \in Elements(stack[1].rest) /\ scene.home[n] = stack[1].scope
      BY <2>1 DEF Members
    <3> QED
      BY <2>1, <3>1 DEF Waits, Members
  <2>4. ASSUME NEW i \in 1..Len(stack'), scene.home[y] = stack'[i].scope,
               PartOf(y) > stack'[i].part \/ y \in Elements(stack'[i].rest)
        PROVE  Waits(y)
    <3>1. i \in 1..Len(stack) /\ stack'[i].scope = stack[i].scope /\ stack'[i].part = stack[i].part
      BY <2>1
    <3>2. Elements(stack'[i].rest) \subseteq Elements(stack[i].rest)
      BY <2>1
    <3> QED
      BY <2>4, <3>1, <3>2 DEF Waits
  <2>5. ASSUME pc' = "sort"
        PROVE  /\ scene.home[y] = job'.scope => scene.home[y] \in Node /\ Waits(scene.home[y])
               /\ Beginning(y)' => Waits(y)
    <3>1. job'.scope = n
      BY <2>2, <2>5
    <3> QED
      BY <2>3, <3>1 DEF Beginning
  <2>6. Waits(y)' => Waits(y) \/ (scene.home[y] \in Node /\ Waits(scene.home[y]))
    BY <1>0, <2>2, <2>4, <2>5 DEF Waits
  <2>7. Beginning(y)' => Beginning(y) \/ Waits(y)
    BY <2>5 DEF Beginning
  <2> QED
    BY <2>6, <2>7
<1>6. CASE NextPart \/ CloseScope \/ Finish
  <2>1. pc = "emit" /\ stack' = Tail(stack) /\ pc' # "start"
    BY <1>6 DEF NextPart, CloseScope, Finish, BeginSort
  <2>2. /\ stack \in Seq(Frame) /\ stack # <<>> /\ Len(stack) \in Nat \ {0}
        /\ Top = stack[1] /\ Top \in Frame
        /\ Len(Tail(stack)) = Len(stack) - 1
        /\ \A i \in 1..(Len(stack)-1) : Tail(stack)[i] = stack[i+1]
    BY <2>1, TailIs
  <2>3. ASSUME NEW i \in 1..Len(stack'), scene.home[y] = stack'[i].scope,
               PartOf(y) > stack'[i].part \/ y \in Elements(stack'[i].rest)
        PROVE  Waits(y)
    <3>1. i + 1 \in 1..Len(stack) /\ stack'[i] = stack[i+1]
      BY <2>1, <2>2
    <3> QED
      BY <2>3, <3>1 DEF Waits
  <2>4. ASSUME pc' = "sort"
        PROVE  /\ scene.home[y] = job'.scope /\ PartOf(y) >= job'.part => Waits(y)
               /\ job'.part # 1
    <3>1. /\ Top.part + 1 \in Parts(Top.scope)
          /\ job' = [scope |-> Top.scope, part |-> Top.part + 1]
      BY <1>6, <2>1, <2>4 DEF NextPart, CloseScope, Finish, BeginSort
    <3>2. job'.scope = stack[1].scope /\ job'.part = stack[1].part + 1 /\ stack[1].part \in {1, 2}
      BY <2>2, <3>1 DEF Frame
    <3>3. 1 \in 1..Len(stack)
      BY <2>2
    <3> QED
      BY <1>0, <3>2, <3>3 DEF Waits
  <2> QED
    BY <1>0, <2>1, <2>3, <2>4 DEF Waits, Beginning
<1> QED
  BY <1>1, <1>2, <1>3, <1>4, <1>5, <1>6 DEF Next

\* Nothing is to come that was not.
LEMMA ComingBack ==
    ASSUME OrderInv, NestInv, RankInv, [Next]_vars, NEW a \in Node, Coming(a)'
    PROVE  Coming(a)
<1>1. scene' = scene /\ Above' = Above /\ scene \in Scene
  BY SceneStays DEF Above, OrderInv
<1>2. CASE Beginning(a)'
  BY <1>2, WaitsBack DEF Coming
<1>3. CASE ~ Beginning(a)'
  <2>1. PICK y \in {a} \cup Above[a] : Waits(y)'
    BY <1>1, <1>3 DEF Coming
  <2>2. y \in Node
    BY <1>1, <2>1, AboveAbove
  <2>3. CASE Waits(y)
    BY <2>1, <2>3 DEF Coming
  <2>4. CASE scene.home[y] \in Node /\ Waits(scene.home[y])
    <3>1. scene.home[y] \in Above[y]
      BY <1>1, <2>2, <2>4, GlobalAssumption, AboveClosed
    <3>2. scene.home[y] \in Above[a]
      BY <1>1, <2>1, <3>1, AboveAbove
    <3> QED
      BY <2>4, <3>2 DEF Coming
  <2> QED
    BY <2>1, <2>2, <2>3, <2>4, WaitsBack
<1> QED
  BY <1>2, <1>3

\* What a program and one instruction more hold.
NodesOf(o) == {o[i].node : i \in 1..Len(o)}
BegunIn(o, n) == {i \in 1..Len(o) : o[i].node = n /\ o[i].op \in {"begin", "do"}}

Continues(q, o, op, n) ==
    /\ o \in Seq(Instruction) /\ n \in Node /\ op \in {"begin", "do", "break", "end"}
    /\ q = o \o Instr(op, n)

LEMMA Appended ==
    ASSUME NEW q, NEW o, NEW op, NEW n, Continues(q, o, op, n)
    PROVE  /\ q \in Seq(Instruction) /\ Len(q) = Len(o) + 1 /\ Len(o) \in Nat
           /\ q[Len(o) + 1].op = op /\ q[Len(o) + 1].node = n
           /\ \A i \in 1..Len(o) : q[i] = o[i]
           /\ NodesOf(q) = NodesOf(o) \cup {n}
           /\ \A m : m # n => BegunIn(q, m) = BegunIn(o, m)
           /\ BegunIn(q, n) = BegunIn(o, n) \cup
                                 (IF op \in {"begin", "do"} THEN {Len(o) + 1} ELSE {})
<1> DEFINE x == [op |-> op, node |-> n]
<1>0. q = o \o <<x>> /\ o \in Seq(Instruction)
  BY DEF Instr, Continues
<1>1. x \in Instruction /\ x.op = op /\ x.node = n
  BY DEF Instruction, Continues
<1> HIDE DEF x, Instruction
<1>2. /\ q \in Seq(Instruction) /\ Len(q) = Len(o) + 1 /\ Len(o) \in Nat
      /\ q[Len(o) + 1] = x /\ \A i \in 1..Len(o) : q[i] = o[i]
  BY <1>0, <1>1
<1>3. NodesOf(q) = NodesOf(o) \cup {n}
  <2>1. NodesOf(q) \subseteq NodesOf(o) \cup {n}
    BY <1>1, <1>2 DEF NodesOf
  <2>2. NodesOf(o) \subseteq NodesOf(q)
    <3>1. \A i \in 1..Len(o) : i \in 1..Len(q)
      BY <1>2
    <3> QED
      BY <1>2, <3>1 DEF NodesOf
  <2>3. n \in NodesOf(q)
    <3>1. Len(o) + 1 \in 1..Len(q)
      BY <1>2
    <3> QED
      BY <1>1, <1>2, <3>1 DEF NodesOf
  <2> QED
    BY <2>1, <2>2, <2>3
<1>4. \A m : m # n => BegunIn(q, m) = BegunIn(o, m)
  BY <1>1, <1>2 DEF BegunIn
<1>5. BegunIn(q, n) = BegunIn(o, n) \cup (IF op \in {"begin", "do"} THEN {Len(o) + 1} ELSE {})
  BY <1>1, <1>2 DEF BegunIn
<1> QED
  BY <1>1, <1>2, <1>3, <1>4, <1>5

\* A step writes of a device that is there already, or begins one.
Quietly == Emitted' = Emitted /\ \A m \in Node : Begun(m)' = Begun(m)

Begins(n) ==
    /\ Emitted' = Emitted \cup {n}
    /\ Begun(n)' = Begun(n) \cup {Len(out) + 1}
    /\ \A m \in Node \ {n} : Begun(m)' = Begun(m)

LEMMA EmittedIs == /\ Emitted = NodesOf(out) /\ Emitted' = NodesOf(out')
                   /\ \A m : Begun(m) = BegunIn(out, m) /\ Begun(m)' = BegunIn(out', m)
  BY DEF Emitted, NodesOf, Begun, BegunIn

LEMMA BegunBound ==
    ASSUME OrderInv, NEW n
    PROVE  Len(out) \in Nat /\ Begun(n) \subseteq 1..Len(out)
  BY DEF OrderInv, Begun

LEMMA OneBegins ==
    ASSUME OrderInv, NEW n \in Node, NEW op \in {"begin", "do"}, out' = out \o Instr(op, n)
    PROVE  Begins(n)
<1>1. out \in Seq(Instruction)
  BY DEF OrderInv, Instruction
<1>2. /\ NodesOf(out') = NodesOf(out) \cup {n}
      /\ \A m : m # n => BegunIn(out', m) = BegunIn(out, m)
      /\ BegunIn(out', n) = BegunIn(out, n) \cup
                               (IF op \in {"begin", "do"} THEN {Len(out) + 1} ELSE {})
  <2>1. Continues(out', out, op, n)
    BY <1>1 DEF Continues
  <2> QED
    BY <2>1, Appended
<1> QED
  BY <1>2, EmittedIs DEF Begins

\* The three invariants hold after a step, too.
LEMMA AllAfter ==
    ASSUME OrderInv, NestInv, RankInv, [Next]_vars
    PROVE  OrderInv' /\ NestInv' /\ RankInv'
<1>1. CASE Start
  BY <1>1, StartKeeps, NestRest, RankRest
<1>2. CASE Pop
  BY <1>2, PopStep, NestRest, RankRest
<1>3. CASE Enter
  BY <1>3, EnterKeeps, NestEnter, RankEnter
<1>4. CASE RefuseScene
  BY <1>4, RefuseKeeps, NestRest, RankRest
<1>5. CASE DropLoop
  BY <1>5, DropKeeps, NestRest, RankRest
<1>6. CASE EmitNode
  BY <1>6, EmitKeeps, NestEmit, RankEmit
<1>7. CASE NextPart
  BY <1>7, NextPartKeeps, NestNextPart, RankNextPart
<1>8. CASE CloseScope
  BY <1>8, CloseKeeps, NestClose, RankClose
<1>9. CASE Finish
  BY <1>9, FinishKeeps, NestFinish, RankClose
<1>10. CASE Returned \/ UNCHANGED vars
  BY <1>10, StutterKeeps, NestRest, RankRest DEF Returned
<1> QED
  BY <1>1, <1>2, <1>3, <1>4, <1>5, <1>6, <1>7, <1>8, <1>9, <1>10 DEF Next

\* A program holds the begin of the scopes it ends.
LEMMA OpenIsEmitted ==
    ASSUME NEW c, OpenIn(out, c)
    PROVE  c \in Emitted
<1>1. PICK i \in 1..Len(out) : out[i] = [op |-> "begin", node |-> c]
  BY DEF OpenIn, Written
<1>2. out[i].node = c
  BY <1>1
<1> QED
  BY <1>2 DEF Emitted

\* The end of a scope, and the break of a loop, are of a device that has begun.
LEMMA CloseWrites ==
    ASSUME OrderInv, NestInv, CloseScope
    PROVE  Quietly
<1>0. out \in Seq(Instruction)
  BY DEF OrderInv, Instruction
<1> DEFINE c == Top.scope
           b == IF scene.kind[c] = "loop" /\ Fed(c) THEN Instr("break", c) ELSE <<>>
           o == out \o b
<1>1. /\ out' = o \o Instr("end", c) /\ pc = "emit" /\ c # Global
  BY DEF CloseScope
<1>2. Top = stack[1] /\ Top \in Frame /\ Len(stack) \in Nat \ {0}
  BY <1>1, TailIs
<1>3. c \in Node /\ c = stack[1].scope
  BY <1>1, <1>2 DEF Frame
<1>4. c \in Emitted
  <2>1. 1 \in 1..Len(stack)
    BY <1>2
  <2>2. OpenIn(out, c)
    BY <1>1, <1>3, <2>1 DEF NestInv, Stacked
  <2> QED
    BY <2>2, OpenIsEmitted
<1>5. b = Instr("break", c) \/ b = <<>>
  OBVIOUS
<1> HIDE DEF c, b
<1>6. /\ o \in Seq(Instruction) /\ NodesOf(o) \subseteq NodesOf(out) \cup {c}
      /\ NodesOf(out) \subseteq NodesOf(o) /\ \A m : BegunIn(o, m) = BegunIn(out, m)
  <2>1. CASE b = <<>>
    <3>1. o = out
      BY <1>0, <2>1
    <3> QED
      BY <1>0, <3>1
  <2>2. CASE b = Instr("break", c)
    <3>1. o = out \o Instr("break", c)
      BY <2>2
    <3> HIDE DEF o
    <3>2. /\ o \in Seq(Instruction) /\ NodesOf(o) = NodesOf(out) \cup {c}
          /\ \A m : m # c => BegunIn(o, m) = BegunIn(out, m)
          /\ BegunIn(o, c) = BegunIn(out, c)
      <4>1. Continues(o, out, "break", c)
        BY <1>0, <1>3, <3>1 DEF Continues
      <4>2. /\ o \in Seq(Instruction) /\ NodesOf(o) = NodesOf(out) \cup {c}
            /\ \A m : m # c => BegunIn(o, m) = BegunIn(out, m)
            /\ BegunIn(o, c) = BegunIn(out, c) \cup
                  (IF "break" \in {"begin", "do"} THEN {Len(out) + 1} ELSE {})
        BY <4>1, Appended
      <4> QED
        BY <4>2
    <3> QED
      BY <3>2
  <2> QED
    BY <1>5, <2>1, <2>2
<1> HIDE DEF o
<1>7. /\ NodesOf(out') = NodesOf(o) \cup {c}
      /\ \A m : m # c => BegunIn(out', m) = BegunIn(o, m)
      /\ BegunIn(out', c) = BegunIn(o, c)
  <2>1. Continues(out', o, "end", c)
    BY <1>1, <1>3, <1>6 DEF Continues
  <2>2. /\ NodesOf(out') = NodesOf(o) \cup {c}
        /\ \A m : m # c => BegunIn(out', m) = BegunIn(o, m)
        /\ BegunIn(out', c) = BegunIn(o, c) \cup
              (IF "end" \in {"begin", "do"} THEN {Len(o) + 1} ELSE {})
    BY <2>1, Appended
  <2> QED
    BY <2>2
<1>8. NodesOf(out') = NodesOf(out) /\ \A m : BegunIn(out', m) = BegunIn(out, m)
  BY <1>4, <1>6, <1>7, EmittedIs
<1> QED
  BY <1>8, EmittedIs DEF Quietly

\* What a step begins was to come, comes in its turn and not again.
LEMMA Writes ==
    ASSUME OrderInv, NestInv, RankInv, [Next]_vars
    PROVE  \/ Quietly
           \/ \E n \in Node : Begins(n) /\ Coming(n) /\ Timely(n)'
<1>0. /\ OrderInv' /\ NestInv' /\ RankInv' /\ scene' = scene
      /\ out \in Seq(Instruction)
  BY AllAfter, SceneStays DEF OrderInv, Instruction
<1>1. CASE out' = out
  BY <1>1 DEF Quietly, Emitted, Begun
<1>2. CASE Enter /\ job.scope # Global /\ job.part = 1
  <2> DEFINE f == [scope |-> job.scope, part |-> job.part, rest |-> sorted]
  <2>0. PICK n \in Node : n = job.scope
    BY <1>2 DEF OrderInv
  <2>1. /\ n \in Node /\ out' = out \o Instr("begin", n)
        /\ stack' = <<f>> \o stack /\ pc = "sort" /\ pc' = "emit" /\ stack \in Seq(Frame)
    BY <1>2, <2>0 DEF Enter, OrderInv, StackInv, Frame
  <2>2. f \in Frame /\ f.scope = n
    BY <2>0 DEF OrderInv, Frame
  <2>3. /\ 1 \in 1..Len(stack) /\ scene.home[n] = stack[1].scope
    BY <1>2, <2>0, <2>1, SortBelow
  <2>4. Called(n, stack[1])
    BY <1>2, <2>0, <2>1 DEF RankInv, NextCalled
  <2> HIDE DEF f
  <2>5. /\ Len(stack') = Len(stack) + 1 /\ stack'[1] = f /\ Len(stack) \in Nat
        /\ \A i \in 1..Len(stack) : stack'[i+1] = stack[i]
    BY <2>1, <2>2, Pushed
  <2>6. Begins(n) /\ Coming(n)
    BY <1>2, <2>0, <2>1, OneBegins DEF Coming, Beginning
  <2>7. PICK k \in 1..Len(stack') : k = 2 /\ stack'[k] = stack[1] /\ stack'[k-1] = f
    <3>1. 2 \in 1..Len(stack') /\ stack'[1+1] = stack[1] /\ 1 + 1 = 2 /\ 2 - 1 = 1
      BY <2>3, <2>5
    <3> QED
      BY <2>5, <3>1
  <2>8. scene'.home[n] = stack'[k].scope /\ Called(n, stack[k])'
    <3>1. Called(n, stack'[k])
      BY <2>4, <2>7
    <3>2. Called(n, stack[k])'
      BY <1>0, <3>1 DEF Called, Elements, Members, PartOf, Halved, Before, Climb,
         Above, NeedsInit
    <3> QED
      BY <1>0, <2>3, <2>7, <3>2
  <2>9. TurnsPast'
    <3>1. (OrderInv /\ NestInv /\ RankInv /\ pc = "emit" => TurnsPast)'
      BY TurnPast, PTL
    <3> QED
      BY <1>0, <2>1, <3>1
  <2>10. \A x \in Precedes(n)' : x # n => /\ \A a \in Under(x)' : ~ Coming(a)'
                                         /\ n \notin Under(x)'
    BY <1>0, <2>1, <2>2, <2>7, <2>8, <2>9 DEF TurnsPast
  <2>11. n \notin Precedes(n)'
    <3>1. Precedes(n)' = Precedes(n)
      BY <1>0 DEF Precedes, Members, PartOf, Halved, Before, Climb, Above, NeedsInit
    <3>2. Precedes(n) = Before(n, Members(stack[1].scope, stack[1].part))
      BY <2>3, <2>4 DEF Called, Precedes
    <3> QED
      BY <2>4, <3>1, <3>2 DEF Called
  <2>12. ~ Coming(n)'
    <3>1. (scene \in Scene /\ ScopesInv /\ pc # "start" =>
              \A c \in Node : c \in Open /\ ~ Beginning(c) => ~ Coming(c))'
      BY OpenIsBegun, PTL
    <3>2. (OrderInv /\ NestInv /\ RankInv => ScopesInv)'
      BY ScopesHold, PTL
    <3>3. (scene \in Scene)' /\ pc' # "start" /\ ScopesInv'
      BY <1>0, <2>1, <3>2 DEF OrderInv
    <3>4. n \in Open' /\ ~ Beginning(n)'
      <4>1. 1 \in 1..Len(stack') /\ n = stack'[1].scope
        BY <2>2, <2>5
      <4> QED
        BY <2>1, <4>1 DEF Open, Beginning
    <3> QED
      BY <2>1, <3>1, <3>3, <3>4
  <2>13. Timely(n)'
    BY <2>10, <2>11, <2>12 DEF Timely
  <2> QED
    BY <2>1, <2>6, <2>13
<1>3. CASE EmitNode /\ out' # out
  <2>0. PICK n : n = Head(Top.rest)
    OBVIOUS
  <2> DEFINE g == [Top EXCEPT !.rest = Tail(@)]
  <2>1. /\ n \notin Emitted /\ out' = out \o Instr("do", n) /\ pc' = pc /\ pc = "emit"
    BY <1>3, <2>0 DEF EmitNode
  <2>2. /\ Len(stack) \in Nat \ {0} /\ Len(stack') = Len(stack)
        /\ stack'[1] = g
        /\ n \in Members(stack[1].scope, stack[1].part)
        /\ Called(n, stack'[1])
        /\ g.scope = stack[1].scope
        /\ Elements(stack[1].rest) = {n} \cup Elements(g.rest)
    BY <1>3, <2>0, EmitTakes
  <2> HIDE DEF g
  <2>3. n \in Node /\ scene.home[n] = stack[1].scope
    BY <2>2 DEF Members
  <2>4. PICK k \in 1..Len(stack') : k = 1
    BY <2>2
  <2>5. Begins(n)
    BY <2>1, <2>3, OneBegins
  <2>6. Coming(n)
    <3>1. 1 \in 1..Len(stack) /\ n \in Elements(stack[1].rest)
      BY <2>2
    <3> QED
      BY <2>3, <3>1 DEF Coming, Waits
  <2>7. scene'.home[n] = stack'[k].scope /\ Called(n, stack[k])'
    <3>1. Called(n, stack'[k])
      BY <2>2, <2>4
    <3>2. Called(n, stack[k])'
      BY <1>0, <3>1 DEF Called, Elements, Members, PartOf, Halved, Before, Climb,
         Above, NeedsInit
    <3> QED
      BY <1>0, <2>2, <2>3, <2>4, <3>2
  <2>8. TurnsPast'
    <3>1. (OrderInv /\ NestInv /\ RankInv /\ pc = "emit" => TurnsPast)'
      BY TurnPast, PTL
    <3> QED
      BY <1>0, <2>1, <3>1
  <2>9. \A x \in {n} \cup Precedes(n)' : /\ \A a \in Under(x)' : ~ Coming(a)'
                                         /\ x # n => n \notin Under(x)'
    BY <1>0, <2>1, <2>3, <2>4, <2>7, <2>8 DEF TurnsPast
  <2>10. n \notin Precedes(n)'
    <3>1. Precedes(n)' = Precedes(n)
      BY <1>0 DEF Precedes, Members, PartOf, Halved, Before, Climb, Above, NeedsInit
    <3>2. Precedes(n) = Before(n, Members(stack'[1].scope, stack'[1].part))
      BY <2>2, <2>3 DEF Called, Precedes
    <3> QED
      BY <2>2, <3>1, <3>2 DEF Called
  <2>11. ~ Coming(n)'
    <3>1. n \in Under(n)'
      BY <2>3 DEF Under
    <3> QED
      BY <2>9, <3>1
  <2>12. Timely(n)'
    BY <2>9, <2>10, <2>11 DEF Timely
  <2> QED
    BY <2>3, <2>5, <2>6, <2>12
<1>4. CASE CloseScope
  BY <1>4, CloseWrites
<1>5. out' = out \/ (Enter /\ job.scope # Global /\ job.part = 1)
         \/ (EmitNode /\ out' # out) \/ CloseScope
  BY DEF Next, Start, Pop, Enter, RefuseScene, DropLoop, NextPart, Finish, Returned, vars
<1> QED
  BY <1>1, <1>2, <1>3, <1>4, <1>5

-----------------------------------------------------------------------------
(* Every device once, and after what it waits for.                          *)

LEMMA EmittedIsNode == OrderInv => Emitted \subseteq Node
<1> SUFFICES ASSUME out \in Seq(Instruction)
             PROVE  Emitted \subseteq Node
  BY DEF OrderInv, Instruction
<1>1. \A i \in 1..Len(out) : out[i] \in Instruction
  OBVIOUS
<1>2. \A x \in Instruction : x.node \in Node
  BY DEF Instruction
<1> QED
  BY <1>1, <1>2 DEF Emitted

LEMMA OnceInit == Init => OnceInv /\ OutwardInv
<1> SUFFICES ASSUME Init
             PROVE  OnceInv /\ OutwardInv
  OBVIOUS
<1>1. out = <<>> /\ Len(<<>>) = 0
  BY DEF Init
<1>2. Emitted = {} /\ \A n : Begun(n) = {}
  BY <1>1 DEF Emitted, Begun
<1> QED
  BY <1>2 DEF OnceInv, OutwardInv

LEMMA OnceStep ==
    ASSUME OrderInv, NestInv, RankInv, OnceInv, [Next]_vars
    PROVE  OnceInv'
<1>1. Emitted \subseteq Node /\ \A a \in Node : Coming(a)' => Coming(a)
  BY EmittedIsNode, ComingBack
<1>2. CASE Quietly
  BY <1>1, <1>2 DEF Quietly, OnceInv
<1>3. ASSUME NEW k \in Node, Begins(k), Coming(k), Timely(k)'
      PROVE  OnceInv'
  <2>1. k \notin Emitted
    BY <1>3 DEF OnceInv
  <2>2. Begun(k) = {}
    BY <2>1 DEF Begun, Emitted
  <2>3. Begun(k)' = {Len(out) + 1}
    BY <1>3, <2>2 DEF Begins
  <2>4. ASSUME NEW n \in Emitted'
        PROVE  ~ Coming(n)' /\ Begun(n)' # {}
    <3>1. CASE n = k
      BY <1>3, <2>3, <3>1 DEF Timely
    <3>2. CASE n # k
      <4>1. n \in Emitted /\ n \in Node
        BY <1>1, <1>3, <3>2 DEF Begins
      <4> QED
        BY <1>1, <1>3, <3>2, <4>1 DEF Begins, OnceInv
    <3> QED
      BY <3>1, <3>2
  <2>5. ASSUME NEW n \in Node, NEW i \in Begun(n)', NEW j \in Begun(n)'
        PROVE  i = j
    <3>1. CASE n = k
      BY <2>3, <3>1
    <3>2. CASE n # k
      BY <1>3, <3>2 DEF Begins, OnceInv
    <3> QED
      BY <3>1, <3>2
  <2> QED
    BY <2>4, <2>5 DEF OnceInv
<1> QED
  BY <1>2, <1>3, Writes

\* The tree and the edges are of the scene.
LEMMA SameTree ==
    ASSUME scene' = scene, NEW n
    PROVE  Precedes(n)' = Precedes(n) /\ Under(n)' = Under(n)
<1>1. Precedes(n)' = Precedes(n)
  BY DEF Precedes, Members, PartOf, Halved, Before, Climb, Above, NeedsInit
<1>2. Under(n)' = Under(n)
  BY DEF Under, Above
<1> QED
  BY <1>1, <1>2

LEMMA OutwardStep ==
    ASSUME OrderInv, NestInv, RankInv, OnceInv, OutwardInv, [Next]_vars
    PROVE  OutwardInv'
<1>0. \A n : Precedes(n)' = Precedes(n) /\ Under(n)' = Under(n)
  BY SceneStays, SameTree
<1>1. \A a \in Node : Coming(a)' => Coming(a)
  BY ComingBack
<1>2. \A x : Under(x) \subseteq Node
  BY DEF Under
<1> SUFFICES ASSUME NEW b \in Node, Begun(b)' # {}, NEW x \in Precedes(b)
             PROVE  /\ b \notin Under(x)
                    /\ \A a \in Under(x) :
                          ~ Coming(a)' /\ \A i \in Begun(b)' : \A j \in Begun(a)' : j < i
  BY <1>0 DEF OutwardInv
<1>3. CASE Quietly
  <2>1. Begun(b) # {}
    BY <1>3 DEF Quietly
  <2> QED
    BY <1>1, <1>2, <1>3, <2>1 DEF OutwardInv, Quietly
<1>4. ASSUME NEW k \in Node, Begins(k), Coming(k), Timely(k)'
      PROVE  /\ b \notin Under(x)
             /\ \A a \in Under(x) :
                   ~ Coming(a)' /\ \A i \in Begun(b)' : \A j \in Begun(a)' : j < i
  <2>1. CASE b # k
    <3>1. Begun(b)' = Begun(b)
      BY <1>4, <2>1 DEF Begins
    <3>2. /\ b \notin Under(x)
          /\ \A a \in Under(x) : ~ Coming(a) /\ \A i \in Begun(b) : \A j \in Begun(a) : j < i
      BY <3>1 DEF OutwardInv
    <3>3. k \notin Under(x)
      BY <1>4, <3>2
    <3>4. \A a \in Under(x) : Begun(a)' = Begun(a)
      BY <1>2, <1>4, <3>3 DEF Begins
    <3> QED
      BY <1>1, <1>2, <3>1, <3>2, <3>4
  <2>2. CASE b = k
    <3>1. b \notin Under(x) /\ \A a \in Under(x) : ~ Coming(a)'
      BY <1>0, <1>4, <2>2 DEF Timely
    <3>2. Begun(b) = {}
      <4>1. b \notin Emitted
        BY <1>4, <2>2 DEF OnceInv
      <4> QED
        BY <4>1 DEF Begun, Emitted
    <3>3. Begun(b)' = {Len(out) + 1}
      BY <1>4, <2>2, <3>2 DEF Begins
    <3>4. \A a \in Under(x) : Begun(a)' = Begun(a)
      BY <1>2, <1>4, <2>2, <3>1 DEF Begins
    <3>5. Len(out) \in Nat /\ \A a : Begun(a) \subseteq 1..Len(out)
      BY BegunBound
    <3>6. \A a \in Under(x) : \A j \in Begun(a) : j < Len(out) + 1
      BY <3>5
    <3> QED
      BY <3>1, <3>3, <3>4, <3>6
  <2> QED
    BY <2>1, <2>2
<1> QED
  BY <1>3, <1>4, Writes

LEMMA OutwardInvariant == Spec => [](OnceInv /\ OutwardInv)
<1>1. Init => OnceInv /\ OutwardInv
  BY OnceInit
<1>2. OrderInv /\ NestInv /\ RankInv /\ OnceInv /\ OutwardInv /\ [Next]_vars
         => OnceInv' /\ OutwardInv'
  BY OnceStep, OutwardStep
<1> QED
  BY <1>1, <1>2, OrderInvariant, NestInvariant, RankInvariant, PTL DEF Spec

\* A value that leaves a container, however deep its producer is inside, or stays
\* in its scope, is computed before it is read.
THEOREM OutwardCorrect == Spec => []OutwardFirst
<1>1. OrderInv /\ OutwardInv => OutwardFirst
  <2> SUFFICES ASSUME OrderInv, OutwardInv, NEW w \in scene.wires,
                      NEW i \in Begun(w[2]), NEW j \in Begun(w[1]),
                      NEW x \in ({w[1]} \cup Above[w[1]])
                                  \cap Members(scene.home[w[2]], PartOf(w[2])),
                      x # w[2]
               PROVE  j < i
    BY DEF OutwardFirst
  <2> DEFINE a == w[1]
             b == w[2]
             S == Members(scene.home[b], PartOf(b))
  <2>1. a \in Node /\ b \in Node
    BY DEF OrderInv, Scene
  <2>2. Begun(b) # {} /\ Precedes(b) = Before(b, S)
    BY DEF Precedes
  <2> HIDE DEF a, b
  <2>3. CASE a \in S
    <3>1. a \in Precedes(b)
      BY <2>2, <2>3 DEF Before, Climb, a, b
    <3>2. a \in Under(a)
      BY <2>1 DEF Under
    <3> QED
      BY <2>1, <2>2, <3>1, <3>2 DEF OutwardInv, a, b
  <2>4. CASE a \notin S
    <3>1. x \in Above[a] \cap S
      BY <2>4 DEF a, b
    <3>2. x \in Precedes(b)
      BY <2>2, <2>4, <3>1 DEF Before, Climb, a, b
    <3>3. a \in Under(x)
      BY <2>1, <3>1 DEF Under
    <3> QED
      BY <2>1, <2>2, <3>2, <3>3 DEF OutwardInv, a, b
  <2> QED
    BY <2>3, <2>4
<1> QED
  BY <1>1, OrderInvariant, OutwardInvariant, PTL

-----------------------------------------------------------------------------
(* Nothing is lost.                                                         *)

LEMMA HousedInvariant == Spec => []Housed
<1>1. Init => Housed
  BY HomeAssumption DEF Init, Housed
<1>2. Housed /\ [Next]_vars => Housed'
  BY SceneStays DEF Housed
<1> QED
  BY <1>1, <1>2, PTL DEF Spec

\* A sort that is as long as its part has placed all of it.
LEMMA FullSort ==
    ASSUME OrderInv, pc = "sort"
    PROVE  Stuck <=> Found # Sorting
<1> DEFINE f == [k \in 1..Len(sorted) |-> sorted[k]]
<1>1. /\ sorted \in Seq(Sorting)
      /\ \A i, j \in 1..Len(sorted) : sorted[i] = sorted[j] => i = j
  BY DEF OrderInv, SortInv
<1>2. Len(sorted) \in Nat /\ Found = {sorted[k] : k \in 1..Len(sorted)} /\ Found \subseteq Sorting
  BY <1>1 DEF Found, Placed
<1>3. f \in Bijection(1..Len(sorted), Found)
  BY <1>1, <1>2 DEF Bijection, Injection, IsInjective, Surjection
<1> HIDE DEF f
<1>4. Cardinality(Found) = Len(sorted)
  BY <1>2, <1>3, FS_CountingElements DEF ExistsBijection
<1>5. IsFiniteSet(Sorting)
  BY SetsFinite DEF Sorting
<1> QED
  BY <1>2, <1>4, <1>5, FS_Subset DEF Stuck

LEMMA SameLoops ==
    ASSUME scene' = scene
    PROVE  LoopsAcyclic' <=> LoopsAcyclic
  BY DEF LoopsAcyclic, Acyclic, Members, PartOf, Halved, Before, Climb, Above, NeedsInit

LEMMA UnbrokenBack == [Next]_vars /\ Unbroken' => Unbroken
<1> SUFFICES ASSUME [Next]_vars, Unbroken'
             PROVE  Unbroken
  OBVIOUS
<1>1. scene' = scene
  BY SceneStays
<1>2. LoopsAcyclic' <=> LoopsAcyclic
  BY <1>1, SameLoops
<1>3. warned => warned'
  BY DEF Next, Start, Pop, Enter, RefuseScene, DropLoop, EmitNode, NextPart, CloseScope,
         Finish, Returned, vars
<1>4. pc = "done" => pc' = pc /\ diags' = diags
  BY DEF Next, Start, Pop, Enter, RefuseScene, DropLoop, EmitNode, NextPart, CloseScope,
         Finish, Returned, vars
<1> QED
  BY <1>2, <1>3, <1>4 DEF Unbroken

LEMMA EmittedGrows ==
    ASSUME OrderInv, NestInv, RankInv, [Next]_vars
    PROVE  Emitted \subseteq Emitted'
  BY Writes DEF Quietly, Begins

\* A loop without a cycle is sorted to the end.
LEMMA NoDrop == OrderInv /\ RankInv /\ LoopsAcyclic => ~ DropLoop
<1> SUFFICES ASSUME OrderInv, RankInv, LoopsAcyclic, DropLoop
             PROVE  FALSE
  OBVIOUS
<1> DEFINE c == job.scope
           C == Sorting \ Found
<1>1. pc = "sort" /\ queue = {} /\ Stuck /\ c # Global /\ ~ Halved(c)
  BY DEF DropLoop
<1>2. c \in Node /\ SortInv
  BY <1>1 DEF OrderInv
<1>3. scene.kind[c] = "loop"
  BY <1>1 DEF RankInv, NextCalled, Containers, Halved
<1>4. Sorting = Members(c, 1)
  BY <1>1 DEF RankInv, NextCalled, Parts, Sorting
<1>5. Found \subseteq Sorting
  BY <1>2 DEF SortInv, Found, Placed
<1>6. C \in (SUBSET Members(c, 1)) \ {{}}
  BY <1>1, <1>4, <1>5, FullSort
<1>7. Acyclic(Members(c, 1))
  BY <1>2, <1>3 DEF LoopsAcyclic
<1>8. PICK n \in C : Before(n, Members(c, 1)) \cap C = {}
  BY <1>6, <1>7 DEF Acyclic
<1>9. Before(n, Sorting) \ Found # {}
  BY <1>1, <1>2, <1>8 DEF SortInv
<1>10. Before(n, Sorting) \subseteq Sorting
  BY DEF Before
<1> QED
  BY <1>4, <1>8, <1>9, <1>10

LEMMA WholeInit == Init => WholeInv
<1> SUFFICES ASSUME Init
             PROVE  WholeInv
  OBVIOUS
<1>1. \A n \in Node : Waits(n)
  BY DEF Init, Waits
<1> QED
  BY <1>1 DEF WholeInv, Kept

LEMMA WholeRest ==
    ASSUME OrderInv, NestInv, RankInv, OnceInv, WholeInv,
           Start \/ Pop \/ RefuseScene \/ DropLoop \/ Returned \/ UNCHANGED vars
    PROVE  WholeInv'
<1>0. [Next]_vars
  BY DEF Next
<1> SUFFICES ASSUME Unbroken', NEW n \in Node, scene'.home[n] \in Emitted' \cup {Global}
             PROVE  Kept(n)'
  BY DEF WholeInv
<1>1. Unbroken /\ scene' = scene /\ PartOf(n)' = PartOf(n) /\ PartOf(n) \in {1, 2}
  BY <1>0, UnbrokenBack, SceneStays DEF PartOf, Halved
<1>2. UNCHANGED <<stack, out>> /\ Emitted' = Emitted
  BY DEF Start, Pop, RefuseScene, DropLoop, Returned, vars, Emitted
<1>3. Kept(n)
  BY <1>1, <1>2 DEF WholeInv
<1>4. CASE Start
  <2>1. \A y \in Node : Coming(y)
    BY <1>4 DEF Start, Coming, Waits
  <2>2. Emitted = {}
    BY <2>1, EmittedIsNode DEF OnceInv
  <2>3. scene.home[n] = Global
    BY <1>1, <1>2, <2>2
  <2>4. pc' = "sort" /\ job' = [scope |-> Global, part |-> 1]
    BY <1>4 DEF Start, BeginSort, Unbroken
  <2>5. job'.scope = Global /\ job'.part = 1
    BY <2>4
  <2> QED
    BY <1>1, <2>3, <2>4, <2>5 DEF Kept, Waits
<1>5. CASE Pop \/ Returned \/ UNCHANGED vars
  <2>1. pc' = pc /\ job' = job
    BY <1>5 DEF Pop, Returned, vars
  <2> QED
    BY <1>1, <1>2, <1>3, <2>1 DEF Kept, Waits, Beginning
<1>6. CASE RefuseScene
  BY <1>6 DEF RefuseScene, Unbroken
<1>7. CASE DropLoop
  BY <1>1, <1>7, NoDrop DEF Unbroken
<1> QED
  BY <1>4, <1>5, <1>6, <1>7

LEMMA WholeEnter ==
    ASSUME OrderInv, NestInv, RankInv, WholeInv, Enter
    PROVE  WholeInv'
<1>0. [Next]_vars
  BY DEF Next
<1> SUFFICES ASSUME Unbroken', NEW n \in Node, scene'.home[n] \in Emitted' \cup {Global}
             PROVE  n \in Emitted' \/ Waits(n)'
  BY DEF WholeInv, Kept
<1>1. Unbroken /\ scene' = scene /\ PartOf(n)' = PartOf(n) /\ PartOf(n) \in {1, 2}
  BY <1>0, UnbrokenBack, SceneStays DEF PartOf, Halved
<1> DEFINE f == [scope |-> job.scope, part |-> job.part, rest |-> sorted]
<1>2. f \in Frame /\ f.scope = job.scope /\ f.part = job.part /\ f.rest = sorted
  BY DEF OrderInv, Frame
<1>3. stack' = <<f>> \o stack /\ pc = "sort" /\ pc' = "emit" /\ stack \in Seq(Frame)
  BY DEF Enter, OrderInv, StackInv, Frame
<1> HIDE DEF f
<1>4. /\ Len(stack') = Len(stack) + 1 /\ stack'[1] = f /\ Len(stack) \in Nat
      /\ \A i \in 1..Len(stack) : stack'[i+1] = stack[i]
  BY <1>2, <1>3, Pushed
<1>5. Found = Sorting
  <2>1. ~ Stuck
    BY DEF Enter, Unbroken
  <2> QED
    BY <1>3, <2>1, FullSort
<1>6. ASSUME scene.home[n] = job.scope, PartOf(n) >= job.part
      PROVE  Waits(n)'
  <2>1. job.part \in {1, 2}
    BY DEF OrderInv
  <2>2. PartOf(n) > job.part \/ PartOf(n) = job.part
    BY <1>1, <1>6, <2>1
  <2>3. PartOf(n) = job.part => n \in Sorting
    BY <1>6 DEF Sorting, Members
  <2>4. PartOf(n) > job.part \/ n \in Elements(sorted)
    BY <1>5, <2>2, <2>3 DEF Found, Placed, Elements
  <2>5. 1 \in 1..Len(stack')
    BY <1>4
  <2>6. /\ scene'.home[n] = stack'[1].scope
        /\ PartOf(n)' > stack'[1].part \/ n \in Elements(stack'[1].rest)
    BY <1>1, <1>2, <1>4, <1>6, <2>4
  <2>7. Elements(stack[1].rest)' = Elements(stack'[1].rest)
    BY DEF Elements
  <2> QED
    BY <2>5, <2>6, <2>7 DEF Waits, Elements
<1>7. CASE scene.home[n] \in Emitted \cup {Global}
  <2>1. Kept(n)
    BY <1>1, <1>7 DEF WholeInv
  <2>2. CASE n \in Emitted
    BY <1>0, <2>2, EmittedGrows
  <2>3. CASE Beginning(n)
    <3>1. n = job.scope /\ job.part = 1 /\ job.scope # Global
      BY <2>3, GlobalAssumption DEF Beginning
    <3>2. out' = out \o Instr("begin", n)
      BY <3>1 DEF Enter
    <3>3. Begins(n)
      BY <3>2, OneBegins
    <3> QED
      BY <3>3 DEF Begins
  <2>4. CASE \E i \in 1..Len(stack) :
                /\ scene.home[n] = stack[i].scope
                /\ PartOf(n) > stack[i].part \/ n \in Elements(stack[i].rest)
    <3>1. PICK i \in 1..Len(stack) :
                /\ scene.home[n] = stack[i].scope
                /\ PartOf(n) > stack[i].part \/ n \in Elements(stack[i].rest)
      BY <2>4
    <3>2. i + 1 \in 1..Len(stack') /\ stack'[i+1] = stack[i]
      BY <1>4
    <3> QED
      BY <1>1, <3>1, <3>2 DEF Waits, Elements
  <2> QED
    BY <1>3, <1>6, <2>1, <2>2, <2>3, <2>4 DEF Kept, Waits
<1>8. CASE scene.home[n] \notin Emitted \cup {Global}
  <2>1. Emitted' # Emitted
    BY <1>1, <1>8
  <2>2. job.scope # Global /\ job.part = 1
    BY <2>1 DEF Enter, Emitted
  <2>3. PICK c \in Node : c = job.scope
    BY <2>2 DEF OrderInv
  <2>4. Begins(c)
    <3>1. out' = out \o Instr("begin", c)
      BY <2>2, <2>3 DEF Enter
    <3> QED
      BY <3>1, OneBegins
  <2>5. scene.home[n] = job.scope
    BY <1>1, <1>8, <2>3, <2>4 DEF Begins
  <2> QED
    BY <1>1, <1>6, <2>2, <2>5
<1> QED
  BY <1>7, <1>8

LEMMA WholeEmit ==
    ASSUME OrderInv, NestInv, RankInv, OnceInv, Housed, WholeInv, EmitNode
    PROVE  WholeInv'
<1>0. [Next]_vars
  BY DEF Next
<1> SUFFICES ASSUME Unbroken', NEW y \in Node, scene'.home[y] \in Emitted' \cup {Global}
             PROVE  Kept(y)'
  BY DEF WholeInv
<1>1. Unbroken /\ scene' = scene /\ PartOf(y)' = PartOf(y)
  BY <1>0, UnbrokenBack, SceneStays DEF PartOf, Halved
<1>2. PICK n : n = Head(Top.rest)
  OBVIOUS
<1> DEFINE g == [Top EXCEPT !.rest = Tail(@)]
<1>3. /\ Len(stack) \in Nat \ {0} /\ Len(stack') = Len(stack)
      /\ stack'[1] = g /\ \A i \in 2..Len(stack) : stack'[i] = stack[i]
      /\ n \in Members(stack[1].scope, stack[1].part)
      /\ g.scope = stack[1].scope /\ g.part = stack[1].part
      /\ Elements(stack[1].rest) = {n} \cup Elements(g.rest)
  BY <1>2, EmitTakes
<1> HIDE DEF g
<1>4. n \in Node
  BY <1>3 DEF Members
<1>5. n \in Emitted' \/ Beginning(n)'
  <2>1. CASE n \in Emitted
    BY <1>0, <2>1, EmittedGrows
  <2>2. CASE n \notin Emitted /\ scene.kind[n] \in Containers
    <3>1. pc' = "sort" /\ job' = [scope |-> n, part |-> 1]
      BY <1>2, <2>2 DEF EmitNode, BeginSort
    <3> QED
      BY <3>1 DEF Beginning
  <2>3. CASE n \notin Emitted /\ scene.kind[n] \notin Containers
    <3>1. out' = out \o Instr("do", n)
      BY <1>2, <2>3 DEF EmitNode
    <3> QED
      BY <1>4, <3>1, OneBegins DEF Begins
  <2> QED
    BY <2>1, <2>2, <2>3
<1>6. scene.home[y] \in Emitted \cup {Global}
  <2>1. CASE Emitted' = Emitted
    BY <1>1, <2>1
  <2>2. CASE Emitted' # Emitted
    <3>1. n \notin Emitted /\ scene.kind[n] \notin Containers /\ out' = out \o Instr("do", n)
      BY <1>2, <2>2 DEF EmitNode, Emitted
    <3>2. Emitted' = Emitted \cup {n}
      BY <1>4, <3>1, OneBegins DEF Begins
    <3>3. scene.home[y] # n
      BY <1>4, <3>1, GlobalAssumption DEF Housed
    <3> QED
      BY <1>1, <3>2, <3>3
  <2> QED
    BY <2>1, <2>2
<1>7. Kept(y) /\ pc = "emit"
  BY <1>1, <1>6 DEF WholeInv, EmitNode
<1>8. CASE y \in Emitted
  BY <1>0, <1>8, EmittedGrows DEF Kept
<1>9. CASE y = n
  BY <1>5, <1>9 DEF Kept
<1>10. CASE y # n /\ \E i \in 1..Len(stack) :
                /\ scene.home[y] = stack[i].scope
                /\ PartOf(y) > stack[i].part \/ y \in Elements(stack[i].rest)
  <2>1. PICK i \in 1..Len(stack) :
                /\ scene.home[y] = stack[i].scope
                /\ PartOf(y) > stack[i].part \/ y \in Elements(stack[i].rest)
    BY <1>10
  <2>2. i \in 1..Len(stack') /\ stack'[i].scope = stack[i].scope /\ stack'[i].part = stack[i].part
    BY <1>3
  <2>3. y \in Elements(stack[i].rest) => y \in Elements(stack'[i].rest)
    BY <1>3, <1>10
  <2>4. Waits(y)'
    BY <1>1, <2>1, <2>2, <2>3 DEF Waits, Elements
  <2> QED
    BY <2>4 DEF Kept
<1> QED
  BY <1>7, <1>8, <1>9, <1>10 DEF Kept, Waits, Beginning

LEMMA WholeLeave ==
    ASSUME OrderInv, NestInv, RankInv, WholeInv, NextPart \/ CloseScope \/ Finish
    PROVE  WholeInv'
<1>0. [Next]_vars
  BY DEF Next
<1> SUFFICES ASSUME Unbroken', NEW y \in Node, scene'.home[y] \in Emitted' \cup {Global}
             PROVE  Kept(y)'
  BY DEF WholeInv
<1>1. Unbroken /\ scene' = scene /\ PartOf(y)' = PartOf(y)
  BY <1>0, UnbrokenBack, SceneStays DEF PartOf, Halved
<1>2. pc = "emit" /\ stack' = Tail(stack) /\ Top.rest = <<>>
  BY DEF NextPart, CloseScope, Finish
<1>3. /\ stack \in Seq(Frame) /\ stack # <<>> /\ Len(stack) \in Nat \ {0}
      /\ Top = stack[1] /\ Top \in Frame
      /\ Len(Tail(stack)) = Len(stack) - 1
      /\ \A i \in 1..(Len(stack)-1) : Tail(stack)[i] = stack[i+1]
  BY <1>2, TailIs
<1>4. Emitted' = Emitted
  <2>1. CASE CloseScope
    BY <2>1, CloseWrites DEF Quietly
  <2>2. CASE NextPart \/ Finish
    BY <2>2 DEF NextPart, Finish, Emitted
  <2> QED
    BY <2>1, <2>2
<1>5. Kept(y)
  BY <1>1, <1>4 DEF WholeInv
<1>6. CASE y \in Emitted
  BY <1>4, <1>6 DEF Kept
<1>7. CASE scene.home[y] = stack[1].scope
              /\ (PartOf(y) > stack[1].part \/ y \in Elements(stack[1].rest))
  <2>1. Len(<<>>) = 0
    OBVIOUS
  <2>2. Elements(stack[1].rest) = {}
    BY <1>2, <1>3, <2>1 DEF Elements
  <2>3. PartOf(y) > stack[1].part /\ PartOf(y) \in {1, 2} /\ stack[1].part \in {1, 2}
    BY <1>3, <1>7, <2>2 DEF PartOf, Frame
  <2>4. Halved(Top.scope)
    <3>1. PartOf(y) = 2
      BY <2>3
    <3> QED
      BY <1>3, <1>7, <3>1 DEF PartOf
  <2>5. Top.part + 1 \in Parts(Top.scope) /\ Top.scope # Global
    BY <1>3, <2>3, <2>4 DEF Parts, Halved
  <2>6. BeginSort(Top.scope, Top.part + 1)
    BY <2>5 DEF NextPart, CloseScope, Finish
  <2>7. pc' = "sort" /\ job' = [scope |-> Top.scope, part |-> Top.part + 1]
    BY <2>6 DEF BeginSort
  <2>8. job'.scope = stack[1].scope /\ job'.part = stack[1].part + 1
    BY <1>3, <2>7
  <2>9. scene'.home[y] = job'.scope /\ PartOf(y)' >= job'.part
    BY <1>1, <1>7, <2>3, <2>8
  <2> QED
    BY <2>7, <2>9 DEF Kept, Waits
<1>8. CASE \E i \in 2..Len(stack) :
              /\ scene.home[y] = stack[i].scope
              /\ PartOf(y) > stack[i].part \/ y \in Elements(stack[i].rest)
  <2>1. PICK i \in 2..Len(stack) :
              /\ scene.home[y] = stack[i].scope
              /\ PartOf(y) > stack[i].part \/ y \in Elements(stack[i].rest)
    BY <1>8
  <2>2. i - 1 \in 1..Len(stack') /\ i - 1 \in 1..(Len(stack)-1) /\ (i - 1) + 1 = i
    BY <1>2, <1>3
  <2>3. stack'[i-1] = stack[i]
    BY <1>2, <1>3, <2>2
  <2>4. Waits(y)'
    BY <1>1, <2>1, <2>2, <2>3 DEF Waits, Elements
  <2> QED
    BY <2>4 DEF Kept
<1>9. \A i \in 1..Len(stack) : i = 1 \/ i \in 2..Len(stack)
  BY <1>3
<1> QED
  BY <1>2, <1>5, <1>6, <1>7, <1>8, <1>9 DEF Kept, Waits, Beginning

LEMMA WholeInvariant == Spec => []WholeInv
<1>1. Init => WholeInv
  BY WholeInit
<1>2. OrderInv /\ NestInv /\ RankInv /\ OnceInv /\ Housed /\ WholeInv /\ [Next]_vars => WholeInv'
  <2> SUFFICES ASSUME OrderInv, NestInv, RankInv, OnceInv, Housed, WholeInv, [Next]_vars
               PROVE  WholeInv'
    OBVIOUS
  <2>1. CASE Enter
    BY <2>1, WholeEnter
  <2>2. CASE EmitNode
    BY <2>2, WholeEmit
  <2>3. CASE NextPart \/ CloseScope \/ Finish
    BY <2>3, WholeLeave
  <2>4. CASE Start \/ Pop \/ RefuseScene \/ DropLoop \/ Returned \/ UNCHANGED vars
    BY <2>4, WholeRest
  <2> QED
    BY <2>1, <2>2, <2>3, <2>4 DEF Next
<1> QED
  BY <1>1, <1>2, OrderInvariant, NestInvariant, RankInvariant, OutwardInvariant,
     HousedInvariant, PTL DEF Spec

\* Without an error or a warning every device is in the program, once.
THEOREM CompleteCorrect == Spec => []Complete
<1>1. OrderInv /\ OnceInv /\ WholeInv => Complete
  <2> SUFFICES ASSUME OrderInv, OnceInv, WholeInv, pc = "done", diags = {}, ~ warned,
                      LoopsAcyclic, Rooted, NEW n \in Node
               PROVE  Cardinality(Begun(n)) = 1
    BY DEF Complete
  <2>1. stack = <<>> /\ Len(<<>>) = 0
    BY DEF OrderInv, StackInv
  <2>2. \A y \in Node : ~ Waits(y) /\ ~ Beginning(y)
    BY <2>1 DEF Waits, Beginning
  <2>3. \A y \in Node : scene.home[y] \in Emitted \cup {Global} => y \in Emitted
    BY <2>2 DEF WholeInv, Unbroken, Kept
  <2>4. \A y \in Node : scene.home[y] \in Node \cup {Global}
    BY DEF OrderInv, Scene
  <2>5. Node \ Emitted = {}
    <3> SUFFICES ASSUME Node \ Emitted # {}
                 PROVE  FALSE
      OBVIOUS
    <3>1. PICK y \in Node \ Emitted : scene.home[y] \notin Node \ Emitted
      BY DEF Rooted
    <3> QED
      BY <2>3, <2>4, <3>1
  <2>6. PICK i : i \in Begun(n)
    BY <2>5 DEF OnceInv
  <2>7. Begun(n) = {i}
    BY <2>6 DEF OnceInv
  <2> QED
    BY <2>7, FS_Singleton
<1> QED
  BY <1>1, OrderInvariant, OutwardInvariant, WholeInvariant, PTL

-----------------------------------------------------------------------------
(* The stop port of a loop.                                                 *)

\* No stop port is fed from outside its loop once the first sort has begun.
CheckedInv == pc \in {"sort", "emit"} => OutsideControl = {}

LEMMA CheckedInvariant == Spec => []CheckedInv
<1>1. Init => CheckedInv
  BY DEF Init, CheckedInv
<1>2. CheckedInv /\ [Next]_vars => CheckedInv'
  <2> SUFFICES ASSUME CheckedInv, [Next]_vars
               PROVE  CheckedInv'
    OBVIOUS
  <2>1. OutsideControl' = OutsideControl
    BY SceneStays DEF OutsideControl, Above
  <2>2. CASE Start
    BY <2>1, <2>2 DEF Start, CheckedInv
  <2>3. CASE ~ Start
    <3>1. pc' \in {"sort", "emit"} => pc \in {"sort", "emit"}
      BY <2>3 DEF Next, Pop, Enter, RefuseScene, DropLoop, EmitNode, NextPart, CloseScope,
         Finish, Returned, vars
    <3> QED
      BY <2>1, <3>1 DEF CheckedInv
  <2> QED
    BY <2>2, <2>3
<1> QED
  BY <1>1, <1>2, PTL DEF Spec

\* A scope that is over has left nothing out.
OverIsWhole ==
    \A L \in Node : L \in Emitted /\ L \notin Open =>
        \A a \in Node : L \in Above[a] => a \in Emitted

LEMMA ClosedIsWhole ==
    OrderInv /\ ScopesInv /\ WholeInv /\ Unbroken /\ pc = "emit" => OverIsWhole
<1> SUFFICES ASSUME OrderInv, ScopesInv, WholeInv, Unbroken, pc = "emit",
                    NEW L \in Node, L \in Emitted, L \notin Open,
                    NEW a \in Node, L \in Above[a], a \notin Emitted
             PROVE  FALSE
  BY DEF OverIsWhole
<1> DEFINE T == {x \in Node : L \in Above[x] /\ x \notin Emitted}
<1>0. scene \in Scene
  BY DEF OrderInv
<1>1. ASSUME NEW x \in T
      PROVE  scene.home[x] \in T
  <2>1. /\ scene.home[x] \in Node
        /\ L = scene.home[x] \/ L \in Above[scene.home[x]]
    BY <1>0, AboveHome
  <2>2. PICK h \in Node : h = scene.home[x]
    BY <2>1
  <2>3. CASE h \in Emitted
    <3>1. Waits(x)
      BY <2>2, <2>3 DEF WholeInv, Kept, Beginning
    <3>2. h \in Open
      BY <2>2, <3>1 DEF ScopesInv
    <3>3. scene.home[h] \in Open
      BY <3>2, GlobalAssumption DEF ScopesInv
    <3>4. Above[h] \subseteq Open
      BY <1>0, <3>3, OpenAbove
    <3> QED
      BY <2>1, <2>2, <3>2, <3>4
  <2>4. CASE h \notin Emitted
    BY <2>1, <2>2, <2>4
  <2> QED
    BY <2>3, <2>4
<1>2. T \in SUBSET Node /\ a \in T
  OBVIOUS
<1>3. L \notin T
  OBVIOUS
<1> HIDE DEF T
<1>4. Upward(scene.home, T) /\ scene.home[a] \in T
  BY <1>1, <1>2 DEF Upward
<1>5. Above[a] \subseteq T
  BY <1>0, <1>2, <1>4, AboveLeast
<1> QED
  BY <1>3, <1>5

\* All that is in a container that ends is in the program before its break.
LEMMA InsideIsOut ==
    ASSUME OrderInv, NestInv, RankInv, WholeInv, WholeInv', LoopsAcyclic, ~ warned,
           CloseScope, NEW a \in Node, Top.scope \in Above[a]
    PROVE  a \in Emitted
<1> DEFINE c == Top.scope
<1>0. /\ OrderInv' /\ NestInv' /\ RankInv' /\ scene' = scene /\ Above' = Above
      /\ Emitted' = Emitted
  <2>1. [Next]_vars
    BY DEF Next
  <2>2. scene' = scene /\ OrderInv' /\ NestInv' /\ RankInv'
    BY <2>1, SceneStays, AllAfter
  <2> QED
    BY <2>2, CloseWrites DEF Quietly, Above
<1>1. /\ pc = "emit" /\ pc' = "emit" /\ c # Global /\ stack' = Tail(stack)
      /\ warned' = warned
  BY DEF CloseScope
<1>2. /\ Len(stack) \in Nat \ {0} /\ Top = stack[1] /\ Top \in Frame
      /\ Len(Tail(stack)) = Len(stack) - 1
      /\ \A i \in 1..(Len(stack)-1) : Tail(stack)[i] = stack[i+1]
  BY <1>1, TailIs
<1>3. c \in Node /\ c = stack[1].scope /\ 1 \in 1..Len(stack)
  BY <1>1, <1>2 DEF Frame
<1> HIDE DEF c
<1>4. c \in Emitted
  <2>1. OpenIn(out, c)
    BY <1>1, <1>3 DEF NestInv, Stacked
  <2> QED
    BY <2>1, OpenIsEmitted
<1>5. c \notin Open'
  <2> SUFFICES ASSUME NEW i \in 1..Len(stack'), stack'[i].scope = c
               PROVE  FALSE
    BY <1>1 DEF Open
  <2>1. i + 1 \in 1..Len(stack) /\ stack'[i] = stack[i+1] /\ i + 1 # 1
    BY <1>1, <1>2
  <2> QED
    BY <1>3, <2>1 DEF NestInv, Stacked
<1>6. Unbroken'
  <2>1. LoopsAcyclic'
    BY <1>0, SameLoops
  <2> QED
    BY <1>1, <2>1 DEF Unbroken
<1>7. OverIsWhole'
  <2>1. (OrderInv /\ ScopesInv /\ WholeInv /\ Unbroken /\ pc = "emit" => OverIsWhole)'
    BY ClosedIsWhole, PTL
  <2>2. (OrderInv /\ NestInv /\ RankInv => ScopesInv)'
    BY ScopesHold, PTL
  <2> QED
    BY <1>0, <1>1, <1>6, <2>1, <2>2
<1> QED
  BY <1>0, <1>3, <1>4, <1>5, <1>7 DEF OverIsWhole, c

\* What has begun stays, and stays where it is.
LEMMA BegunStays ==
    ASSUME OrderInv, NestInv, RankInv, [Next]_vars, NEW m \in Node
    PROVE  Begun(m) \subseteq Begun(m)'
  BY Writes DEF Quietly, Begins

\* A step that closes no scope writes no break.
LEMMA NoBreak ==
    ASSUME OrderInv, NestInv, RankInv, [Next]_vars, ~ CloseScope,
           NEW i \in 1..Len(out'), out'[i].op = "break"
    PROVE  i \in 1..Len(out) /\ out'[i] = out[i]
<1>1. out' = out \/ \E op \in {"begin", "do"}, n \in Node : Continues(out', out, op, n)
  <2>0. out \in Seq(Instruction)
    BY DEF OrderInv, Instruction
  <2>1. CASE Enter
    <3>1. CASE job.scope # Global /\ job.part = 1
      BY <2>0, <2>1, <3>1 DEF Enter, Continues, OrderInv
    <3>2. CASE ~ (job.scope # Global /\ job.part = 1)
      BY <2>1, <3>2 DEF Enter
    <3> QED
      BY <3>1, <3>2
  <2>2. CASE EmitNode
    <3>1. Head(Top.rest) \in Node
      BY <2>2, EmitTakes DEF Members
    <3>2. out' = out \/ out' = out \o Instr("do", Head(Top.rest))
      BY <2>2 DEF EmitNode
    <3> QED
      BY <2>0, <3>1, <3>2 DEF Continues
  <2>3. CASE ~ Enter /\ ~ EmitNode
    BY <2>3 DEF Next, Start, Pop, RefuseScene, DropLoop, NextPart, Finish, Returned, vars
  <2> QED
    BY <2>1, <2>2, <2>3
<1>2. CASE out' = out
  BY <1>2
<1>3. ASSUME NEW op \in {"begin", "do"}, NEW n \in Node, Continues(out', out, op, n)
      PROVE  i \in 1..Len(out) /\ out'[i] = out[i]
  <2>1. /\ Len(out') = Len(out) + 1 /\ Len(out) \in Nat
        /\ out'[Len(out) + 1].op = op
        /\ \A k \in 1..Len(out) : out'[k] = out[k]
    BY <1>3, Appended
  <2>2. i # Len(out) + 1
    BY <2>1
  <2> QED
    BY <2>1, <2>2
<1> QED
  BY <1>1, <1>2, <1>3

\* The break of a loop stands last before its end.
LEMMA NewBreak ==
    ASSUME OrderInv, CloseScope, NEW i \in 1..Len(out'), out'[i].op = "break"
    PROVE  \/ i \in 1..Len(out) /\ out'[i] = out[i]
           \/ i = Len(out) + 1 /\ out'[i].node = Top.scope /\ scene.kind[Top.scope] = "loop"
<1>0. out \in Seq(Instruction)
  BY DEF OrderInv, Instruction
<1> DEFINE c == Top.scope
           b == IF scene.kind[c] = "loop" /\ Fed(c) THEN Instr("break", c) ELSE <<>>
           o == out \o b
<1>1. /\ out' = o \o Instr("end", c) /\ pc = "emit" /\ c # Global
  BY DEF CloseScope
<1>2. c \in Node
  BY <1>1, TailIs DEF Frame
<1>3. (b = Instr("break", c) /\ scene.kind[c] = "loop") \/ b = <<>>
  OBVIOUS
<1> HIDE DEF c, b
<1>4. \/ o = out
      \/ scene.kind[c] = "loop" /\ Continues(o, out, "break", c)
  <2>1. CASE b = <<>>
    BY <1>0, <2>1
  <2>2. CASE b = Instr("break", c) /\ scene.kind[c] = "loop"
    BY <1>0, <1>2, <2>2 DEF Continues
  <2> QED
    BY <1>3, <2>1, <2>2
<1> HIDE DEF o
<1>5. Continues(out', o, "end", c)
  <2>1. o \in Seq(Instruction)
    BY <1>0, <1>4, Appended
  <2> QED
    BY <1>1, <1>2, <2>1 DEF Continues
<1>6. /\ Len(out') = Len(o) + 1 /\ Len(o) \in Nat /\ out'[Len(o) + 1].op = "end"
      /\ \A k \in 1..Len(o) : out'[k] = o[k]
  BY <1>5, Appended
<1>7. i \in 1..Len(o) /\ out'[i] = o[i]
  <2>1. i # Len(o) + 1
    BY <1>6
  <2> QED
    BY <1>6, <2>1
<1>8. CASE o = out
  BY <1>7, <1>8
<1>9. CASE scene.kind[c] = "loop" /\ Continues(o, out, "break", c)
  <2>1. /\ Len(o) = Len(out) + 1 /\ Len(out) \in Nat /\ o[Len(out) + 1].node = c
        /\ \A k \in 1..Len(out) : o[k] = out[k]
    BY <1>9, Appended
  <2>2. i \in 1..Len(out) \/ i = Len(out) + 1
    BY <1>7, <2>1
  <2> QED
    BY <1>7, <1>9, <2>1, <2>2 DEF c
<1> QED
  BY <1>4, <1>8, <1>9

LEMMA StopStep ==
    ASSUME OrderInv, NestInv, RankInv, OnceInv, WholeInv, WholeInv', CheckedInv,
           StopComputed, [Next]_vars
    PROVE  StopComputed'
<1>0. scene' = scene
  BY SceneStays
<1>1. LoopsAcyclic' <=> LoopsAcyclic
  BY <1>0, SameLoops
<1>2. warned => warned'
  BY DEF Next, Start, Pop, Enter, RefuseScene, DropLoop, EmitNode, NextPart, CloseScope,
         Finish, Returned, vars
<1> SUFFICES ASSUME LoopsAcyclic, ~ warned,
                    NEW i \in 1..Len(out'), out'[i].op = "break",
                    NEW w \in scene.control, w[2] = out'[i].node
             PROVE  \E j \in Begun(w[1])' : j < i
  BY <1>0, <1>1, <1>2 DEF StopComputed
<1>3. w[1] \in Node /\ w[2] \in Node
  BY DEF OrderInv, Scene
<1>4. Begun(w[1]) \subseteq Begun(w[1])'
  <2>1. PICK m \in Node : m = w[1]
    BY <1>3
  <2>2. Begun(m) \subseteq Begun(m)'
    BY BegunStays
  <2> QED
    BY <2>1, <2>2 DEF Begun
<1>5. CASE i \in 1..Len(out) /\ out'[i] = out[i]
  <2>1. \E j \in Begun(w[1]) : j < i
    BY <1>5 DEF StopComputed
  <2> QED
    BY <1>4, <2>1
<1>6. CASE CloseScope /\ i = Len(out) + 1 /\ out'[i].node = Top.scope
              /\ scene.kind[Top.scope] = "loop"
  <2>1. OutsideControl = {}
    BY <1>6 DEF CheckedInv, CloseScope
  <2>2. Top.scope \in Above[w[1]]
    BY <1>6, <2>1 DEF OutsideControl
  <2>3. w[1] \in Emitted
    BY <1>3, <1>6, <2>2, InsideIsOut
  <2>4. PICK j \in Begun(w[1]) : TRUE
    BY <2>3 DEF OnceInv
  <2>5. Len(out) \in Nat /\ j \in 1..Len(out)
    BY BegunBound
  <2> QED
    BY <1>4, <1>6, <2>4, <2>5
<1>7. CASE ~ CloseScope
  BY <1>5, <1>7, NoBreak
<1> QED
  BY <1>5, <1>6, <1>7, NewBreak

\* A loop tests a value that its body has computed before.
THEOREM StopCorrect == Spec => []StopComputed
<1>1. Init => StopComputed
  <2>1. Init => Len(out) = 0
    BY DEF Init
  <2> QED
    BY <2>1 DEF StopComputed
<1>2. /\ OrderInv /\ NestInv /\ RankInv /\ OnceInv /\ WholeInv /\ WholeInv' /\ CheckedInv
      /\ StopComputed /\ [Next]_vars
      => StopComputed'
  BY StopStep
<1> QED
  BY <1>1, <1>2, OrderInvariant, NestInvariant, RankInvariant, OutwardInvariant,
     WholeInvariant, CheckedInvariant, PTL DEF Spec
=============================================================================
