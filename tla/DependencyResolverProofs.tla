--------------------- MODULE DependencyResolverProofs ---------------------
(***************************************************************************)
(* validateNoCycles is right about every graph on every set of tasks.      *)
(***************************************************************************)
EXTENDS DependencyResolver, FiniteSetLemmas

LEMMA ReachesSelf == \A E \in Graph, a \in Task : Reaches(E, a, a)
BY DEF Reaches

\* What a task reaches is closed under the edges.
LEMMA ReachedClosed ==
  ASSUME NEW E \in Graph, NEW a \in Task, NEW x \in Task, NEW y \in Task,
         Reaches(E, a, x), <<x, y>> \in E
  PROVE  Reaches(E, a, y)
BY DEF Reaches, Closed

(***************************************************************************)
(* What the loop keeps true: everything pushed is reachable from           *)
(* dependsOnId, the visited nodes have all their neighbours pushed, and    *)
(* taskId is not among them.                                               *)
(***************************************************************************)
LoopInv ==
  /\ dependsOnId \in Pushed
  /\ \A n \in Pushed : Reaches(existingDeps, dependsOnId, n)
  /\ taskId \notin visited
  /\ \A e \in existingDeps : e[1] \in visited => e[2] \in Pushed

SearchInv ==
  /\ SearchTypeOK
  /\ verdict = "self" <=> taskId = dependsOnId
  /\ verdict = "running" => LoopInv
  /\ VerdictCorrect

LEMMA SearchInitInv == SearchInit => SearchInv
<1> SUFFICES ASSUME SearchInit PROVE SearchInv
  OBVIOUS
<1>1. SearchTypeOK
  BY DEF SearchInit, SearchTypeOK, Pushed, Verdicts
<1>2. VerdictCorrect
  BY DEF SearchInit, VerdictCorrect, MayDependOn
<1>3. verdict = "running" => LoopInv
  BY ReachesSelf DEF SearchInit, LoopInv, Pushed
<1>4. verdict = "self" <=> taskId = dependsOnId
  BY DEF SearchInit
<1>5. QED
  BY <1>1, <1>2, <1>3, <1>4 DEF SearchInv

LEMMA SearchStepInv == SearchInv /\ [SearchNext]_searchVars => SearchInv'
<1> SUFFICES ASSUME SearchInv, [SearchNext]_searchVars PROVE SearchInv'
  OBVIOUS
<1> USE DEF SearchInv
<1>1. CASE Accept
  <2> USE <1>1 DEF Accept
  <2>1. SearchTypeOK'
    BY DEF SearchTypeOK, Verdicts, Pushed
  <2>2. Closed(existingDeps, visited) /\ dependsOnId \in visited /\ taskId \notin visited
    BY DEF LoopInv, Closed, Pushed
  <2>3. MayDependOn(existingDeps, taskId, dependsOnId)
    BY <2>2 DEF MayDependOn, Reaches, SearchTypeOK
  <2>4. QED
    BY <2>1, <2>3 DEF VerdictCorrect
<1>2. ASSUME NEW current \in stack, verdict = "running", FindCycle(current)
      PROVE  SearchInv'
  <2> USE <1>2 DEF FindCycle
  <2>1. SearchTypeOK'
    BY DEF SearchTypeOK, Verdicts, Pushed
  <2>2. Reaches(existingDeps, dependsOnId, taskId)
    BY DEF LoopInv, Pushed
  <2>3. QED
    BY <2>1, <2>2 DEF VerdictCorrect, MayDependOn
<1>3. ASSUME NEW current \in stack, verdict = "running", Visit(current)
      PROVE  SearchInv'
  <2> DEFINE fresh == {n \in Task : <<current, n>> \in existingDeps}
                        \ (visited \cup {current})
  <2>1. /\ current # taskId /\ current \in Task
        /\ visited' = visited \cup {current}
        /\ stack' = (stack \ {current}) \cup fresh
        /\ parent' = [n \in Pushed \cup fresh |->
                        IF n \in fresh THEN current ELSE parent[n]]
        /\ UNCHANGED <<existingDeps, taskId, dependsOnId, verdict>>
    BY <1>3 DEF Visit, SearchTypeOK
  <2>2. Pushed' = Pushed \cup fresh
    BY <2>1 DEF Pushed
  <2>3. SearchTypeOK'
    BY <2>1, <2>2 DEF SearchTypeOK, Pushed
  <2>4. \A n \in fresh : Reaches(existingDeps, dependsOnId, n)
    <3>1. Reaches(existingDeps, dependsOnId, current)
      BY <1>3 DEF LoopInv, Pushed
    <3>2. QED
      BY <2>1, <3>1, ReachedClosed DEF SearchTypeOK
  <2>5. ASSUME NEW e \in existingDeps, e[1] \in visited' PROVE e[2] \in Pushed'
    <3>1. e[2] \in Task /\ e = <<e[1], e[2]>>
      BY DEF SearchTypeOK, Graph
    <3>2. QED
      BY <1>3, <2>1, <2>2, <2>5, <3>1 DEF LoopInv, Pushed
  <2>6. LoopInv'
    BY <1>3, <2>1, <2>2, <2>4, <2>5 DEF LoopInv
  <2>7. QED
    BY <1>3, <2>1, <2>3, <2>6 DEF VerdictCorrect
<1>4. CASE UNCHANGED searchVars
  BY <1>4 DEF searchVars, SearchTypeOK, LoopInv, Pushed, VerdictCorrect
<1>5. QED
  BY <1>1, <1>2, <1>3, <1>4 DEF SearchNext, Pop, SearchDone

\* Whatever the graph and in whatever order the stack is popped, the search
\* accepts exactly the dependencies that close no cycle.
THEOREM SearchCorrect == SearchSpec => []VerdictCorrect
<1>1. SearchInv => VerdictCorrect
  BY DEF SearchInv
<1>2. QED
  BY <1>1, SearchInitInv, SearchStepInv, PTL DEF SearchSpec

-----------------------------------------------------------------------------
(***************************************************************************)
(* The parents form a tree of existing edges with dependsOnId at its root: *)
(* rank is the depth of a node, and grows by one from parent to child, so  *)
(* the way up from any pushed node ends. A parent may be overwritten while *)
(* the node is on the stack; no node has such a node for its parent yet.   *)
(***************************************************************************)
IsRank(rank) ==
  /\ rank \in [Pushed -> Nat]
  /\ \A n \in Pushed :
       /\ rank[n] <= Cardinality(visited)
       /\ n = dependsOnId => (rank[n] = 0 /\ parent[n] = None)
       /\ n # dependsOnId => /\ parent[n] \in visited /\ rank[n] = rank[parent[n]] + 1
                             /\ <<parent[n], n>> \in existingDeps

Ranked == \E rank : IsRank(rank)

TreeInv ==
  verdict \in {"running", "cycle"} =>
    /\ stack \cap visited = {}
    /\ dependsOnId \in visited \/ (stack = {dependsOnId} /\ visited = {})
    /\ taskId \notin visited /\ (verdict = "cycle" => taskId \in stack)
    /\ Ranked

LEMMA TreeInit == SearchInit => TreeInv
<1> SUFFICES ASSUME SearchInit, verdict = "running" PROVE TreeInv
  BY DEF SearchInit, TreeInv
<1>1. /\ stack = {dependsOnId} /\ visited = {} /\ Pushed = {dependsOnId}
      /\ parent = [n \in {dependsOnId} |-> None] /\ taskId # dependsOnId
  BY DEF SearchInit, Pushed
<1>2. Cardinality(visited) = 0
  BY <1>1, FS_EmptySet
<1>3. IsRank([n \in {dependsOnId} |-> 0])
  BY <1>1, <1>2 DEF IsRank
<1>4. QED
  BY <1>1, <1>3 DEF TreeInv, Ranked

LEMMA TreeStep == SearchInv /\ TreeInv /\ [SearchNext]_searchVars => TreeInv'
<1> SUFFICES ASSUME SearchInv, TreeInv, [SearchNext]_searchVars PROVE TreeInv'
  OBVIOUS
<1>1. ASSUME NEW current \in stack, verdict = "running", Visit(current)
      PROVE  TreeInv'
  <2> DEFINE fresh == {n \in Task : <<current, n>> \in existingDeps}
                        \ (visited \cup {current})
  <2>1. /\ current # taskId /\ current \in Task /\ visited \subseteq Task
        /\ visited' = visited \cup {current}
        /\ stack' = (stack \ {current}) \cup fresh
        /\ parent' = [n \in Pushed \cup fresh |->
                        IF n \in fresh THEN current ELSE parent[n]]
        /\ UNCHANGED <<existingDeps, taskId, dependsOnId, verdict>>
    BY <1>1 DEF Visit, SearchInv, SearchTypeOK
  <2>2. /\ stack \cap visited = {} /\ taskId \notin visited
        /\ dependsOnId \in visited \/ (stack = {dependsOnId} /\ visited = {})
    BY <1>1 DEF TreeInv
  <2>3. PICK rank : IsRank(rank)
    BY <1>1 DEF TreeInv, Ranked
  <2>4. Pushed' = Pushed \cup fresh /\ dependsOnId \in visited' /\ current \in Pushed
    BY <1>1, <2>1, <2>2 DEF Pushed
  <2>5. /\ Cardinality(visited) \in Nat
        /\ Cardinality(visited') = Cardinality(visited) + 1
    BY <2>1, <2>2, ResolverAssumption, FS_Subset, FS_AddElement, FS_CardinalityType
  <2>6. \A n \in fresh : /\ n \notin visited' /\ n # current /\ n # dependsOnId
                         /\ <<current, n>> \in existingDeps
    BY <2>1, <2>2
  <2> DEFINE above == [n \in Pushed' |-> IF n \in fresh THEN rank[current] + 1 ELSE rank[n]]
  <2> HIDE DEF fresh
  <2>7. rank \in [Pushed -> Nat] /\ \A n \in Pushed : rank[n] \in Nat
    BY <2>3 DEF IsRank
  <2>8. above \in [Pushed' -> Nat]
    BY <2>4, <2>7
  <2>9. ASSUME NEW n \in Pushed'
        PROVE  /\ above[n] <= Cardinality(visited')
               /\ n = dependsOnId => (above[n] = 0 /\ parent'[n] = None)
               /\ n # dependsOnId => /\ parent'[n] \in visited' /\ above[n] = above[parent'[n]] + 1
                                     /\ <<parent'[n], n>> \in existingDeps
    <3>1. CASE n \in fresh
      <4>1. parent'[n] = current /\ above[n] = rank[current] + 1 /\ above[current] = rank[current]
        BY <2>1, <2>4, <2>6, <3>1
      <4>2. rank[current] <= Cardinality(visited)
        BY <2>3, <2>4 DEF IsRank
      <4>3. above[n] <= Cardinality(visited')
        BY <2>4, <2>5, <2>7, <4>1, <4>2
      <4>4. QED
        BY <2>1, <2>6, <3>1, <4>1, <4>3
    <3>2. CASE n \notin fresh
      <4>1. n \in Pushed /\ parent'[n] = parent[n] /\ above[n] = rank[n]
        BY <2>1, <2>4, <3>2
      <4>2. /\ rank[n] <= Cardinality(visited)
            /\ n = dependsOnId => (rank[n] = 0 /\ parent[n] = None)
            /\ n # dependsOnId => /\ parent[n] \in visited /\ rank[n] = rank[parent[n]] + 1
                                  /\ <<parent[n], n>> \in existingDeps
        BY <2>3, <4>1 DEF IsRank
      <4>3. rank[n] <= Cardinality(visited')
        BY <2>5, <2>7, <4>1, <4>2
      <4>4. n # dependsOnId => above[parent[n]] = rank[parent[n]] /\ parent[n] \in visited'
        BY <2>1, <2>4, <2>6, <4>2 DEF Pushed
      <4>5. QED
        BY <4>1, <4>2, <4>3, <4>4
    <3>3. QED
      BY <3>1, <3>2
  <2> HIDE DEF above
  <2>10. PICK deeper : deeper = above
    OBVIOUS
  <2>11. IsRank(deeper)'
    BY <2>1, <2>8, <2>9, <2>10 DEF IsRank
  <2>12. stack' \cap visited' = {}
    BY <2>1, <2>2, <2>6
  <2>13. taskId \notin visited'
    BY <2>1, <2>2
  <2>14. Ranked'
    BY <2>11 DEF Ranked
  <2>15. dependsOnId' \in visited' /\ taskId' \notin visited' /\ verdict' # "cycle"
    BY <1>1, <2>1, <2>4, <2>13
  <2>16. QED
    BY <2>12, <2>14, <2>15 DEF TreeInv
<1>2. ASSUME NEW current \in stack, verdict = "running", FindCycle(current)
      PROVE  TreeInv'
  BY <1>2 DEF FindCycle, TreeInv, Ranked, IsRank, Pushed
<1>3. CASE Accept
  BY <1>3 DEF Accept, TreeInv
<1>4. CASE UNCHANGED searchVars
  BY <1>4 DEF searchVars, TreeInv, Ranked, IsRank, Pushed
<1>5. QED
  BY <1>1, <1>2, <1>3, <1>4 DEF SearchNext, Pop, SearchDone

-----------------------------------------------------------------------------
\* The walk of reconstructCyclePath, cut off after n steps.
Walk(n, chain) ==
  chain = [k \in 0 .. n |->
             IF k = 0 THEN taskId
             ELSE IF chain[k - 1] = None THEN None ELSE parent[chain[k - 1]]]

LEMMA WalkExists == \A n \in Nat : \E chain : Walk(n, chain)
<1> DEFINE Bad == {n \in Nat : ~\E chain : Walk(n, chain)}
<1> SUFFICES ASSUME Bad # {} PROVE FALSE
  OBVIOUS
<1> DEFINE n == Min(Bad)
<1>1. n \in Bad /\ \A m \in Bad : n <= m
  <2>1. Bad \in SUBSET Nat
    OBVIOUS
  <2> HIDE DEF Bad
  <2>2. QED
    BY <2>1, MinOfNaturals
<1> HIDE DEF n
<1>2. CASE n = 0
  <2>1. Walk(0, [k \in 0 .. 0 |-> taskId])
    BY DEF Walk
  <2>2. QED
    BY <1>1, <1>2, <2>1
<1>3. CASE n # 0
  <2>1. n \in Nat /\ n - 1 \in Nat /\ n - 1 \notin Bad
    BY <1>1, <1>3
  <2>2. PICK chain : Walk(n - 1, chain)
    BY <2>1
  <2> DEFINE longer == [k \in 0 .. n |->
                          IF k < n THEN chain[k]
                          ELSE IF chain[n - 1] = None THEN None ELSE parent[chain[n - 1]]]
  <2>3. ASSUME NEW k \in 0 .. n
        PROVE  longer[k] = IF k = 0 THEN taskId
                           ELSE IF longer[k - 1] = None THEN None ELSE parent[longer[k - 1]]
    <3>1. CASE k < n
      <4>1. k \in 0 .. n - 1 /\ longer[k] = chain[k] /\ (k # 0 => longer[k - 1] = chain[k - 1])
        BY <2>1, <3>1
      <4>2. chain[k] = IF k = 0 THEN taskId
                       ELSE IF chain[k - 1] = None THEN None ELSE parent[chain[k - 1]]
        BY <2>2, <4>1 DEF Walk
      <4>3. QED
        BY <4>1, <4>2
    <3>2. CASE k = n
      BY <1>3, <2>1, <3>2
    <3>3. QED
      BY <2>1, <3>1, <3>2
  <2>4. longer = [k \in 0 .. n |-> longer[k]]
    OBVIOUS
  <2> HIDE DEF longer
  <2>5. Walk(n, longer)
    BY <2>3, <2>4 DEF Walk
  <2>6. QED
    BY <1>1, <2>5
<1>4. QED
  BY <1>2, <1>3

LEMMA CyclePathSteps ==
  /\ CyclePath[0] = taskId
  /\ \A k \in 1 .. Cardinality(Task) :
       CyclePath[k] = IF CyclePath[k - 1] = None THEN None ELSE parent[CyclePath[k - 1]]
<1> DEFINE N == Cardinality(Task)
           path == CHOOSE chain : Walk(N, chain)
<1>1. N \in Nat
  BY ResolverAssumption, FS_CardinalityType
<1>2. Walk(N, path)
  BY <1>1, WalkExists
<1>3. CyclePath = path
  BY DEF CyclePath, Walk
<1> HIDE DEF path, N
<1>4. /\ path[0] = taskId
      /\ \A k \in 1 .. N : path[k] = IF path[k - 1] = None THEN None ELSE parent[path[k - 1]]
  BY <1>1, <1>2 DEF Walk
<1>5. QED
  BY <1>3, <1>4 DEF N

\* From taskId the walk goes up one rank at a time.
LEMMA PathIsReal ==
  ASSUME SearchInv, TreeInv
  PROVE  CyclePathIsReal
<1> SUFFICES ASSUME verdict = "cycle" PROVE CyclePathIsReal
  BY DEF CyclePathIsReal
<1>1. taskId \in stack /\ taskId \notin visited /\ taskId \in Pushed
  BY DEF TreeInv, Pushed
<1>2. PICK rank : IsRank(rank)
  BY DEF TreeInv, Ranked
<1> DEFINE N == Cardinality(Task)
           r == rank[taskId]
<1>3. r \in Nat /\ N \in Nat /\ r + 1 <= N
  <2>1. r \in Nat /\ r <= Cardinality(visited)
    BY <1>1, <1>2 DEF IsRank
  <2>2. visited \subseteq Task \ {taskId} /\ taskId \in Task
    BY <1>1 DEF SearchInv, SearchTypeOK
  <2>3. /\ IsFiniteSet(Task \ {taskId}) /\ Cardinality(Task \ {taskId}) = N - 1 /\ N \in Nat
        /\ IsFiniteSet(visited) /\ Cardinality(visited) \in Nat
        /\ Cardinality(visited) <= Cardinality(Task \ {taskId})
    <3>1. IsFiniteSet(Task \ {taskId}) /\ Cardinality(Task \ {taskId}) = N - 1 /\ N \in Nat
      BY <2>2, ResolverAssumption, FS_RemoveElement, FS_CardinalityType
    <3>2. QED
      BY <2>2, <3>1, FS_Subset, FS_CardinalityType
  <2>4. QED
    BY <2>1, <2>3
<1> DEFINE Right(k) == CyclePath[k] \in Pushed /\ rank[CyclePath[k]] = r - k
           Bad == {k \in 0 .. r : ~Right(k)}
<1>4. \A k \in 0 .. r : Right(k)
  <2> SUFFICES ASSUME Bad # {} PROVE FALSE
    OBVIOUS
  <2> DEFINE k == Min(Bad)
  <2>1. k \in Bad /\ \A m \in Bad : k <= m
    <3>1. Bad \in SUBSET Nat
      OBVIOUS
    <3> HIDE DEF Bad
    <3>2. QED
      BY <3>1, MinOfNaturals
  <2> HIDE DEF k
  <2>2. Right(0)
    BY <1>1, <1>3, CyclePathSteps
  <2>3. k # 0 /\ k \in 0 .. r
    BY <2>1, <2>2
  <2>4. k - 1 \in 0 .. r /\ k - 1 \notin Bad
    BY <1>3, <2>1, <2>3
  <2>5. Right(k - 1)
    BY <2>4
  <2> DEFINE n == CyclePath[k - 1]
  <2>6. n \in Pushed /\ rank[n] = r - (k - 1)
    BY <2>5
  <2>7. CyclePath[k] = IF n = None THEN None ELSE parent[n]
    BY <1>3, <2>3, CyclePathSteps
  <2>8. n # None
    BY <2>6, ResolverAssumption DEF SearchInv, SearchTypeOK, Pushed
  <2> HIDE DEF n
  <2>9. n # dependsOnId
    <3>1. r - (k - 1) # 0
      BY <1>3, <2>3
    <3>2. QED
      BY <1>2, <2>6, <3>1 DEF IsRank
  <2>10. parent[n] \in Pushed /\ rank[n] = rank[parent[n]] + 1 /\ rank[parent[n]] \in Nat
    BY <1>2, <2>6, <2>9 DEF IsRank, Pushed
  <2>11. rank[parent[n]] = r - k
    BY <1>3, <2>3, <2>6, <2>10
  <2>12. Right(k)
    BY <2>7, <2>8, <2>10, <2>11
  <2>13. QED
    BY <2>1, <2>12
<1>5. \A k \in 0 .. r : /\ CyclePath[k] \in Pushed /\ CyclePath[k] # None
                         /\ rank[CyclePath[k]] = r - k
  BY <1>4, ResolverAssumption DEF SearchInv, SearchTypeOK, Pushed
<1>6. CyclePath[r] = dependsOnId
  <2>1. CyclePath[r] \in Pushed /\ rank[CyclePath[r]] = 0
    BY <1>3, <1>5
  <2>2. \A n \in Pushed : n # dependsOnId => rank[n] # 0
    <3>1. \A n \in visited : rank[n] \in Nat
      BY <1>2 DEF IsRank, Pushed
    <3>2. \A n \in Pushed : n # dependsOnId => parent[n] \in visited /\ rank[n] = rank[parent[n]] + 1
      BY <1>2 DEF IsRank
    <3>3. QED
      BY <3>1, <3>2
  <2>3. QED
    BY <2>1, <2>2
<1>7. CyclePath[r + 1] = None
  <2>1. CyclePath[r + 1] = parent[dependsOnId]
    BY <1>3, <1>5, <1>6, CyclePathSteps
  <2>2. dependsOnId \in Pushed
    BY <1>3, <1>5, <1>6
  <2>3. QED
    BY <1>2, <2>1, <2>2 DEF IsRank
<1>8. ASSUME NEW k \in 1 .. r PROVE <<CyclePath[k], CyclePath[k - 1]>> \in existingDeps
  <2> DEFINE n == CyclePath[k - 1]
  <2>1. k - 1 \in 0 .. r /\ r - (k - 1) # 0
    BY <1>3
  <2>2. n \in Pushed /\ n # None /\ rank[n] = r - (k - 1)
    BY <1>5, <2>1
  <2>3. CyclePath[k] = parent[n]
    BY <1>3, <2>2, CyclePathSteps
  <2> HIDE DEF n
  <2>4. n # dependsOnId
    BY <1>2, <2>1, <2>2 DEF IsRank
  <2>5. <<parent[n], n>> \in existingDeps
    BY <1>2, <2>2, <2>4 DEF IsRank
  <2>6. QED
    BY <2>3, <2>5 DEF n
<1> HIDE DEF r
<1>9. r + 1 \in 1 .. N /\ (r + 1) - 1 = r
  BY <1>3
<1>10. QED
  BY <1>6, <1>7, <1>8, <1>9 DEF CyclePathIsReal

\* reconstructCyclePath ends, and its path is a cycle of the graph: for any
\* graph and any order of the stack, however often a parent was overwritten.
THEOREM CyclePathReconstructed == SearchSpec => []CyclePathIsReal
<1>1. SearchInv /\ TreeInv /\ [SearchNext]_searchVars => SearchInv' /\ TreeInv'
  BY SearchStepInv, TreeStep
<1>2. QED
  BY <1>1, SearchInitInv, TreeInit, PathIsReal, PTL DEF SearchSpec
=============================================================================
