------------------------ MODULE DependencyResolver ------------------------
(***************************************************************************)
(* DependencyResolver.validateNoCycles: the depth-first search that walks  *)
(* from dependsOnId along "depends on" edges looking for taskId.  One step *)
(* per iteration of its while loop.                                        *)
(*                                                                         *)
(* The stack is kept as a set and any member may be popped.  That covers   *)
(* the code's last-in-first-out order, and a node the code has pushed      *)
(* twice: its second pop finds it in visited and does nothing.             *)
(***************************************************************************)
EXTENDS DependencyGraph, Naturals, FiniteSets

CONSTANT None           \* parent of the node the search starts from

ASSUME ResolverAssumption == None \notin Task /\ IsFiniteSet(Task)

VARIABLES
  existingDeps, taskId, dependsOnId,   \* the arguments
  stack, visited,                      \* as in the code
  parent,                              \* the Map parent, on the pushed nodes
  verdict                              \* "running", or how the call ended

searchVars == <<existingDeps, taskId, dependsOnId, stack, visited, parent, verdict>>

Verdicts == {"running", "accepted", "self", "cycle"}

Pushed == stack \cup visited

SearchTypeOK ==
  /\ existingDeps \in Graph
  /\ taskId \in Task /\ dependsOnId \in Task
  /\ stack \subseteq Task /\ visited \subseteq Task
  /\ parent \in [Pushed -> Task \cup {None}]
  /\ verdict \in Verdicts

\* The dependency table never holds a cycle (Calendar checks that it does not).
SearchInit ==
  /\ existingDeps \in {E \in Graph : Acyclic(E)}
  /\ taskId \in Task /\ dependsOnId \in Task
  /\ stack = IF taskId = dependsOnId THEN {} ELSE {dependsOnId}
  /\ visited = {}
  /\ parent = [n \in stack |-> None]
  /\ verdict = IF taskId = dependsOnId THEN "self" ELSE "running"

\* if (current === taskId) throw CircularDependencyError
FindCycle(current) ==
  /\ current = taskId
  /\ verdict' = "cycle"
  /\ UNCHANGED <<existingDeps, taskId, dependsOnId, stack, visited, parent>>

\* Mutant: the edges are followed the wrong way.
VisitDependents(current) ==
  LET fresh == {n \in Task : <<n, current>> \in existingDeps} \ (visited \cup {current})
  IN  /\ current # taskId
      /\ visited' = visited \cup {current}
      /\ stack' = (stack \ {current}) \cup fresh
      /\ parent' = [n \in Pushed \cup fresh |-> IF n \in fresh THEN current ELSE parent[n]]
      /\ UNCHANGED <<existingDeps, taskId, dependsOnId, verdict>>

\* Mutant: every node gets the node the search began with as its parent.
VisitKeepsRoot(current) ==
  LET fresh == {n \in Task : <<current, n>> \in existingDeps} \ (visited \cup {current})
  IN  /\ current # taskId
      /\ visited' = visited \cup {current}
      /\ stack' = (stack \ {current}) \cup fresh
      /\ parent' = [n \in Pushed \cup fresh |-> IF n \in fresh THEN dependsOnId ELSE parent[n]]
      /\ UNCHANGED <<existingDeps, taskId, dependsOnId, verdict>>

\* Mutant: the top of the stack is looked at and not popped.
VisitPeeks(current) ==
  LET fresh == {n \in Task : <<current, n>> \in existingDeps} \ (visited \cup {current})
  IN  /\ current # taskId
      /\ visited' = visited \cup {current}
      /\ stack' = stack \cup fresh
      /\ parent' = [n \in Pushed \cup fresh |-> IF n \in fresh THEN current ELSE parent[n]]
      /\ UNCHANGED <<existingDeps, taskId, dependsOnId, verdict>>

\* visited.add(current), then push the neighbours not visited yet.
Visit(current) ==
  LET neighbours == {n \in Task : <<current, n>> \in existingDeps}
      fresh == neighbours \ (visited \cup {current})
  IN  /\ current # taskId
      /\ visited' = visited \cup {current}
      /\ stack' = (stack \ {current}) \cup fresh
      /\ parent' = [n \in Pushed \cup fresh |->
                      IF n \in fresh THEN current ELSE parent[n]]
      /\ UNCHANGED <<existingDeps, taskId, dependsOnId, verdict>>

\* The loop ends with an empty stack: return true.
Accept ==
  /\ verdict = "running"
  /\ stack = {}
  /\ verdict' = "accepted"
  /\ UNCHANGED <<existingDeps, taskId, dependsOnId, stack, visited, parent>>

Pop(current) == verdict = "running" /\ (FindCycle(current) \/ Visit(current))

SearchDone == verdict # "running" /\ UNCHANGED searchVars

SearchNext == Accept \/ SearchDone \/ \E current \in stack : Pop(current)

SearchSpec == SearchInit /\ [][SearchNext]_searchVars
FairSearchSpec == SearchSpec /\ WF_searchVars(SearchNext)

-----------------------------------------------------------------------------
(***************************************************************************)
(* reconstructCyclePath follows parent from taskId to the node without     *)
(* one; chain[k] is the node it has reached after k steps.                 *)
(***************************************************************************)
CyclePath ==
  LET chain[k \in 0 .. Cardinality(Task)] ==
        IF k = 0 THEN taskId
        ELSE IF chain[k - 1] = None THEN None ELSE parent[chain[k - 1]]
  IN  chain

\* The search accepts a dependency exactly when it closes no cycle with the
\* existing ones, and refuses it exactly otherwise.
VerdictCorrect ==
  /\ verdict = "accepted" => MayDependOn(existingDeps, taskId, dependsOnId)
  /\ verdict \in {"self", "cycle"} => ~MayDependOn(existingDeps, taskId, dependsOnId)

\* The cycle put in the error is a real one: the parent map leads from taskId
\* back to dependsOnId along existing edges, however often a node not yet
\* visited has had its parent overwritten, so the walk over it ends.
CyclePathIsReal ==
  verdict = "cycle" =>
    \E n \in 1 .. Cardinality(Task) :
      /\ CyclePath[n] = None
      /\ CyclePath[n - 1] = dependsOnId
      /\ \A k \in 1 .. n - 1 : <<CyclePath[k], CyclePath[k - 1]>> \in existingDeps

\* The search ends on every graph.
SearchEnds == <>(verdict # "running")
=============================================================================
