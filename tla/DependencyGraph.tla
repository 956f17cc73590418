-------------------------- MODULE DependencyGraph --------------------------
(***************************************************************************)
(* The dependency table as a digraph: <<t, d>> \in E is the row that says  *)
(* task t depends on task d (task_id, depends_on_id).                      *)
(***************************************************************************)
CONSTANT Task

Graph == SUBSET (Task \X Task)

Closed(E, S) == \A e \in E : e[1] \in S => e[2] \in S

\* b is reached from a along E: it is in every closed set that holds a.
Reaches(E, a, b) == \A S \in SUBSET Task : a \in S /\ Closed(E, S) => b \in S

\* No cycle: every nonempty set has a task that depends on none in the set.
Acyclic(E) ==
  \A S \in (SUBSET Task) \ {{}} : \E x \in S : \A y \in S : <<x, y>> \notin E

\* Mutant: the search starts from the wrong end of the new edge.
MayDependOnBackwards(E, t, d) == t # d /\ ~Reaches(E, t, d)

\* What validateNoCycles lets pass.
MayDependOn(E, t, d) == t # d /\ ~Reaches(E, d, t)

(***************************************************************************)
(* getBlockedTasks and orderSchedulableTasks. The resolver is given the    *)
(* active tasks only, so a dependency that is completed, or cancelled, is  *)
(* not in its map and does not block.                                      *)
(***************************************************************************)
BlockedTasks(active, E) ==
  {t \in active : \E d \in active : <<t, d>> \in E}

Schedulable(active, E) == active \ BlockedTasks(active, E)
=============================================================================
