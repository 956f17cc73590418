--------------------------- MODULE ReplanPromise ---------------------------
(***************************************************************************)
(* What the replan coordinator promises the rest of the server, without    *)
(* its timer, flags and callback list: requests coalesce, a planner takes  *)
(* them up one run at a time, and a caller of the replan tool is answered  *)
(* only when every request made before its call has been through a run.    *)
(* A restart forgets everything that was kept in memory.                   *)
(***************************************************************************)
CONSTANT Calls          \* the replan tool calls that may be outstanding

VARIABLES
  requested,            \* a request no run has taken up yet
  running,              \* a run is in progress
  waiting,              \* the calls not answered yet
  owing                 \* the waiting calls whose earlier requests are not through

promiseVars == <<requested, running, waiting, owing>>

PromiseInit ==
  /\ requested = FALSE
  /\ running = FALSE
  /\ waiting = {}
  /\ owing = {}

Request ==
  /\ requested' = TRUE
  /\ UNCHANGED <<running, waiting, owing>>

Call(c) ==
  /\ c \notin waiting
  /\ waiting' = waiting \cup {c}
  /\ owing' = IF requested \/ running THEN owing \cup {c} ELSE owing
  /\ UNCHANGED <<requested, running>>

Start ==
  /\ requested
  /\ ~running
  /\ requested' = FALSE
  /\ running' = TRUE
  /\ UNCHANGED <<waiting, owing>>

End ==
  /\ running
  /\ running' = FALSE
  /\ owing' = IF requested THEN owing ELSE {}
  /\ UNCHANGED <<requested, waiting>>

Reply(c) ==
  /\ c \in waiting \ owing
  /\ waiting' = waiting \ {c}
  /\ UNCHANGED <<requested, running, owing>>

Restart ==
  /\ requested' = FALSE
  /\ running' = FALSE
  /\ waiting' = {}
  /\ owing' = {}

PromiseNext ==
  \/ Request
  \/ Start
  \/ End
  \/ Restart
  \/ \E c \in Calls : Call(c) \/ Reply(c)

PromiseFairness ==
  /\ WF_promiseVars(Start)
  /\ WF_promiseVars(End)
  /\ \A c \in Calls : WF_promiseVars(Reply(c))

PromiseSpec == PromiseInit /\ [][PromiseNext]_promiseVars /\ PromiseFairness
=============================================================================
