------------------------------ MODULE AsyncJobs ------------------------------
(***************************************************************************)
(* What Prefer: respond-async promises, whatever runs the jobs: a request  *)
(* that got a 202 has a job, which is settled once and stays settled, and  *)
(* whoever polls for it is told how that job stands and nothing else.      *)
(* Nothing is promised beyond the life of the process.                     *)
(***************************************************************************)
CONSTANT Request

VARIABLES
  job,    \* request -> "none", "pending", "done" or "lost"
  told    \* request -> what its last poll was told

vars == <<job, told>>

Init ==
  /\ job = [r \in Request |-> "none"]
  /\ told = [r \in Request |-> "nothing"]

Move(r, from, to) ==
  /\ job[r] = from
  /\ job' = [job EXCEPT ![r] = to]
  /\ UNCHANGED told

Submit(r) == Move(r, "none", "pending")
Settle(r) == Move(r, "pending", "done")

Tell(r) ==
  /\ job[r] \in {"pending", "done"}
  /\ told' = [told EXCEPT ![r] = job[r]]
  /\ UNCHANGED job

(* A poll for a job of an earlier process finds nothing, or a stranger's. *)
Stray(r) ==
  /\ job[r] = "lost"
  /\ told' = [told EXCEPT ![r] = "nothing"]
  /\ UNCHANGED job

(* The process dies: every job that it had is lost. *)
Lose ==
  /\ job' = [r \in Request |-> IF job[r] = "none" THEN "none" ELSE "lost"]
  /\ UNCHANGED told

Next ==
  \/ \E r \in Request : Submit(r) \/ Settle(r) \/ Tell(r) \/ Stray(r)
  \/ Lose

Spec == Init /\ [][Next]_vars /\ \A r \in Request : WF_vars(Settle(r))
==============================================================================
