------------------------------ MODULE JobPool ------------------------------
(***************************************************************************)
(* What threadpool.addjob promises: a job that was added is run once, after *)
(* it was added, and jobs may run side by side in any order.               *)
(***************************************************************************)
CONSTANT Job
VARIABLE status    \* of each job

Init == status = [j \in Job |-> "new"]

Move(j, from, to) == status[j] = from /\ status' = [status EXCEPT ![j] = to]

Add(j)    == Move(j, "new", "added")
Start(j)  == Move(j, "added", "running")
Finish(j) == Move(j, "running", "done")

Next == \E j \in Job : Add(j) \/ Start(j) \/ Finish(j)

Spec == Init /\ [][Next]_status
=============================================================================
