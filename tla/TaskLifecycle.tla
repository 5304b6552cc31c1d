---------------------------- MODULE TaskLifecycle ----------------------------
(***************************************************************************)
(* What a queue promises about one task ID, whatever clients, workers,     *)
(* recoverers and janitors do and in whatever order: the stages of the     *)
(* state field (base.TaskState) and the only moves between them.  A task   *)
(* that was accepted leaves the queue only from "active" (it was run and   *)
(* acknowledged), from "completed" (its retention is over) or from         *)
(* "archived" (the archive is trimmed): it is never dropped while it       *)
(* still waits to be run.                                                  *)
(***************************************************************************)
CONSTANT TaskID

VARIABLE stage      \* stage[id]: where the task with this ID is

Stage == {"absent", "pending", "active", "scheduled", "retry", "archived",
          "completed"}

In(s) == {id \in TaskID : stage[id] = s}

TypeOK == stage \in [TaskID -> Stage]

Init == stage = [id \in TaskID |-> "absent"]

\* The IDs of S go to stage t, the others stay.
MoveAll(S, t) == stage' = [id \in TaskID |-> IF id \in S THEN t ELSE stage[id]]

\* A client submits a task, to run at once or later.
Submit(id) == /\ stage[id] = "absent"
              /\ \/ MoveAll({id}, "pending")
                 \/ MoveAll({id}, "scheduled")

\* A worker takes the task.
Start(id) == stage[id] = "pending" /\ MoveAll({id}, "active")

\* The task leaves its worker: acknowledged, kept for its retention, put
\* back, or to be tried again.
Leave(id) == /\ stage[id] = "active"
             /\ \/ MoveAll({id}, "absent")
                \/ MoveAll({id}, "completed")
                \/ MoveAll({id}, "pending")
                \/ MoveAll({id}, "retry")

\* The task will not be tried again; the archive may drop other tasks for it.
Bury(id) == /\ stage[id] = "active"
            /\ \E evicted \in SUBSET In("archived") :
                 stage' = [x \in TaskID |-> IF x = id THEN "archived"
                                            ELSE IF x \in evicted THEN "absent"
                                            ELSE stage[x]]

\* Tasks whose time has come are made ready.
Promote == \E s \in {"scheduled", "retry"} : \E S \in SUBSET In(s) :
             MoveAll(S, "pending")

\* Completed tasks are forgotten when their retention is over.
Purge == \E S \in SUBSET In("completed") : MoveAll(S, "absent")

Next == \/ \E id \in TaskID : Submit(id) \/ Start(id) \/ Leave(id) \/ Bury(id)
        \/ Promote
        \/ Purge

Spec == Init /\ [][Next]_stage
==============================================================================
