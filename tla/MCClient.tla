------------------------------ MODULE MCClient ------------------------------
(* Instances of Client for TLC. *)
EXTENDS Client

O(type, value) == [type |-> type, value |-> value]

\* The task has a queue and a timeout of its own.
MCTaskOpts == <<O("queue", 2), O("timeout", 5)>>

\* Conflicting options, blank names, fractions of a second, times in the past.
\* One of them is short enough for the task's own array.
MCChoices == {
  <<O("timeout", 0)>>,
  <<O("deadline", 7), O("taskID", 1)>>,
  <<O("timeout", 0), O("deadline", 9), O("queue", 1), O("taskID", 1)>>,
  <<O("processAt", 9), O("unique", 2), O("processIn", 3)>>,
  <<O("unique", 3), O("taskID", 1), O("retry", 0)>>,
  <<O("queue", 1), O("queue", 0)>> }

\* Two that are.
RaceChoices == {<<O("timeout", 3)>>, <<O("timeout", 8)>>}
==============================================================================
