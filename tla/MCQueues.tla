------------------------------ MODULE MCQueues ------------------------------
EXTENDS Queues, TLC

\* Two of the queues are equal; all have a common divisor.
Strict == [queues |-> "high" :> 4 @@ "mid" :> 2 @@ "low" :> 2, strict |-> TRUE]
Weighted == [queues |-> "high" :> 6 @@ "mid" :> 4 @@ "low" :> 2, strict |-> FALSE]
\* No common divisor; a queue that is ignored and a blank name.
Some == [queues |-> "high" :> 3 @@ "low" :> 2 @@ "mid" :> 0 @@ " " :> 1, strict |-> FALSE]
\* Nothing but the default is left.
None == [queues |-> "mid" :> -1, strict |-> TRUE]

Given == {Strict, Weighted, Some, None}
=============================================================================
