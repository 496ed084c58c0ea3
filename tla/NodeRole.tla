------------------------------ MODULE NodeRole ------------------------------
(***************************************************************************)
(* What the server may rely on in a node, for each task it announces: a    *)
(* claim, at most one purchase of the archive for it, and at most one      *)
(* result, a success only for what was bought.  Scheduler.tla and          *)
(* Gallery.tla let nodes do no more than that; NodeWorker.tla is a node.   *)
(***************************************************************************)
CONSTANT Task
VARIABLE role    \* role[t]: how far the node has come with t

Role == {"none", "claimed", "assigned", "bought", "success", "failure", "over"}
Final == {"success", "failure", "over"}

Init == role = [t \in Task |-> "none"]

Become(t, from, to) == role[t] = from /\ role' = [role EXCEPT ![t] = to]

Claim(t) == Become(t, "none", "claimed")
Accept(t) == Become(t, "claimed", "assigned")
Buy(t) == Become(t, "assigned", "bought")
Report(t) == Become(t, "bought", "success") \/ Become(t, "assigned", "failure")

\* The node is not interested, the server refuses, messages are lost with the
\* connection, or the process ends with tasks in hand.
Forget(S) == role' = [t \in Task |-> IF t \in S \ {u \in Task : role[u] \in Final}
                                     THEN "over" ELSE role[t]]

Next ==
  \/ \E t \in Task : Claim(t) \/ Accept(t) \/ Buy(t) \/ Report(t)
  \/ \E S \in SUBSET Task : Forget(S)

Spec == Init /\ [][Next]_role
=============================================================================
