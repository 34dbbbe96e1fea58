----------------------------- MODULE Refinement -----------------------------
(***************************************************************************)
(* Cluster implements Jobs.                                                *)
(***************************************************************************)
EXTENDS Cluster

\* The waiter's verdict ends the process; a success is one of the child's own status.
ProcessOf(t) ==
    CASE proc[t] \in {"none", "received"} -> "none"
      [] proc[t] = "refused" -> "refused"
      [] proc[t] \in {"running", "exited", "terminating"} -> "live"
      [] OTHER -> IF verdict[t] /\ exitOk[t] THEN "succeeded" ELSE "failed"

RecordOf(t) ==
    CASE rows[t].status = "absent" -> "none"
      [] IsOpen(rows[t]) -> "open"
      [] OTHER -> rows[t].status

AnswerOf(j) ==
    CASE Finished(j) -> rpc[j]
      [] rpc[j] \in RunEnded \ {"ok", "failed"} -> "gone"
      [] OTHER -> "none"

HasEnded(c) == link[c] \in {"closed", "reset"}

\* A task is disturbed by a kill request for its job, by the end of its connection, and
\* by a Close frame on any connection of its node: mark_node_lost clears the node's
\* handle, whichever connection it belongs to.
Disturbed ==
    {t \in Task :
        \/ kpc[JobOf(t)] # "idle"
        \/ HasEnded(ConnOf(t))
        \/ \E c \in Conn : NodeOf(c) = NodeOf(ConnOf(t)) /\ link[c] = "closed"}

Promise == INSTANCE Jobs WITH
    asked <- assigned,
    process <- [t \in Task |-> ProcessOf(t)],
    record <- [t \in Task |-> RecordOf(t)],
    exits <- {t \in Task : rows[t].exited},
    answer <- [j \in Job |-> AnswerOf(j)],
    disturbed <- Disturbed

\* Whatever handlers, channels and races are in between, the client, the store and the
\* processes only ever take the steps that Jobs allows.
ImplementsJobs == Promise!Spec
=============================================================================
