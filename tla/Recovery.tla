------------------------------ MODULE Recovery ------------------------------
(***************************************************************************)
(* The coordinator stops at any moment and is started again on the same    *)
(* database.  main opens the store, and begins with an empty registry, no  *)
(* lease and a new broadcast.  Workers find their connection reset and     *)
(* come back through the connect loop, each with a new executor; the       *)
(* children of the old one go on and nobody hears of them.  Nothing reads  *)
(* the rows of tasks that were open: they stay as they are.                *)
(***************************************************************************)
EXTENDS Refinement

CONSTANT Restarts   \* bound: how often the coordinator is restarted

ASSUME RestartsAssumption == Restarts \in Nat

VARIABLE restarts   \* restarts: how often it has been

recoveryVars == <<vars, restarts>>

RInit == Init /\ restarts = 0

\* What a run request had recorded when the coordinator stopped in the middle of its
\* critical section: some of the nodes it selected, or nothing.
HalfRecorded ==
    \/ UNCHANGED <<rows, assigned, under>>
    \/ \E j \in Job, l \in Lease \cup {NoLease}, named \in SUBSET Node :
        /\ rpc[j] = "subscribed"
        /\ Admissible(l, named)
        /\ \E nodes \in SUBSET (RequestedNodes(l, named, Connected) \cap Connected) :
            /\ rows' = RecordTaskDispatched(rows, TasksOf(j, nodes))
            /\ assigned' = [assigned EXCEPT ![j] = TasksOf(j, nodes)]
        /\ under' = [under EXCEPT ![j] = l]

\* The handlers end where they stand.  A run request that was not over is aborted,
\* a kill request fails: the connection of its client is reset.
HandlersEnd ==
    /\ hpc' = [c \in Conn |-> IF link[c] = "idle" THEN hpc[c] ELSE "gone"]
    /\ lost' = [c \in Conn |-> {}]
    /\ writer' = [c \in Conn |-> "down"]
    /\ rpc' = [j \in Job |-> IF rpc[j] \in {"idle"} \cup RunEnded THEN rpc[j] ELSE "aborted"]
    /\ queue' = [j \in Job |-> {}]
    /\ pending' = [j \in Job |-> {}]
    /\ sub' = [j \in Job |-> <<>>]
    /\ kpc' = [j \in Job |-> IF kpc[j] = "sending" THEN "failed" ELSE kpc[j]]
    /\ targets' = [j \in Job |-> {}]
    /\ UNCHANGED <<cur, allOk, shown>>

RegistryIsNew ==
    /\ handle' = [n \in Node |-> NoHandle]
    /\ running' = [n \in Node |-> {}]
    /\ leases' = [l \in Lease |-> IF Held(l) THEN [leases[l] EXCEPT !.state = "released"]
                                             ELSE leases[l]]

ConnectionsReset ==
    /\ link' = [c \in Conn |-> IF link[c] \in {"open", "deaf"} THEN "reset" ELSE link[c]]
    /\ toCoord' = [c \in Conn |-> <<>>]
    /\ toWorker' = [c \in Conn |-> <<>>]
    /\ events' = [t \in Task |-> <<>>]
    /\ UNCHANGED <<proc, exitOk, verdict, output>>

\* Mutant of CoordinatorRestarts: the database is a new one.
RestartsAfresh ==
    /\ restarts < Restarts
    /\ restarts' = restarts + 1
    /\ rows' = [t \in Task |-> NoRow]
    /\ UNCHANGED <<assigned, under>>
    /\ HandlersEnd /\ RegistryIsNew /\ ConnectionsReset

CoordinatorRestarts ==
    /\ restarts < Restarts
    /\ restarts' = restarts + 1
    /\ HalfRecorded /\ HandlersEnd /\ RegistryIsNew /\ ConnectionsReset

RNext == (Next /\ UNCHANGED restarts) \/ CoordinatorRestarts

RSpec == RInit /\ [][RNext]_recoveryVars
=============================================================================
