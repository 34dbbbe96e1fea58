------------------------------- MODULE Leases -------------------------------
(***************************************************************************)
(* AppState.inner.leases and what create_lease, release_lease and          *)
(* run_process do with it.  The node registry lies under the same mutex;   *)
(* the operators here take the set of connected nodes as a parameter.      *)
(*                                                                         *)
(* A lease id is fresh (a UUID): an id is "unused", then "held", then      *)
(* "released", and is never used again.                                    *)
(***************************************************************************)
EXTENDS Wire

CONSTANTS
    Lease,     \* bound: the create_lease requests that succeed
    NoLease    \* the lease of a run request that names none

ASSUME NoLeaseAssumption == NoLease \notin Lease

VARIABLE leases   \* leases[l]: the record of lease l

LeaseRecord == [state : {"unused", "held", "released"},
                nodes : SUBSET Node, exclusive : BOOLEAN]

LeasesTypeOK == leases \in [Lease -> LeaseRecord]

LeasesInit ==
    leases = [l \in Lease |-> [state |-> "unused", nodes |-> {}, exclusive |-> FALSE]]

Held(l) == l \in Lease /\ leases[l].state = "held"

\* The node sets create_lease can come to: the named nodes, if all are connected;
\* or, when none is named, as many connected nodes as asked for, but at least one
\* and at most those there are, taken in the order of a hash map.
Candidates(connected) ==
    {nodes \in SUBSET connected : nodes # {}}

\* Mutant of Conflict: only the request's own wish to be exclusive counts.
ConflictOfRequest(l, nodes, exclusive) ==
    /\ leases[l].state = "held"
    /\ leases[l].nodes \cap nodes # {}
    /\ exclusive

\* A lease and a request may share a node only if neither is exclusive.
Conflict(l, nodes, exclusive) ==
    /\ leases[l].state = "held"
    /\ leases[l].nodes \cap nodes # {}
    /\ leases[l].exclusive \/ exclusive

\* create_lease, the check against every lease and the insert in one critical
\* section.  A request that conflicts, or selects no node, is refused and leaves
\* the table alone.
GrantLease(l, connected) ==
    /\ leases[l].state = "unused"
    /\ \E nodes \in Candidates(connected), exclusive \in BOOLEAN :
        /\ \A other \in Lease : ~Conflict(other, nodes, exclusive)
        /\ leases' = [leases EXCEPT ![l] =
                [state |-> "held", nodes |-> nodes, exclusive |-> exclusive]]

\* release_lease: whatever runs on the nodes goes on running.
DropLease(l) ==
    /\ Held(l)
    /\ leases' = [leases EXCEPT ![l].state = "released"]

\* Mutant of Admissible: any node may be named next to a lease.
AdmissibleAnywhere(l, named) == l = NoLease \/ Held(l)

\* run_process accepts the lease and the nodes a request names: the lease exists,
\* and every named node is one of its nodes.
Admissible(l, named) ==
    l = NoLease \/ (Held(l) /\ named \subseteq leases[l].nodes)

\* The nodes an admissible request is for: those it names, else its lease's, else
\* all that are connected.
RequestedNodes(l, named, connected) ==
    IF named # {} THEN named
    ELSE IF l # NoLease THEN leases[l].nodes
    ELSE connected

------------------------------------------------------------------------------
\* Two leases that hold the same node are both shared.
ExclusiveLeases ==
    \A l, m \in Lease :
        /\ Held(l) /\ Held(m) /\ l # m
        /\ leases[l].nodes \cap leases[m].nodes # {}
        => ~leases[l].exclusive /\ ~leases[m].exclusive

=============================================================================
