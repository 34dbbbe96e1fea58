----------------------------- MODULE MCRequests -----------------------------
(***************************************************************************)
(* Small instances of Requests.                                            *)
(***************************************************************************)
EXTENDS Requests

CONSTANTS torch, lease, n1, n2

TwoClients == {torch, lease}
TorchClient == {torch}
LeaseClient == {lease}
TwoNodes == {n1, n2}

\* The torchrun's user names both nodes, or none; the lease request names none.
UserLists == [r \in TwoClients |-> IF r = lease THEN {<<>>} ELSE {<<>>, <<n1, n2>>}]
OneNodeLeases == {<<n1>>}
=============================================================================
