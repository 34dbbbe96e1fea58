------------------------------ MODULE MCCluster ------------------------------
(***************************************************************************)
(* Small instances of Cluster.                                             *)
(***************************************************************************)
EXTENDS Refinement, TLC

CONSTANTS n1, n2, j1, j2, l1, l2, l3

OneNode == {n1}
TwoNodes == {n1, n2}
OneJob == {j1}
TwoJobs == {j1, j2}
FirstJob == {j1}
SecondJob == {j2}
NoJob == {}
Closed == {"closed"}
Reset == {"reset"}
AnyBreak == {"closed", "reset", "deaf"}
NoBreak == {}
NoneLeased == {}
ThreeLeases == {l1, l2, l3}

\* The assignments of a run are made before it is announced to its client: a run that
\* asks about assignments alone stops there.
UpToSelection == \A j \in Job : rpc[j] # "dispatch"
=============================================================================
