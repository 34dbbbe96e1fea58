------------------------------ MODULE Launcher ------------------------------
(***************************************************************************)
(* crates/runtime, `agent-runtime start` in foreground mode: on a master   *)
(* host it starts a coordinator and a worker, on the others a worker, and  *)
(* supervises them until a signal or the end of a child.                   *)
(*                                                                         *)
(* The children are processes of their own: dropping a Child handle, as an *)
(* early return does, neither stops nor reaps them.                        *)
(***************************************************************************)
EXTENDS Naturals

CONSTANTS
    Host,      \* the machines, one launcher each
    Master     \* the hosts whose role is master

ASSUME MasterAssumption == Master \subseteq Host

VARIABLES
    lpc,       \* lpc[h]: where the launcher stands, or how it ended
    child,     \* child[h][k]: the child process k of host h
    asked      \* asked[h]: terminate_requested, the flag of the signal handlers

vars == <<lpc, child, asked>>

Kind == {"coordinator", "worker"}

\* "ok" and "bad" have exited, and the launcher has not seen it; "gone" has been
\* waited for.
ChildState == {"none", "running", "ok", "bad", "gone"}

LauncherEnded == {"succeeded", "failed"}
LauncherPC == {"start", "pause", "checkSignal", "checkFirst", "checkSecond",
               "killFirst", "killSecond"} \cup LauncherEnded

TypeOK ==
    /\ lpc \in [Host -> LauncherPC]
    /\ child \in [Host -> [Kind -> ChildState]]
    /\ asked \in [Host -> BOOLEAN]

\* The signal handlers are installed.
Init ==
    /\ lpc = [h \in Host |-> "start"]
    /\ child = [h \in Host |-> [k \in Kind |-> "none"]]
    /\ asked = [h \in Host |-> FALSE]

\* The child has exited on its own.
HasExited(h, k) == child[h][k] \in {"ok", "bad"}

LauncherGoto(h, pc) == lpc' = [lpc EXCEPT ![h] = pc]

Spawn(h, k) == child' = [child EXCEPT ![h][k] = "running"]

\* try_wait gave a status, or kill and wait did their work on a child that has one
\* still to give.
WaitedFor(h, k) == child' = [child EXCEPT ![h][k] = "gone"]

------------------------------------------------------------------------------
(* start_foreground *)

\* A master starts its coordinator and sleeps for a second ...
StartCoordinator(h) ==
    /\ h \in Master
    /\ lpc[h] = "start"
    /\ Spawn(h, "coordinator")
    /\ LauncherGoto(h, "pause")
    /\ UNCHANGED asked

\* ... before it starts its worker; the other hosts start their worker at once.
MayStartWorker(h) == lpc[h] = (IF h \in Master THEN "pause" ELSE "start")

StartWorker(h) ==
    /\ MayStartWorker(h)
    /\ Spawn(h, "worker")
    /\ LauncherGoto(h, "checkSignal")
    /\ UNCHANGED asked

\* spawn_logged fails: `?` ends the launcher, and a coordinator it has started goes on.
SpawnFails(h) ==
    /\ lpc[h] \in {"start", "pause"}
    /\ LauncherGoto(h, "failed")
    /\ UNCHANGED <<child, asked>>

------------------------------------------------------------------------------
(* wait_for_children on a master, wait_for_child on the other hosts *)

CheckSignal(h) ==
    /\ lpc[h] = "checkSignal"
    /\ LauncherGoto(h, IF asked[h] THEN IF h \in Master THEN "killFirst" ELSE "killSecond"
                       ELSE IF h \in Master THEN "checkFirst" ELSE "checkSecond")
    /\ UNCHANGED <<child, asked>>

\* Mutant of CheckFirst: the end of the coordinator is reported, its worker left alone.
CheckFirstOnly(h) ==
    /\ lpc[h] = "checkFirst"
    /\ IF HasExited(h, "coordinator")
       THEN WaitedFor(h, "coordinator") /\ LauncherGoto(h, "failed")
       ELSE LauncherGoto(h, "checkSecond") /\ UNCHANGED child
    /\ UNCHANGED asked

\* The coordinator has exited: its worker is killed.
CheckFirst(h) ==
    /\ lpc[h] = "checkFirst"
    /\ IF HasExited(h, "coordinator")
       THEN WaitedFor(h, "coordinator") /\ LauncherGoto(h, "killSecond")
       ELSE LauncherGoto(h, "checkSecond") /\ UNCHANGED child
    /\ UNCHANGED asked

\* Mutant of CheckSecond: the loop turns below the look at the flag.
CheckSecondTurns(h) ==
    /\ lpc[h] = "checkSecond"
    /\ IF HasExited(h, "worker")
       THEN /\ WaitedFor(h, "worker")
            /\ LauncherGoto(h, IF h \in Master THEN "killFirst"
                               ELSE IF child[h]["worker"] = "ok" THEN "succeeded"
                               ELSE "failed")
       ELSE /\ LauncherGoto(h, IF h \in Master THEN "checkFirst" ELSE "checkSecond")
            /\ UNCHANGED child
    /\ UNCHANGED asked

\* The worker has exited: a master kills its coordinator, another host is done.  If
\* not, the loop sleeps and turns.
CheckSecond(h) ==
    /\ lpc[h] = "checkSecond"
    /\ IF HasExited(h, "worker")
       THEN /\ WaitedFor(h, "worker")
            /\ LauncherGoto(h, IF h \in Master THEN "killFirst"
                               ELSE IF child[h]["worker"] = "ok" THEN "succeeded"
                               ELSE "failed")
       ELSE LauncherGoto(h, "checkSignal") /\ UNCHANGED child
    /\ UNCHANGED asked

\* Mutant of KillSecond: the handle is dropped, which does not stop the child.
KillSecondDrops(h) ==
    /\ lpc[h] = "killSecond"
    /\ LauncherGoto(h, "failed")
    /\ UNCHANGED <<child, asked>>

\* terminate_child: SIGKILL, then wait.  A child that was waited for stays as it is.
\* After a signal the coordinator is first and the worker second; after the worker's
\* end only the coordinator is left to kill.
KillFirst(h) ==
    /\ lpc[h] = "killFirst"
    /\ WaitedFor(h, "coordinator")
    /\ LauncherGoto(h, IF child[h]["worker"] = "gone" THEN "failed" ELSE "killSecond")
    /\ UNCHANGED asked

KillSecond(h) ==
    /\ lpc[h] = "killSecond"
    /\ WaitedFor(h, "worker")
    /\ LauncherGoto(h, "failed")
    /\ UNCHANGED asked

------------------------------------------------------------------------------
(* What the launcher does not decide *)

ChildEnds(h, k) ==
    /\ child[h][k] = "running"
    /\ \E status \in {"ok", "bad"} : child' = [child EXCEPT ![h][k] = status]
    /\ UNCHANGED <<lpc, asked>>

\* SIGINT or SIGTERM
Signal(h) ==
    /\ lpc[h] \notin LauncherEnded
    /\ ~asked[h]
    /\ asked' = [asked EXCEPT ![h] = TRUE]
    /\ UNCHANGED <<lpc, child>>

LauncherStep(h) ==
    \/ StartCoordinator(h) \/ StartWorker(h) \/ SpawnFails(h)
    \/ CheckSignal(h) \/ CheckFirst(h) \/ CheckSecond(h)
    \/ KillFirst(h) \/ KillSecond(h)

Next ==
    \E h \in Host : LauncherStep(h) \/ Signal(h) \/ \E k \in Kind : ChildEnds(h, k)

\* The launcher's thread goes on running, its sleeps end, and a killed child dies.
\* Nothing is assumed of signals, and nothing of children before they are killed.
Spec == Init /\ [][Next]_vars
FairSpec == Spec /\ \A h \in Host : WF_vars(LauncherStep(h))

------------------------------------------------------------------------------
\* A launcher that came to watch its children leaves none of them running, whether it
\* ends by a signal, by the end of a child, or by several of these at once.  A
\* launcher that could not start its worker is left out: it does leave its coordinator.
NoOrphans ==
    \A h \in Host : lpc[h] \in LauncherEnded /\ child[h]["worker"] # "none" =>
        \A k \in Kind : child[h][k] # "running"

\* Whenever the coordinator of a master ends, before its worker is started, while both
\* are watched or during a shutdown, the worker is stopped for good.
WorkerFollowsCoordinator ==
    \A h \in Master :
        child[h]["coordinator"] \in {"ok", "bad", "gone"} ~> [](child[h]["worker"] # "running")

\* A signal ends the launcher, also one that comes while it is still starting children.
SignalEnds == \A h \in Host : asked[h] ~> lpc[h] \in LauncherEnded
=============================================================================
