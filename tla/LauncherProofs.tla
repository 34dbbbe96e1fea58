--------------------------- MODULE LauncherProofs ---------------------------
(***************************************************************************)
(* Proofs about Launcher.                                                  *)
(***************************************************************************)
EXTENDS Launcher, TLAPS

\* What each place of the launcher knows of its children: only a master has a coordinator
\* to kill; a place where the worker is still to be started has none; a kill of the worker
\* comes last, when the coordinator is no longer running.
Supervised ==
    \A h \in Host :
        /\ h \notin Master => child[h]["coordinator"] = "none"
        /\ lpc[h] = "killFirst" => h \in Master
        /\ lpc[h] \in {"start", "pause"} => child[h]["worker"] = "none"
        /\ lpc[h] = "killSecond" => child[h]["coordinator"] # "running"

\* The inductive invariant of the launchers.
LauncherInv == TypeOK /\ Supervised /\ NoOrphans

LEMMA LauncherInit == Init => LauncherInv
  BY DEF Init, LauncherInv, TypeOK, Supervised, NoOrphans, LauncherPC, LauncherEnded, Kind,
         ChildState

\* A step of one host leaves the variables of the others alone.
LEMMA LauncherInductive == LauncherInv /\ [Next]_vars => LauncherInv'
<1> SUFFICES ASSUME LauncherInv, [Next]_vars PROVE LauncherInv'
  OBVIOUS
<1> USE DEF LauncherInv, TypeOK, Supervised, NoOrphans, LauncherPC, LauncherEnded, Kind,
            ChildState
<1>1. CASE UNCHANGED vars
  BY <1>1 DEF vars
<1>2. ASSUME NEW h \in Host, LauncherStep(h) PROVE LauncherInv'
  <2> USE DEF LauncherGoto
  <2>1. CASE StartCoordinator(h)
    BY <2>1 DEF StartCoordinator, Spawn
  <2>2. CASE StartWorker(h)
    BY <2>2 DEF StartWorker, MayStartWorker, Spawn
  <2>3. CASE SpawnFails(h)
    BY <2>3 DEF SpawnFails
  <2>4. CASE CheckSignal(h)
    BY <2>4 DEF CheckSignal
  <2>5. CASE CheckFirst(h)
    BY <2>5 DEF CheckFirst, HasExited, WaitedFor
  <2>6. CASE CheckSecond(h)
    BY <2>6 DEF CheckSecond, HasExited, WaitedFor
  <2>7. CASE KillFirst(h)
    BY <2>7 DEF KillFirst, WaitedFor
  <2>8. CASE KillSecond(h)
    BY <2>8 DEF KillSecond, WaitedFor
  <2> QED
    BY <1>2, <2>1, <2>2, <2>3, <2>4, <2>5, <2>6, <2>7, <2>8 DEF LauncherStep
<1>3. ASSUME NEW h \in Host, Signal(h) PROVE LauncherInv'
  BY <1>3 DEF Signal
<1>4. ASSUME NEW h \in Host, NEW k \in Kind, ChildEnds(h, k) PROVE LauncherInv'
  BY <1>4 DEF ChildEnds
<1> QED
  BY <1>1, <1>2, <1>3, <1>4 DEF Next

\* wait_for_children and wait_for_child never end and leave a child running, on any
\* number of hosts, whatever signals and exits come together.
THEOREM NoChildIsOrphaned == Spec => []NoOrphans
<1>1. LauncherInv => NoOrphans
  BY DEF LauncherInv
<1> QED
  BY LauncherInit, LauncherInductive, <1>1, PTL DEF Spec
=============================================================================
