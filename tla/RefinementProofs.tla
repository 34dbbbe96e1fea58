--------------------------- MODULE RefinementProofs ---------------------------
(***************************************************************************)
(* Cluster implements Jobs, and goes on doing so through restarts of the   *)
(* coordinator, at any moment and however many.                            *)
(*                                                                         *)
(* The first part shows that CoordinatorRestarts keeps each inductive      *)
(* invariant of the other proofs.  The run request that is cut in its      *)
(* critical section is the delicate one: its tasks are in the store, and   *)
(* no handler knows of them.  The second part maps the steps: a write to   *)
(* the rows is a Submit, Record or Reopen, the end of a run request an     *)
(* Answer, a step of a process a Start or End, and everything else, a      *)
(* restart included, is an Interrupt, which allows a stutter.              *)
(***************************************************************************)
EXTENDS Recovery, ReportProofs

\* What the store holds after the restart: some tasks of one request were recorded in
\* its last moment, on connected nodes and under the lease the request names.
LEMMA RecordedInTheEnd ==
    ASSUME HalfRecorded
    PROVE  \/ UNCHANGED <<rows, assigned, under>>
           \/ \E j \in Job, l \in Lease \cup {NoLease}, nodes \in SUBSET Connected :
                /\ rpc[j] = "subscribed"
                /\ l \in Lease => Held(l) /\ nodes \subseteq leases[l].nodes
                /\ rows' = RecordTaskDispatched(rows, TasksOf(j, nodes))
                /\ assigned' = [assigned EXCEPT ![j] = TasksOf(j, nodes)]
                /\ under' = [under EXCEPT ![j] = l]
<1>. SUFFICES ASSUME NEW j \in Job, NEW l \in Lease \cup {NoLease}, NEW named \in SUBSET Node,
                     rpc[j] = "subscribed", Admissible(l, named),
                     under' = [under EXCEPT ![j] = l],
                     NEW nodes \in SUBSET (RequestedNodes(l, named, Connected) \cap Connected),
                     rows' = RecordTaskDispatched(rows, TasksOf(j, nodes)),
                     assigned' = [assigned EXCEPT ![j] = TasksOf(j, nodes)]
              PROVE  \E k \in Job, m \in Lease \cup {NoLease}, S \in SUBSET Connected :
                        /\ rpc[k] = "subscribed"
                        /\ m \in Lease => Held(m) /\ S \subseteq leases[m].nodes
                        /\ rows' = RecordTaskDispatched(rows, TasksOf(k, S))
                        /\ assigned' = [assigned EXCEPT ![k] = TasksOf(k, S)]
                        /\ under' = [under EXCEPT ![k] = m]
  BY DEF HalfRecorded
<1>1. nodes \in SUBSET Connected
  OBVIOUS
<1>2. l \in Lease => Held(l) /\ nodes \subseteq leases[l].nodes
  BY NoLeaseAssumption DEF Admissible, RequestedNodes
<1>. QED BY <1>1, <1>2

\* The tables the restart leaves are typed.
LEMMA RestartTyped ==
    ASSUME Typed, CoordinatorRestarts
    PROVE  Typed'
<1>. USE DEF Typed, TypeOK, CoordTypeOK
<1>1. WireTypeOK'
  BY DEF CoordinatorRestarts, ConnectionsReset, WireTypeOK
<1>2. WorkerTypeOK'
  BY DEF CoordinatorRestarts, ConnectionsReset, WorkerTypeOK
<1>3. RegistryTypeOK'
  BY DEF CoordinatorRestarts, RegistryIsNew, RegistryTypeOK, LeasesTypeOK, LeaseRecord
<1>4. HandlerTypeOK'
  BY DEF CoordinatorRestarts, HandlersEnd, HandlerTypeOK, HandlerPC
<1>5. HandlingTask'
  BY DEF CoordinatorRestarts, HandlersEnd, HandlingTask, HandlerTypeOK
<1>6. KillTypeOK'
  BY DEF CoordinatorRestarts, HandlersEnd, KillTypeOK, KillPC
<1>7. StoreTypeOK' /\ under' \in [Job -> Lease \cup {NoLease}] /\ assigned' \in [Job -> SUBSET Task]
  <2>1. CASE UNCHANGED <<rows, assigned, under>>
    BY <2>1 DEF StoreTypeOK, RunTypeOK
  <2>2. ASSUME NEW j \in Job, NEW l \in Lease \cup {NoLease}, NEW nodes \in SUBSET Connected,
               rows' = RecordTaskDispatched(rows, TasksOf(j, nodes)),
               assigned' = [assigned EXCEPT ![j] = TasksOf(j, nodes)],
               under' = [under EXCEPT ![j] = l]
        PROVE  /\ StoreTypeOK' /\ under' \in [Job -> Lease \cup {NoLease}]
               /\ assigned' \in [Job -> SUBSET Task]
    <3>1. TasksOf(j, nodes) \in SUBSET Task
      BY DEF RegistryTypeOK, Connected, TasksOf, Task
    <3>2. StoreTypeOK'
      BY <2>2 DEF StoreTypeOK, Row, Status, RecordTaskDispatched
    <3>. QED BY <2>2, <3>1, <3>2 DEF RunTypeOK
  <2>. QED BY <2>1, <2>2, RecordedInTheEnd DEF CoordinatorRestarts
<1>8. RunTypeOK'
  BY <1>7 DEF CoordinatorRestarts, HandlersEnd, RunTypeOK, RunPC, RunEnded
<1>. QED BY <1>1, <1>2, <1>3, <1>4, <1>5, <1>6, <1>7, <1>8

\* The exits that were recorded are on disk, and a handler that still owed its broadcast
\* has ended.
LEMMA RestartRecords ==
    ASSUME Typed, ExitsAreRecorded, CoordinatorRestarts
    PROVE  ExitsAreRecorded'
<1>. USE DEF Typed, TypeOK, CoordTypeOK, RunTypeOK, HandlerTypeOK
<1>1. \A t \in Task : rows[t].exited => rows'[t].exited
  <2>1. ASSUME NEW S, rows' = RecordTaskDispatched(rows, S)
        PROVE  \A t \in Task : rows[t].exited => rows'[t].exited
    BY <2>1 DEF RecordTaskDispatched, StoreTypeOK, Row
  <2>2. UNCHANGED rows \/ \E S : rows' = RecordTaskDispatched(rows, S)
    BY RecordedInTheEnd DEF CoordinatorRestarts
  <2>. QED BY <2>1, <2>2
<1>2. UNCHANGED cur /\ \A c \in Conn : hpc'[c] = hpc[c] \/ hpc'[c] = "gone"
  BY DEF CoordinatorRestarts, HandlersEnd
<1>3. HandlersRecord'
  <2>. SUFFICES ASSUME NEW c \in Conn, hpc'[c] = hpc[c]
                PROVE  /\ hpc[c] \in {"untrack", "errorExit", "lostExit"} =>
                             rows'[cur[c].task].exited
                       /\ hpc[c] = "publish" => Recorded(cur[c])'
    BY <1>2 DEF HandlersRecord, Recorded
  <2>1. hpc[c] \in {"untrack", "errorExit", "lostExit", "publish"} =>
            cur[c] \in TaskMessage /\ cur[c].task \in Task
    BY DEF HandlingTask, TaskMessage
  <2>. QED BY <1>1, <1>2, <2>1 DEF ExitsAreRecorded, HandlersRecord, Recorded
<1>4. EventsRecorded'
  BY DEF CoordinatorRestarts, HandlersEnd, EventsRecorded
<1>5. \A j \in Job : rpc'[j] \in {"waiting", "ok", "failed"} =>
          rpc'[j] = rpc[j] /\ rpc[j] \in {"ok", "failed"}
  BY DEF CoordinatorRestarts, HandlersEnd, RunEnded, RunPC
<1>6. \A j \in Job : rpc[j] \in {"ok", "failed"} => assigned'[j] = assigned[j]
  BY RecordedInTheEnd DEF CoordinatorRestarts
<1>7. WaitersRecorded'
  BY <1>1, <1>5, <1>6 DEF ExitsAreRecorded, WaitersRecorded
<1>. QED BY <1>3, <1>4, <1>7 DEF ExitsAreRecorded

\* Leases end with the coordinator that held them.
LEMMA RestartReleases ==
    ASSUME Typed, LeasedRuns, CoordinatorRestarts
    PROVE  ExclusiveLeases' /\ LeasedRuns'
<1>. USE DEF Typed, TypeOK, CoordTypeOK, RegistryTypeOK, RunTypeOK, LeasesTypeOK
<1>1. \A l \in Lease : /\ leases'[l].state # "held" /\ leases'[l].nodes = leases[l].nodes
                       /\ leases[l].state # "unused" => leases'[l].state # "unused"
  <2>. SUFFICES ASSUME NEW l \in Lease
                PROVE  /\ leases'[l].state # "held" /\ leases'[l].nodes = leases[l].nodes
                       /\ leases[l].state # "unused" => leases'[l].state # "unused"
    OBVIOUS
  <2>1. leases[l] \in LeaseRecord
    OBVIOUS
  <2>2. leases'[l] = IF Held(l) THEN [leases[l] EXCEPT !.state = "released"] ELSE leases[l]
    BY DEF CoordinatorRestarts, RegistryIsNew
  <2>. QED BY <2>1, <2>2 DEF LeaseRecord, Held
<1>2. ExclusiveLeases'
  BY <1>1 DEF ExclusiveLeases, Held
<1>3. HandlesMatch'
  BY DEF CoordinatorRestarts, RegistryIsNew, HandlesMatch
<1>4. ASSUME UNCHANGED <<assigned, under>> PROVE RunsUnderGrants' /\ RunStaysInLease'
  <2>1. RunsUnderGrants'
    BY <1>1, <1>4 DEF LeasedRuns, RunsUnderGrants
  <2>2. RunStaysInLease'
    BY <1>1, <1>4 DEF LeasedRuns, RunStaysInLease
  <2>. QED BY <2>1, <2>2
<1>5. ASSUME NEW j \in Job, NEW l \in Lease \cup {NoLease}, NEW nodes \in SUBSET Connected,
             l \in Lease => Held(l) /\ nodes \subseteq leases[l].nodes,
             assigned' = [assigned EXCEPT ![j] = TasksOf(j, nodes)],
             under' = [under EXCEPT ![j] = l]
      PROVE  RunsUnderGrants' /\ RunStaysInLease'
  <2>1. assigned'[j] = TasksOf(j, nodes) /\ under'[j] = l
    BY <1>5
  <2>2. \A k \in Job \ {j} : assigned'[k] = assigned[k] /\ under'[k] = under[k]
    BY <1>5
  <2>3. ASSUME NEW t \in TasksOf(j, nodes) PROVE NodeOf(ConnOf(t)) \in nodes
    <3>1. PICK n \in nodes : t = <<j, handle[n]>>
      BY <2>3 DEF TasksOf
    <3>2. ConnOf(t) = handle[n] /\ n \in Node /\ handle[n] # NoHandle
      BY <3>1 DEF ConnOf, Connected
    <3>. QED BY <3>1, <3>2 DEF LeasedRuns, HandlesMatch
  <2>4. RunsUnderGrants'
    BY <1>1, <1>5, <2>1, <2>2 DEF LeasedRuns, RunsUnderGrants, Held
  <2>5. RunStaysInLease'
    BY <1>1, <1>5, <2>1, <2>2, <2>3 DEF LeasedRuns, RunStaysInLease
  <2>. QED BY <2>4, <2>5
<1>6. RunsUnderGrants' /\ RunStaysInLease'
  BY <1>4, <1>5, RecordedInTheEnd DEF CoordinatorRestarts
<1>. QED BY <1>2, <1>3, <1>6 DEF LeasedRuns

\* The messages on the way are lost, so nothing is started or reported that was not; the
\* processes and their outcomes are the workers'.
LEMMA RestartVerdicts ==
    ASSUME Verdicts, CoordinatorRestarts
    PROVE  StartedOnce' /\ SuccessIsHonest'
<1>. USE DEF Verdicts, Typed, TypeOK, CoordTypeOK, RunTypeOK
<1>1. UNCHANGED <<proc, verdict, exitOk, cur, allOk>> /\ Succeeded' = Succeeded
  BY DEF CoordinatorRestarts, ConnectionsReset, HandlersEnd, Succeeded
<1>2. /\ \A c \in Conn : toWorker'[c] = <<>> /\ toCoord'[c] = <<>>
      /\ \A t \in Task : events'[t] = <<>>
      /\ \A j \in Job : queue'[j] = {} /\ pending'[j] = {} /\ sub'[j] = <<>>
  BY DEF CoordinatorRestarts, ConnectionsReset, HandlersEnd
<1>3. \A j \in Job : \/ rpc'[j] = rpc[j] /\ rpc[j] \in {"idle"} \cup RunEnded
                     \/ rpc'[j] = "aborted"
  BY DEF CoordinatorRestarts, HandlersEnd
<1>4. \/ UNCHANGED <<rows, assigned>>
      \/ \E j \in Job, nodes \in SUBSET Connected :
            /\ rpc[j] = "subscribed"
            /\ rows' = RecordTaskDispatched(rows, TasksOf(j, nodes))
            /\ assigned' = [assigned EXCEPT ![j] = TasksOf(j, nodes)]
  BY RecordedInTheEnd DEF CoordinatorRestarts
<1>5. OwnTasks'
  <2>1. ASSUME NEW j \in Job, NEW nodes, assigned' = [assigned EXCEPT ![j] = TasksOf(j, nodes)]
        PROVE  \A k \in Job : \A t \in assigned'[k] : JobOf(t) = k
    <3>1. \A t \in TasksOf(j, nodes) : JobOf(t) = j
      BY DEF TasksOf, JobOf
    <3>. QED BY <2>1, <3>1 DEF StartedOnce, OwnTasks
  <2>2. \A j \in Job : \A t \in assigned'[j] : JobOf(t) = j
    BY <1>4, <2>1 DEF StartedOnce, OwnTasks
  <2>. QED BY <1>2, <2>2 DEF OwnTasks
<1>6. UnsentIsNew'
  <2>1. \A j \in Job : rpc'[j] \in {"idle", "subscribed", "announce", "dispatch"} =>
            rpc'[j] = "idle" /\ rpc[j] = "idle"
    BY <1>3 DEF RunEnded
  <2>2. \A t \in Task : Unsent(t)' => Unsent(t)
    BY <2>1, Parts DEF Unsent
  <2>. QED BY <1>1, <1>2, <2>2 DEF StartedOnce, UnsentIsNew
<1>7. StartsAreNew'
  BY <1>2 DEF StartsAreNew
<1>8. VerdictsAreReal'
  BY <1>1 DEF SuccessIsHonest, VerdictsAreReal
<1>9. ReportsAreHonest'
  BY <1>1, <1>2 DEF SuccessIsHonest, ReportsAreHonest, AllHonest
<1>10. RowsAreHonest'
  BY <1>1, <1>4 DEF SuccessIsHonest, RowsAreHonest, RecordTaskDispatched, StoreTypeOK, Row
<1>11. AnswersAreHonest'
  <2>1. \A j \in Job : rpc'[j] \in {"announce", "dispatch", "waiting", "ok"} =>
            rpc'[j] = "ok" /\ rpc[j] = "ok"
    BY <1>3 DEF RunEnded
  <2>2. \A j \in Job : rpc[j] = "ok" => assigned'[j] = assigned[j]
    BY <1>4
  <2>. QED BY <1>1, <2>1, <2>2 DEF SuccessIsHonest, AnswersAreHonest
<1>. QED BY <1>5, <1>6, <1>7, <1>8, <1>9, <1>10, <1>11 DEF StartedOnce, SuccessIsHonest

\* Every run request that was recorded is still known, and nothing else is.
LEMMA RestartKnown ==
    ASSUME Typed, HandlesMatch, TasksAreKnown, CoordinatorRestarts
    PROVE  /\ TasksAreKnown'
           /\ \A j \in Job : assigned[j] \subseteq assigned'[j]
           /\ \A t \in Known : rows'[t] = rows[t]
           /\ \A t \in Task : rows'[t].exited = rows[t].exited
<1>. USE DEF Typed, TypeOK, CoordTypeOK, RunTypeOK, StoreTypeOK, RegistryTypeOK
<1>1. UNCHANGED <<proc, output, cur>>
  BY DEF CoordinatorRestarts, ConnectionsReset, HandlersEnd
<1>2. /\ \A c \in Conn : toWorker'[c] = <<>> /\ toCoord'[c] = <<>> /\ lost'[c] = {}
      /\ \A t \in Task : events'[t] = <<>>
      /\ \A j \in Job : queue'[j] = {} /\ pending'[j] = {} /\ targets'[j] = {}
      /\ \A n \in Node : running'[n] = {}
  BY DEF CoordinatorRestarts, ConnectionsReset, HandlersEnd, RegistryIsNew
<1>3. PICK new \in SUBSET Task :
          /\ \A t \in new : t \notin Known /\ t \in Known'
          /\ \A t \in Task \ new : t \in Known' <=> t \in Known
          /\ \A t \in Task : rows'[t] = IF t \in new THEN [rows[t] EXCEPT !.status = "queued"] ELSE rows[t]
          /\ \A j \in Job : assigned[j] \subseteq assigned'[j]
          /\ \A j \in Job : rpc[j] = "idle" => assigned'[j] = assigned[j]
  <2>1. CASE UNCHANGED <<rows, assigned>>
    <3>1. {} \in SUBSET Task /\ \A t \in Task : t \in Known' <=> t \in Known
      BY <2>1 DEF Known
    <3>2. \A t \in Task : rows'[t] = IF t \in {} THEN [rows[t] EXCEPT !.status = "queued"] ELSE rows[t]
      BY <2>1
    <3>. QED BY <2>1, <3>1, <3>2
  <2>2. ASSUME NEW j \in Job, NEW nodes \in SUBSET Connected, rpc[j] = "subscribed",
               rows' = RecordTaskDispatched(rows, TasksOf(j, nodes)),
               assigned' = [assigned EXCEPT ![j] = TasksOf(j, nodes)]
        PROVE  \E new \in SUBSET Task :
                  /\ \A t \in new : t \notin Known /\ t \in Known'
                  /\ \A t \in Task \ new : t \in Known' <=> t \in Known
                  /\ \A t \in Task : rows'[t] = IF t \in new THEN [rows[t] EXCEPT !.status = "queued"] ELSE rows[t]
                  /\ \A k \in Job : assigned[k] \subseteq assigned'[k]
                  /\ \A k \in Job : rpc[k] = "idle" => assigned'[k] = assigned[k]
    <3>1. assigned[j] = {} /\ assigned'[j] = TasksOf(j, nodes)
      BY <2>2 DEF TasksAreKnown, KnownRuns
    <3>2. \A k \in Job \ {j} : assigned'[k] = assigned[k]
      BY <2>2
    <3>3. \A t \in TasksOf(j, nodes) : t \in Task /\ JobOf(t) = j
      BY DEF TasksOf, Task, JobOf, Connected
    <3>4. /\ \A t \in TasksOf(j, nodes) : t \notin Known /\ t \in Known'
          /\ \A t \in Task \ TasksOf(j, nodes) : t \in Known' <=> t \in Known
      BY <3>1, <3>2, <3>3, Parts DEF Known
    <3>5. \A t \in Task : rows'[t] = IF t \in TasksOf(j, nodes)
                                     THEN [rows[t] EXCEPT !.status = "queued"] ELSE rows[t]
      BY <2>2 DEF RecordTaskDispatched
    <3>. QED BY <2>2, <3>1, <3>2, <3>3, <3>4, <3>5
  <2>. QED BY <2>1, <2>2, RecordedInTheEnd DEF CoordinatorRestarts
<1>4. \A t \in Task : rows'[t].exited = rows[t].exited /\ rows[t] \in Row
  <2>1. \A t \in Task : rows[t] \in Row
    OBVIOUS
  <2>2. \A t \in Task : [rows[t] EXCEPT !.status = "queued"].exited = rows[t].exited
    BY <2>1 DEF Row
  <2>. QED BY <1>3, <2>1, <2>2
<1>5. KnownTasks'
  <2>. SUFFICES ASSUME NEW t \in Task
                PROVE  /\ rows'[t].status = "absent" <=> t \notin Known'
                       /\ t \notin Known' => /\ proc[t] = "none" /\ output[t] = "none"
                                             /\ ~rows'[t].exited
    BY <1>1, <1>2 DEF KnownTasks
  <2>1. CASE t \in new
    <3>1. t \in Known' /\ rows'[t].status = "queued"
      BY <1>3, <1>4, <2>1 DEF Row
    <3>. QED BY <3>1
  <2>2. CASE t \notin new
    BY <1>3, <2>2 DEF TasksAreKnown, KnownTasks
  <2>. QED BY <2>1, <2>2
<1>6. KnownRuns'
  <2>1. \A j \in Job : rpc'[j] \in {"idle", "subscribed"} => rpc[j] = "idle"
    BY DEF CoordinatorRestarts, HandlersEnd, RunEnded
  <2>. QED BY <1>2, <1>3, <2>1 DEF TasksAreKnown, KnownRuns
<1>7. KnownRunning' /\ KnownTargets'
  BY <1>2, Parts DEF KnownRunning, KnownTargets
<1>8. KnownMessages'
  <2>1. \A t \in Known : t \in Known'
    BY <1>3 DEF Known
  <2>2. \A c \in Conn : About(cur'[c], NodeOf(c), Known')
    BY <1>1, <2>1 DEF TasksAreKnown, KnownMessages, About
  <2>. QED BY <1>2, <2>2 DEF KnownMessages
<1>9. \A t \in Known : rows'[t] = rows[t]
  BY <1>3 DEF Known
<1>. QED BY <1>3, <1>4, <1>5, <1>6, <1>7, <1>8, <1>9 DEF TasksAreKnown

\* What was given up stays so.
LEMMA RestartGivesUp ==
    ASSUME Typed, EndsAreKnown, CoordinatorRestarts
    PROVE  EndsAreKnown' /\ Killed' = Killed /\ GivenUp \subseteq GivenUp'
<1>. USE DEF Typed, TypeOK, CoordTypeOK, HandlerTypeOK, KillTypeOK, WireTypeOK
<1>1. Killed' = Killed
  BY DEF CoordinatorRestarts, HandlersEnd, Killed
<1>2. \A c \in Conn : /\ hpc'[c] = IF link[c] = "idle" THEN hpc[c] ELSE "gone"
                      /\ link'[c] = IF link[c] \in {"open", "deaf"} THEN "reset" ELSE link[c]
  BY DEF CoordinatorRestarts, HandlersEnd, ConnectionsReset
<1>3. Dropped \subseteq Dropped'
  BY <1>2 DEF Dropped
<1>4. EndsAreKnown'
  <2>1. /\ \A j \in Job : targets'[j] = {}
        /\ \A c \in Conn : toWorker'[c] = <<>>
    BY DEF CoordinatorRestarts, HandlersEnd, ConnectionsReset
  <2>2. \A c \in Conn : hpc'[c] \notin {"drop", "lost", "lostStore", "lostExit"}
    BY <1>2 DEF EndsAreKnown
  <2>. QED BY <2>1, <2>2 DEF EndsAreKnown
<1>. QED BY <1>1, <1>3, <1>4 DEF GivenUp

\* No report is on its way any more, and what was reported is in the store.
LEMMA RestartReports ==
    ASSUME ReportInv, CoordinatorRestarts
    PROVE  ReportInv'
<1>. USE DEF ReportInv, Ground, Verdicts, Reporting
<1>1. Typed' /\ StartedOnce' /\ SuccessIsHonest' /\ HandlesMatch'
  BY RestartTyped, RestartVerdicts DEF CoordinatorRestarts, RegistryIsNew, HandlesMatch
<1>2. /\ TasksAreKnown' /\ EndsAreKnown' /\ GivenUp \subseteq GivenUp'
      /\ \A j \in Job : assigned[j] \subseteq assigned'[j]
      /\ \A t \in Known : rows'[t] = rows[t]
      /\ \A t \in Task : rows'[t].exited = rows[t].exited
  BY RestartKnown, RestartGivesUp
<1>3. UNCHANGED <<proc, verdict, cur, allOk>> /\ \A c \in Conn : hpc'[c] \in {hpc[c], "gone"}
  BY DEF CoordinatorRestarts, ConnectionsReset, HandlersEnd
<1>4. /\ \A c \in Conn : toCoord'[c] = <<>>
      /\ \A t \in Task : events'[t] = <<>>
      /\ \A j \in Job : sub'[j] = <<>>
  BY DEF CoordinatorRestarts, ConnectionsReset, HandlersEnd
<1>5. \A t \in Task : t \notin Known => rows[t].status = "absent" /\ ~rows[t].exited
  BY DEF TasksAreKnown, KnownTasks
<1>6. \A t \in Task : rows'[t] # rows[t] => rows'[t].status = "queued"
  <2>1. \A t \in Task : rows[t] \in Row
    BY DEF Typed, TypeOK, CoordTypeOK, StoreTypeOK
  <2>2. ASSUME NEW S, rows' = RecordTaskDispatched(rows, S)
        PROVE  \A t \in Task : rows'[t] # rows[t] => rows'[t].status = "queued"
    BY <2>1, <2>2 DEF RecordTaskDispatched, Row, Typed, TypeOK, CoordTypeOK, StoreTypeOK
  <2>3. UNCHANGED rows \/ \E S : rows' = RecordTaskDispatched(rows, S)
    BY RecordedInTheEnd DEF CoordinatorRestarts
  <2>. QED BY <2>2, <2>3
<1>7. ReportsAreGenuine' /\ ReportsAreOrdered' /\ ClosedIsSilent'
  <2>1. \A t \in Task : ConnOf(t) \in Conn
    BY Parts
  <2>2. ReportsAreGenuine' /\ ReportsAreOrdered'
    BY <1>4 DEF ReportsAreGenuine, ReportsAreOrdered, ExitsLast
  <2>3. ClosedIsSilent'
    BY <1>4, <2>1 DEF ClosedIsSilent, Silent, Closed
  <2>. QED BY <2>2, <2>3
<1>8. RefusalsAreOnce'
  BY <1>2, <1>3, <1>4 DEF RefusalsAreOnce
<1>9. OutcomesAreOwn'
  <2>. SUFFICES ASSUME NEW t \in Task, t \notin GivenUp'
                PROVE  /\ rows'[t].exited <=> IsSettled(rows'[t])
                       /\ rows'[t].status = "failed" =>
                              proc[t] = "refused" \/ (proc[t] = "done" /\ ~verdict[t])
    BY <1>3 DEF OutcomesAreOwn
  <2>1. CASE rows'[t] = rows[t]
    BY <1>2, <2>1 DEF OutcomesAreOwn
  <2>2. CASE rows'[t] # rows[t]
    BY <1>2, <1>5, <1>6, <2>2 DEF IsSettled
  <2>. QED BY <2>1, <2>2
<1>10. FailuresAreTold'
  <2>1. \A t \in Failing : t \in Failing'
    BY <1>2, <1>5 DEF Failing
  <2>2. \A m : Told(m, Failing) => Told(m, Failing')
    BY <2>1 DEF Told
  <2>. QED BY <1>2, <1>3, <1>4, <2>1, <2>2 DEF FailuresAreTold, FailuresIn
<1>. QED BY <1>1, <1>2, <1>7, <1>8, <1>9, <1>10

------------------------------------------------------------------------------
\* The inductive invariant of the system and its restarts.
RecoveryInv == ReportInv /\ ExitsAreRecorded /\ ExclusiveLeases /\ LeasedRuns

\* The first coordinator starts as the only one would ...
LEMMA RecoveryInit == RInit => RecoveryInv
<1>. SUFFICES ASSUME Init PROVE RecoveryInv
  BY DEF RInit
<1>1. ExclusiveLeases
  BY DEF Init, CoordInit, LeasesInit, ExclusiveLeases, Held
<1>2. LeasedRuns
  BY NoLeaseAssumption
     DEF Init, CoordInit, LeasedRuns, HandlesMatch, RunsUnderGrants, RunStaysInLease
<1>. QED BY <1>1, <1>2, ReportInit, InitRecords DEF RecoveryInv

\* ... and the steps and the restarts keep what the invariant says.
LEMMA RecoveryInductive == RecoveryInv /\ [RNext]_recoveryVars => RecoveryInv'
<1>. SUFFICES ASSUME RecoveryInv, [RNext]_recoveryVars PROVE RecoveryInv'
  OBVIOUS
<1>1. Verdicts /\ Typed
  BY DEF RecoveryInv, ReportInv, Ground, Verdicts
<1>2. CASE [Next]_vars
  <2>1. ExclusiveLeases'
    BY <1>1, <1>2, LeasesElsewhere, LeaseStepExclusive DEF RecoveryInv, ExclusiveLeases, Held
  <2>. QED BY <1>1, <1>2, <2>1, ReportInductive, NextRecords, NextLeasedRuns DEF RecoveryInv
<1>3. CASE CoordinatorRestarts
  BY <1>1, <1>3, RestartReports, RestartRecords, RestartReleases DEF RecoveryInv
<1>. QED BY <1>2, <1>3 DEF RNext, recoveryVars

\* What the client was told is in the store that was opened again: every exit of a job
\* that was reported finished, before or after the restarts.
THEOREM RecordsSurviveRestarts == RSpec => []FinishedIsRecorded
<1>1. RecoveryInv => FinishedIsRecorded
  BY DEF RecoveryInv, ExitsAreRecorded, WaitersRecorded, FinishedIsRecorded, Finished
<1>. QED BY <1>1, RecoveryInit, RecoveryInductive, PTL DEF RSpec

\* No restart makes a success of a task: a row or an answer that says so is of a process
\* that exited with success.
THEOREM SuccessesSurviveRestarts == RSpec => [](SucceededIsReal /\ SuccessIsReal)
<1>1. RecoveryInv => SucceededIsReal /\ SuccessIsReal
  BY VerdictsSuffice DEF RecoveryInv, ReportInv, Ground
<1>. QED BY <1>1, RecoveryInit, RecoveryInductive, PTL DEF RSpec

\* A run that a restart cut short has its recorded tasks in its lease all the same.
THEOREM LeasedRunsSurviveRestarts == RSpec => [](ExclusiveLeases /\ RunStaysInLease)
<1>1. RecoveryInv => ExclusiveLeases /\ RunStaysInLease
  BY DEF RecoveryInv, LeasedRuns
<1>. QED BY <1>1, RecoveryInit, RecoveryInductive, PTL DEF RSpec

\* A restart fails no task and changes no outcome: the outcome of a task that was not
\* given up is final, and every failure has one of the causes it has without restarts.
THEOREM OutcomesSurviveRestarts == RSpec => []FailuresAreCaused /\ OwnOutcomeIsFinal
<1>1. RecoveryInv => FailuresAreCaused
  BY CausesKnown DEF RecoveryInv
<1>2. RecoveryInv /\ [RNext]_recoveryVars =>
          [\A t \in Task \ GivenUp : IsSettled(rows[t]) => rows'[t] = rows[t]]_vars
  <2>. SUFFICES ASSUME RecoveryInv, [RNext]_recoveryVars, NEW t \in Task \ GivenUp,
                       IsSettled(rows[t])
                PROVE  rows'[t] = rows[t]
    OBVIOUS
  <2>1. CASE [Next]_vars
    BY <2>1, OutcomeStays DEF RecoveryInv, ReportInv
  <2>2. CASE CoordinatorRestarts
    <3>1. t \in Known
      BY DEF RecoveryInv, ReportInv, Ground, TasksAreKnown, KnownTasks, IsSettled
    <3>. QED BY <2>2, <3>1, RestartKnown DEF RecoveryInv, ReportInv, Ground, Verdicts
  <2>. QED BY <2>1, <2>2 DEF RNext, recoveryVars
<1>. QED BY <1>1, <1>2, RecoveryInit, RecoveryInductive, PTL DEF RSpec, OwnOutcomeIsFinal

------------------------------------------------------------------------------
(* The steps of the system as steps of the promise *)

\* What the promise sees of a variable stays when the variable does.
LEMMA ViewsStay ==
    /\ UNCHANGED <<proc, exitOk, verdict>> => \A t \in Task : ProcessOf(t)' = ProcessOf(t)
    /\ UNCHANGED rows => \A t \in Task : RecordOf(t)' = RecordOf(t) /\ rows'[t].exited = rows[t].exited
    /\ UNCHANGED rpc => \A j \in Job : AnswerOf(j)' = AnswerOf(j)
    /\ UNCHANGED <<kpc, link>> => Disturbed' = Disturbed
BY DEF ProcessOf, RecordOf, AnswerOf, Finished, Disturbed, HasEnded

\* A task that was given up was disturbed, and what is disturbed stays so.
LEMMA GivenUpIsDisturbed == GivenUp \subseteq Disturbed
BY DEF GivenUp, Killed, Dropped, Disturbed

\* A task that is disturbed stays so, across restarts too.
LEMMA DisturbedLasts ==
    ASSUME Typed, [Next]_vars
    PROVE  Disturbed \subseteq Disturbed'
<1>1. \A j \in Job : kpc[j] # "idle" => kpc'[j] # "idle"
  BY GivenUpLasts DEF Killed
<1>2. \A c \in Conn : link[c] \in {"closed", "reset"} => link'[c] = link[c]
  BY LinkSteps
<1>. QED BY <1>1, <1>2, Parts DEF Disturbed, HasEnded

\* A run request that ends without an answer is one whose client is gone.
LEMMA AnswerMoves ==
    ASSUME Typed, \A j \in Job : \/ rpc'[j] = rpc[j]
                                 \/ rpc[j] \notin RunEnded /\ rpc'[j] \notin {"ok", "failed"}
    PROVE  \A j \in Job :
              /\ AnswerOf(j) \in {"none", "ok", "failed", "gone"}
              /\ AnswerOf(j)' = AnswerOf(j) \/ (AnswerOf(j) = "none" /\ AnswerOf(j)' = "gone")
<1>. SUFFICES ASSUME NEW j \in Job
              PROVE  /\ AnswerOf(j) \in {"none", "ok", "failed", "gone"}
                     /\ AnswerOf(j)' = AnswerOf(j) \/ (AnswerOf(j) = "none" /\ AnswerOf(j)' = "gone")
  OBVIOUS
<1>1. rpc[j] \in RunPC
  BY DEF Typed, TypeOK, CoordTypeOK, RunTypeOK
<1>2. AnswerOf(j) \in {"none", "ok", "failed", "gone"}
  BY <1>1 DEF AnswerOf, Finished
<1>3. CASE rpc'[j] = rpc[j]
  BY <1>2, <1>3 DEF AnswerOf, Finished
<1>4. CASE rpc[j] \notin RunEnded /\ rpc'[j] \notin {"ok", "failed"}
  BY <1>1, <1>4 DEF AnswerOf, Finished, RunEnded
<1>. QED BY <1>2, <1>3, <1>4

\* A step that changes none of what the promise sees, but that it may end a run request
\* without an answer and disturb tasks, is an Interrupt.
LEMMA QuietStep ==
    ASSUME Typed, UNCHANGED assigned, Disturbed \subseteq Disturbed',
           \A t \in Task : ProcessOf(t)' = ProcessOf(t),
           \A t \in Task : RecordOf(t)' = RecordOf(t) /\ rows'[t].exited = rows[t].exited,
           \A j \in Job : \/ rpc'[j] = rpc[j]
                          \/ rpc[j] \notin RunEnded /\ rpc'[j] \notin {"ok", "failed"}
    PROVE  Promise!Interrupt
<1>1. \A j \in Job : /\ AnswerOf(j) \in {"none", "ok", "failed", "gone"}
                     /\ AnswerOf(j)' = AnswerOf(j) \/ (AnswerOf(j) = "none" /\ AnswerOf(j)' = "gone")
  BY AnswerMoves
<1>2. Disturbed' \subseteq Task
  BY DEF Disturbed
<1>3. {t \in Task : rows[t].exited}' = {t \in Task : rows[t].exited}
  OBVIOUS
<1>. QED BY <1>1, <1>2, <1>3 DEF Promise!Interrupt

\* A write of one row of a task that was recorded is a Record ...
LEMMA RecordStep ==
    ASSUME Typed, UNCHANGED <<assigned, rpc, kpc, link, proc, exitOk, verdict>>,
           NEW t \in Task, NEW success \in BOOLEAN, rows' = RecordTaskExited(rows, t, success),
           RecordOf(t) = "open" \/ (RecordOf(t) # "none" /\ t \in Disturbed),
           success => ProcessOf(t) = "succeeded",
           ~success => ProcessOf(t) \in {"refused", "failed"} \/ t \in Disturbed
    PROVE  Promise!Record(t)
<1>1. /\ \A u \in Task \ {t} : rows'[u] = rows[u]
      /\ rows'[t] = [status |-> IF success THEN "succeeded" ELSE "failed", exited |-> TRUE]
  BY DEF RecordTaskExited, Typed, TypeOK, CoordTypeOK, StoreTypeOK
<1>2. /\ \A u \in Task \ {t} : RecordOf(u)' = RecordOf(u) /\ rows'[u].exited = rows[u].exited
      /\ RecordOf(t)' = IF success THEN "succeeded" ELSE "failed"
      /\ rows'[t].exited
  BY <1>1 DEF RecordOf, IsOpen
<1>3. {u \in Task : rows[u].exited}' = {u \in Task : rows[u].exited} \cup {t}
  BY <1>2
<1>. QED BY <1>2, <1>3, ViewsStay DEF Promise!Record

\* ... a late start of a task that was given up, a Reopen ...
LEMMA ReopenStep ==
    ASSUME Typed, UNCHANGED <<assigned, rpc, kpc, link, proc, exitOk, verdict>>,
           NEW t \in Task, rows' = RecordTaskStarted(rows, t),
           rows[t].status = "failed", t \in Disturbed
    PROVE  Promise!Reopen(t)
<1>0. rows[t] \in Row /\ rows \in [Task -> Row]
  BY DEF Typed, TypeOK, CoordTypeOK, StoreTypeOK
<1>1. /\ \A u \in Task \ {t} : rows'[u] = rows[u]
      /\ rows'[t] = [rows[t] EXCEPT !.status = "running"]
  BY <1>0 DEF RecordTaskStarted
<1>2. /\ \A u \in Task \ {t} : RecordOf(u)' = RecordOf(u) /\ rows'[u].exited = rows[u].exited
      /\ RecordOf(t) = "failed" /\ RecordOf(t)' = "open"
      /\ rows'[t].exited = rows[t].exited
  BY <1>0, <1>1 DEF RecordOf, IsOpen, Row
<1>3. {u \in Task : rows[u].exited}' = {u \in Task : rows[u].exited}
  BY <1>2
<1>. QED BY <1>2, <1>3, ViewsStay DEF Promise!Reopen

\* ... and what the process of a task does is a Start or an End.
LEMMA ProcessStep ==
    ASSUME UNCHANGED <<assigned, rows, rpc, kpc, link>>, NEW t \in Task,
           \A u \in Task \ {t} : ProcessOf(u)' = ProcessOf(u)
    PROVE  /\ t \in Known /\ ProcessOf(t) = "none" /\ ProcessOf(t)' \in {"live", "refused"}
                  => Promise!Start(t)
           /\ ProcessOf(t) = "live" /\ ProcessOf(t)' \in {"succeeded", "failed"}
                  => Promise!End(t)
<1>1. t \in Known => t \in Promise!Asked
  BY Parts DEF Promise!Asked, Known
<1>2. {u \in Task : rows[u].exited}' = {u \in Task : rows[u].exited}
  OBVIOUS
<1>. QED BY <1>1, <1>2, ViewsStay DEF Promise!Start, Promise!End

\* What the handler of a connection writes of a task it has heard of, refused or lost.
LEMMA StoreSteps ==
    ASSUME ReportInv, [Next]_vars, NEW c \in Conn, UNCHANGED workerVars,
           StoreStarted(c) \/ StoreExited(c) \/ StoreFailed(c) \/ StoreLost(c)
    PROVE  Promise!Next
<1>. USE DEF ReportInv, Ground, Verdicts, Reporting
<1>1. /\ UNCHANGED <<assigned, rpc, kpc, proc, exitOk, verdict>>
      /\ UNCHANGED link /\ Disturbed \subseteq Disturbed'
  BY DisturbedLasts DEF StoreStarted, StoreExited, StoreFailed, StoreLost, Take, runVars,
     killVars, wireVars, workerVars
<1>2. \A t \in Task : rows[t] \in Row /\ (t \in Known => rows[t].status # "absent")
  BY DEF Typed, TypeOK, CoordTypeOK, StoreTypeOK, TasksAreKnown, KnownTasks
<1>3. \A t \in Known : RecordOf(t) # "none" /\ t \in Task
  BY <1>2 DEF RecordOf, IsOpen, Row, Status, Known
<1>4. CASE StoreStarted(c) \/ StoreExited(c)
  <2>. DEFINE m == toCoord[c][1]
  <2>1. toCoord[c] # <<>> /\ m = Head(toCoord[c]) /\ m \in UpMessage /\ 1 \in 1..Len(toCoord[c])
    BY <1>4, Pieces DEF StoreStarted, StoreExited, Incoming, Typed, TypeOK, WireTypeOK
  <2>2. m.type \in {"started", "exited"}
    BY <1>4, <2>1 DEF StoreStarted, StoreExited, Incoming
  <2>3. PICK t \in Known : t \in Task /\ t = m.task /\ m.ok \in BOOLEAN
    BY <2>1, <2>2 DEF TasksAreKnown, KnownMessages, About, UpMessage, Register, TaskMessage, Known
  <2>4. /\ ConnOf(t) = c /\ ~Silent(toCoord[c], t)
        /\ m.type = "exited" => <<t, m.ok>> \in Ended
    BY <2>1, <2>2, <2>3, FirstReport
  <2>5. t \notin Closed
    BY <2>4 DEF ClosedIsSilent
  <2>6. t \in GivenUp \/ IsOpen(rows[t])
    <3>1. rows[t].status # "succeeded" /\ (rows[t].exited => t \in GivenUp)
      BY <2>3, <2>5 DEF Closed
    <3>2. t \notin GivenUp => ~IsSettled(rows[t])
      BY <2>3, <3>1 DEF OutcomesAreOwn
    <3>. QED BY <1>2, <2>3, <3>2 DEF IsSettled, IsOpen, Row, Status
  <2>7. RecordOf(t) = "open" \/ (RecordOf(t) # "none" /\ t \in Disturbed)
    BY <1>2, <1>3, <2>3, <2>6, GivenUpIsDisturbed DEF RecordOf
  <2>8. CASE StoreExited(c)
    <3>0. PICK success \in BOOLEAN : success = m.ok
      BY <2>3
    <3>1. rows' = RecordTaskExited(rows, t, success)
      BY <2>1, <2>3, <2>8, <3>0 DEF StoreExited
    <3>2. proc[t] = "done" /\ verdict[t] = m.ok
      BY <2>1, <2>4, <2>8 DEF StoreExited, Incoming, Ended
    <3>3. m.ok => t \in Succeeded
      BY <2>1, <2>3, <2>8 DEF StoreExited, Incoming, SuccessIsHonest, ReportsAreHonest, AllHonest, Honest
    <3>4. /\ success => ProcessOf(t) = "succeeded"
          /\ ~success => ProcessOf(t) = "failed"
      BY <3>0, <3>2, <3>3 DEF ProcessOf, Succeeded
    <3>5. Promise!Record(t)
      BY <1>1, <2>3, <2>7, <3>1, <3>4, RecordStep
    <3>. QED BY <2>3, <3>5 DEF Promise!Next
  <2>9. CASE StoreStarted(c) /\ IsOpen(rows[t])
    <3>1. rows' = RecordTaskStarted(rows, t)
      BY <2>1, <2>3, <2>9 DEF StoreStarted
    <3>2. \A u \in Task : rows'[u] = IF u = t THEN [rows[u] EXCEPT !.status = "running"] ELSE rows[u]
      BY <3>1 DEF RecordTaskStarted, Typed, TypeOK, CoordTypeOK, StoreTypeOK
    <3>3. \A u \in Task : RecordOf(u)' = RecordOf(u) /\ rows'[u].exited = rows[u].exited
      BY <1>2, <2>9, <3>2 DEF RecordOf, IsOpen, Row
    <3>4. Promise!Interrupt
      BY <1>1, <3>3, ViewsStay, QuietStep
    <3>. QED BY <3>4 DEF Promise!Next
  <2>10. CASE StoreStarted(c) /\ ~IsOpen(rows[t])
    <3>1. rows' = RecordTaskStarted(rows, t)
      BY <2>1, <2>3, <2>10 DEF StoreStarted
    <3>2. rows[t].status = "failed" /\ t \in Disturbed
      BY <1>2, <2>3, <2>5, <2>6, <2>10, GivenUpIsDisturbed DEF Closed, IsOpen, Row, Status
    <3>3. Promise!Reopen(t)
      BY <1>1, <2>3, <3>1, <3>2, ReopenStep
    <3>. QED BY <2>3, <3>3 DEF Promise!Next
  <2>. QED BY <1>4, <2>8, <2>9, <2>10
<1>5. CASE StoreFailed(c) \/ StoreLost(c)
  <2>1. PICK t \in Known : t \in Task /\ t = cur[c].task
    BY <1>5 DEF StoreFailed, StoreLost, HandlingTask, TasksAreKnown, KnownMessages, About,
                TaskMessage, Typed, Known
  <2>2. rows' = RecordTaskExited(rows, t, FALSE)
    BY <1>5, <2>1 DEF StoreFailed, StoreLost
  <2>3. CASE t \in GivenUp
    <3>1. Promise!Record(t)
      BY <1>1, <1>3, <2>1, <2>2, <2>3, GivenUpIsDisturbed, RecordStep
    <3>. QED BY <2>1, <3>1 DEF Promise!Next
  <2>4. CASE t \notin GivenUp
    <3>1. hpc[c] = "errorStore"
      BY <1>5, <2>1, <2>4, LostAreGivenUp DEF StoreFailed
    <3>2. proc[t] = "refused" /\ ~rows[t].exited
      BY <2>1, <2>4, <3>1 DEF RefusalsAreOnce
    <3>3. ~IsSettled(rows[t])
      BY <2>1, <2>4, <3>2 DEF OutcomesAreOwn
    <3>4. RecordOf(t) = "open" /\ ProcessOf(t) = "refused"
      BY <1>2, <2>1, <3>2, <3>3 DEF RecordOf, ProcessOf, IsSettled, IsOpen, Row, Status
    <3>5. Promise!Record(t)
      BY <1>1, <2>1, <2>2, <3>4, RecordStep
    <3>. QED BY <2>1, <3>5 DEF Promise!Next
  <2>. QED BY <2>3, <2>4
<1>. QED BY <1>4, <1>5

\* The critical section of a run request is a Submit, however it ends.
LEMMA SubmitStep ==
    ASSUME ReportInv, NEW j \in Job, RunSelect(j) \/ RunSelectFails(j), UNCHANGED workerVars
    PROVE  Promise!Submit(j)
<1>. USE DEF ReportInv, Ground, Verdicts
<1>1. PICK nodes \in SUBSET Connected : Selected(j, nodes)
  BY Selections
<1>. DEFINE new == TasksOf(j, nodes)
<1>2. /\ assigned[j] = {} /\ assigned'[j] = new
      /\ \A k \in Job \ {j} : assigned'[k] = assigned[k]
      /\ \A t \in new : t \in Task /\ t \notin Known
      /\ \A t \in Task : rows'[t] = IF t \in new THEN [rows[t] EXCEPT !.status = "queued"] ELSE rows[t]
  BY <1>1, SelectedAreNew DEF TasksAreKnown
<1>3. /\ assigned' = [assigned EXCEPT ![j] = new]
      /\ UNCHANGED <<kpc, link, proc, exitOk, verdict>>
  BY <1>1 DEF Selected, RecordAssignments, killVars, wireVars, workerVars
<1>4. \A t \in new : RecordOf(t) = "none" /\ ProcessOf(t) = "none"
  <2>1. \A t \in new : rows[t].status = "absent" /\ proc[t] = "none"
    BY <1>2 DEF TasksAreKnown, KnownTasks
  <2>2. \A t \in new : RecordOf(t) = "none"
    BY <2>1 DEF RecordOf, IsOpen
  <2>3. \A t \in new : ProcessOf(t) = "none"
    BY <2>1 DEF ProcessOf
  <2>. QED BY <2>2, <2>3
<1>5. \A t \in Task : /\ RecordOf(t)' = IF t \in new THEN "open" ELSE RecordOf(t)
                      /\ rows'[t].exited = rows[t].exited
  <2>1. \A t \in Task : rows[t] \in Row
    BY DEF Typed, TypeOK, CoordTypeOK, StoreTypeOK
  <2>2. ASSUME NEW t \in new PROVE RecordOf(t)' = "open" /\ rows'[t].exited = rows[t].exited
    <3>1. rows'[t].status = "queued" /\ rows'[t].exited = rows[t].exited
      BY <1>2, <2>1 DEF Row
    <3>. QED BY <3>1 DEF RecordOf, IsOpen
  <2>3. ASSUME NEW t \in Task \ new PROVE RecordOf(t)' = RecordOf(t) /\ rows'[t].exited = rows[t].exited
    BY <1>2 DEF RecordOf
  <2>. QED BY <2>2, <2>3
<1>6. PICK pc \in {"rejected", "announce", "aborted"} :
          /\ rpc[j] = "subscribed" /\ rpc' = [rpc EXCEPT ![j] = pc]
          /\ pc = "announce" => nodes # {}
  BY <1>1 DEF Selected
<1>7. /\ AnswerOf(j) = "none"
      /\ \A k \in Job \ {j} : AnswerOf(k)' = AnswerOf(k)
      /\ AnswerOf(j)' = "gone" \/ (AnswerOf(j)' = "none" /\ new # {})
  <2>1. \A k \in Job : rpc'[k] = IF k = j THEN pc ELSE rpc[k]
    BY <1>6 DEF Typed, TypeOK, CoordTypeOK, RunTypeOK
  <2>2. nodes # {} => new # {}
    BY DEF TasksOf
  <2>. QED BY <1>6, <2>1, <2>2 DEF AnswerOf, Finished, RunEnded
<1>8. [k \in Job |-> AnswerOf(k)]' \in
          {[[k \in Job |-> AnswerOf(k)] EXCEPT ![j] = "gone"]}
              \cup IF new = {} THEN {} ELSE {[k \in Job |-> AnswerOf(k)]}
  BY <1>7
<1>9. {t \in Task : rows[t].exited}' = {t \in Task : rows[t].exited}
  BY <1>5
<1>10. new \in SUBSET Task /\ Promise!Ask(j, new)
  BY <1>2, <1>3, <1>4, <1>5, <1>7 DEF Promise!Ask
<1>. QED BY <1>3, <1>8, <1>9, <1>10, ViewsStay DEF Promise!Submit

\* The end of the wait loop is an Answer, and the answer is right.
LEMMA AnswerStep ==
    ASSUME ReportInv, ExitsAreRecorded, NEW j \in Job, RunFinish(j), UNCHANGED workerVars
    PROVE  Promise!Answer(j)
<1>. USE DEF ReportInv, Ground, Verdicts, Reporting
<1>1. /\ UNCHANGED <<assigned, rows, kpc, link, proc, exitOk, verdict>>
      /\ rpc[j] = "waiting" /\ pending[j] = {}
      /\ rpc' = [rpc EXCEPT ![j] = IF allOk[j] THEN "ok" ELSE "failed"]
  BY DEF RunFinish, RunGoto, storeVars, killVars, wireVars, workerVars
<1>2. assigned[j] # {} /\ assigned[j] \subseteq Task
  BY <1>1 DEF SuccessIsHonest, AnswersAreHonest, Typed, TypeOK, CoordTypeOK, RunTypeOK
<1>3. assigned[j] \subseteq {t \in Task : rows[t].exited}
  BY <1>1, <1>2 DEF ExitsAreRecorded, WaitersRecorded
<1>4. /\ AnswerOf(j) = "none"
      /\ AnswerOf(j)' = IF allOk[j] THEN "ok" ELSE "failed"
      /\ \A k \in Job \ {j} : AnswerOf(k)' = AnswerOf(k)
  <2>1. \A k \in Job : rpc'[k] = IF k = j THEN IF allOk[j] THEN "ok" ELSE "failed" ELSE rpc[k]
    BY <1>1 DEF Typed, TypeOK, CoordTypeOK, RunTypeOK
  <2>2. AnswerOf(j) = "none" /\ \A k \in Job \ {j} : AnswerOf(k)' = AnswerOf(k)
    BY <1>1, <2>1 DEF AnswerOf, Finished, RunEnded
  <2>3. rpc'[j] = (IF allOk[j] THEN "ok" ELSE "failed") /\ rpc'[j] \in {"ok", "failed"}
    BY <2>1
  <2>4. AnswerOf(j)' = rpc'[j]
    BY <2>3 DEF AnswerOf, Finished, RunEnded
  <2>. QED BY <2>2, <2>3, <2>4
<1>5. {t \in Task : rows[t].exited}' = {t \in Task : rows[t].exited}
  BY <1>1
<1>6. CASE allOk[j]
  <2>1. \A t \in assigned[j] : t \in Succeeded
    BY <1>1, <1>6 DEF SuccessIsHonest, AnswersAreHonest
  <2>2. ASSUME NEW t \in assigned[j] PROVE ProcessOf(t) = "succeeded"
    <3>1. proc[t] = "done" /\ verdict[t] /\ exitOk[t]
      BY <2>1 DEF Succeeded
    <3>. QED BY <3>1 DEF ProcessOf
  <2>3. ASSUME NEW t \in assigned[j] \ Disturbed PROVE RecordOf(t) = "succeeded"
    <3>1. t \in Task /\ t \notin GivenUp /\ rows[t].exited
      BY <1>2, <1>3, <2>3, GivenUpIsDisturbed
    <3>2. IsSettled(rows[t]) /\ rows[t].status # "failed"
      BY <2>1, <2>3, <3>1 DEF OutcomesAreOwn, Succeeded
    <3>. QED BY <3>2 DEF IsSettled, RecordOf, IsOpen
  <2>4. [k \in Job |-> AnswerOf(k)]' = [[k \in Job |-> AnswerOf(k)] EXCEPT ![j] = "ok"]
    BY <1>4, <1>6
  <2>. QED BY <1>1, <1>2, <1>3, <1>4, <1>5, <2>2, <2>3, <2>4, ViewsStay DEF Promise!Answer
<1>7. CASE ~allOk[j]
  <2>1. PICK t \in assigned[j] : t \in Failing
    BY <1>7 DEF FailuresAreTold, FailuresIn
  <2>2. t \in Task /\ (RecordOf(t) = "failed" \/ t \in Disturbed)
    BY <1>2, <2>1, GivenUpIsDisturbed DEF Failing, RecordOf, IsOpen
  <2>3. [k \in Job |-> AnswerOf(k)]' = [[k \in Job |-> AnswerOf(k)] EXCEPT ![j] = "failed"]
    BY <1>4, <1>7
  <2>. QED BY <1>1, <1>2, <1>3, <1>4, <1>5, <2>1, <2>2, <2>3, ViewsStay DEF Promise!Answer
<1>. QED BY <1>6, <1>7

\* A step of a worker starts or ends one process, or none.
LEMMA WorkerSteps ==
    ASSUME ReportInv, [Next]_vars, WorkerNext, UNCHANGED coordVars
    PROVE  Promise!Next
<1>. USE DEF ReportInv, Ground, Verdicts
<1>1. UNCHANGED <<assigned, rows, rpc, kpc>> /\ Disturbed \subseteq Disturbed'
  BY DisturbedLasts DEF coordVars, storeVars, runVars, killVars
<1>2. ASSUME \A t \in Task : ProcessOf(t)' = ProcessOf(t) PROVE Promise!Next
  BY <1>1, <1>2, ViewsStay, QuietStep DEF Promise!Next
<1>3. CASE UNCHANGED <<proc, exitOk, verdict>>
  BY <1>2, <1>3, ViewsStay
<1>4. ASSUME NEW c \in Conn, ReceiveStart(c) PROVE Promise!Next
  <2>1. PICK t \in Task : t = toWorker[c][1].task /\ proc[t] = "none" /\ Head(toWorker[c]) = toWorker[c][1]
    BY <1>4, HeadTaken DEF ReceiveStart, StartedOnce, StartsAreNew, DownMessage
  <2>2. \A u \in Task : /\ proc'[u] = IF u = t THEN "received" ELSE proc[u]
                        /\ exitOk'[u] = exitOk[u] /\ verdict'[u] = verdict[u]
    BY <1>4, <2>1 DEF ReceiveStart, Typed, TypeOK, WorkerTypeOK
  <2>3. \A u \in Task : ProcessOf(u)' = ProcessOf(u)
    BY <2>1, <2>2 DEF ProcessOf
  <2>. QED BY <1>2, <2>3
<1>5. ASSUME NEW t \in Task, TaskStep(t) \/ ChildStep(t) PROVE Promise!Next
  <2>0. \A u \in Task \ {t} : ProcessOf(u)' = ProcessOf(u)
    <3>1. \A u \in Task \ {t} : proc'[u] = proc[u] /\ exitOk'[u] = exitOk[u] /\ verdict'[u] = verdict[u]
      BY <1>5 DEF TaskStep, ChildStep, StartChild, Forward, ReadLine, Reap, TimeOut, Terminate,
                  RemovePid, SendExited, RefuseTask, WriteLine, ChildExits,
                  Typed, TypeOK, WorkerTypeOK
    <3>. QED BY <3>1 DEF ProcessOf
  <2>1. CASE StartChild(t) \/ RefuseTask(t)
    <3>1. proc[t] = "received" /\ proc'[t] \in {"running", "refused"} /\ UNCHANGED link
      BY <2>1 DEF StartChild, RefuseTask, wireVars, Typed, TypeOK, WorkerTypeOK
    <3>2. t \in Known
      BY <3>1 DEF TasksAreKnown, KnownTasks
    <3>3. ProcessOf(t) = "none" /\ ProcessOf(t)' \in {"live", "refused"}
      BY <3>1 DEF ProcessOf
    <3>4. Promise!Start(t)
      BY <1>1, <2>0, <3>1, <3>2, <3>3, ProcessStep
    <3>. QED BY <3>4 DEF Promise!Next
  <2>2. CASE Reap(t) \/ Terminate(t)
    <3>1. proc[t] \in {"exited", "terminating"} /\ proc'[t] = "reaped" /\ UNCHANGED link
      BY <2>2 DEF Reap, Terminate, wireVars, Typed, TypeOK, WorkerTypeOK
    <3>2. ProcessOf(t) = "live" /\ ProcessOf(t)' \in {"succeeded", "failed"}
      BY <3>1 DEF ProcessOf
    <3>3. Promise!End(t)
      BY <1>1, <2>0, <3>1, <3>2, ProcessStep
    <3>. QED BY <3>3 DEF Promise!Next
  <2>3. CASE TimeOut(t) \/ ChildExits(t)
    <3>1. proc[t] \in {"running", "exited"} /\ proc'[t] \in {"terminating", "exited"}
      BY <2>3 DEF TimeOut, ChildExits, Typed, TypeOK, WorkerTypeOK
    <3>2. ProcessOf(t)' = ProcessOf(t)
      BY <3>1 DEF ProcessOf
    <3>. QED BY <1>2, <2>0, <3>2
  <2>4. CASE RemovePid(t) \/ SendExited(t)
    <3>1. /\ proc[t] \in {"reaped", "removed"} /\ proc'[t] \in {"removed", "done"}
          /\ UNCHANGED <<exitOk, verdict>>
      BY <2>4 DEF RemovePid, SendExited, Typed, TypeOK, WorkerTypeOK
    <3>2. ProcessOf(t)' = ProcessOf(t)
      BY <3>1 DEF ProcessOf
    <3>. QED BY <1>2, <2>0, <3>2
  <2>5. CASE Forward(t) \/ ReadLine(t) \/ WriteLine(t)
    BY <1>3, <2>5 DEF Forward, ReadLine, WriteLine
  <2>. QED BY <1>5, <2>1, <2>2, <2>3, <2>4, <2>5 DEF TaskStep, ChildStep
<1>. QED BY <1>3, <1>4, <1>5 DEF WorkerNext, ReadLoop, ReceiveKill, Connect, Disconnect, workerVars

\* A step of the coordinator writes to the rows, answers a client, or changes nothing the
\* promise sees but that a request may end and tasks may be disturbed.
LEMMA CoordSteps ==
    ASSUME ReportInv, ExitsAreRecorded, [Next]_vars, CoordNext, UNCHANGED workerVars
    PROVE  Promise!Next
<1>. USE DEF ReportInv, Ground, Verdicts, Typed, TypeOK, CoordTypeOK, RunTypeOK
<1>1. UNCHANGED <<proc, exitOk, verdict>> /\ Disturbed \subseteq Disturbed'
  BY DisturbedLasts DEF workerVars
<1>2. ASSUME UNCHANGED <<assigned, rows>>,
             \A j \in Job : \/ rpc'[j] = rpc[j]
                            \/ rpc[j] \notin RunEnded /\ rpc'[j] \notin {"ok", "failed"}
      PROVE  Promise!Next
  BY <1>1, <1>2, ViewsStay, QuietStep DEF Promise!Next
<1>3. CASE UNCHANGED <<assigned, rows, rpc>>
  BY <1>2, <1>3
<1>4. ASSUME NEW c \in Conn, HandlerStep(c) \/ WriterFails(c) PROVE Promise!Next
  <2>1. CASE StoreStarted(c) \/ StoreExited(c) \/ StoreFailed(c) \/ StoreLost(c)
    BY <2>1, StoreSteps
  <2>. QED BY <1>3, <1>4, <2>1
     DEF HandlerStep, RegisterWorker, TrackStarted, ReceiveLine, UntrackExited, UntrackFailed,
         PublishFailed, Publish, StreamCloses, StreamFails, DropNode, PublishLostLine,
         PublishLost, AllLost, WriterFails, storeVars, runVars
<1>5. ASSUME NEW j \in Job, RunStep(j) \/ KillStep(j) \/ ClientStep(j) PROVE Promise!Next
  <2>1. CASE RunSelect(j) \/ RunSelectFails(j)
    BY <2>1, SubmitStep DEF Promise!Next
  <2>2. CASE RunFinish(j)
    BY <2>2, AnswerStep DEF Promise!Next
  <2>3. CASE RunDispatch(j) \/ RunReceive(j) \/ KillStep(j) \/ KillCollect(j)
    BY <1>3, <2>3 DEF RunDispatch, RunReceive, KillStep, KillSend, KillFails, KillAck, KillCollect,
                      storeVars, runVars
  <2>4. CASE \/ RunSubscribe(j) \/ RunAnnounce(j) \/ RunDispatchFails(j) \/ RunDispatched(j)
             \/ RunLagged(j) \/ RunClientGone(j)
    <3>1. UNCHANGED <<assigned, rows>>
      BY <2>4 DEF RunSubscribe, RunAnnounce, RunDispatchFails, RunDispatched, RunLagged,
                  RunClientGone, storeVars
    <3>2. /\ rpc[j] \notin RunEnded
          /\ \E pc \in {"subscribed", "dispatch", "waiting", "acked", "aborted"} :
                rpc' = [rpc EXCEPT ![j] = pc]
      BY <2>4 DEF RunSubscribe, RunAnnounce, RunDispatchFails, RunDispatched, RunLagged,
                  RunClientGone, RunGoto, RunEnded
    <3>. QED BY <1>2, <3>1, <3>2
  <2>. QED BY <1>5, <2>1, <2>2, <2>3, <2>4 DEF RunStep, ClientStep
<1>6. ASSUME NEW l \in Lease, CreateLease(l) \/ ReleaseLease(l) PROVE Promise!Next
  BY <1>3, <1>6 DEF CreateLease, ReleaseLease, storeVars, runVars
<1>. QED BY <1>4, <1>5, <1>6 DEF CoordNext

\* The initial state, a step and a restart, for the simulation.
LEMMA InitImplemented == Init => Promise!Init
<1>. SUFFICES ASSUME Init PROVE Promise!Init
  OBVIOUS
<1>. USE DEF Init, WireInit, CoordInit, WorkerInit
<1>1. \A t \in Task : ProcessOf(t) = "none" /\ RecordOf(t) = "none" /\ ~rows[t].exited
  BY DEF ProcessOf, RecordOf, IsOpen, NoRow
<1>2. \A j \in Job : AnswerOf(j) = "none"
  BY DEF AnswerOf, Finished, RunEnded
<1>3. Disturbed = {}
  BY Parts DEF Disturbed, HasEnded
<1>. QED BY <1>1, <1>2, <1>3 DEF Promise!Init

\* Each step of the cluster is a step of Jobs, or none.
LEMMA StepImplemented ==
    ASSUME ReportInv, ExitsAreRecorded, [Next]_vars
    PROVE  [Promise!Next]_Promise!jobVars
<1>1. CASE CoordNext /\ UNCHANGED workerVars
  BY <1>1, CoordSteps
<1>2. CASE WorkerNext /\ UNCHANGED coordVars
  BY <1>2, WorkerSteps
<1>3. CASE UNCHANGED vars
  <2>1. UNCHANGED <<assigned, rows, rpc, kpc, link, proc, exitOk, verdict>>
    BY <1>3 DEF vars, wireVars, coordVars, workerVars, storeVars, runVars, killVars
  <2>2. Disturbed \subseteq Disturbed'
    BY <2>1, ViewsStay
  <2>3. Promise!Interrupt
    BY <2>1, <2>2, ViewsStay, QuietStep DEF ReportInv, Ground, Verdicts
  <2>. QED BY <2>3 DEF Promise!Next
<1>. QED BY <1>1, <1>2, <1>3 DEF Next

\* A restart is one Interrupt: every request ends, and what one of them was recording is
\* asked for.
LEMMA RestartImplemented ==
    ASSUME ReportInv, CoordinatorRestarts
    PROVE  Promise!Interrupt
<1>. USE DEF ReportInv, Ground, Verdicts, Typed, TypeOK, CoordTypeOK, RunTypeOK
<1>1. /\ UNCHANGED <<proc, exitOk, verdict>>
      /\ \A j \in Job : rpc'[j] = IF rpc[j] \in {"idle"} \cup RunEnded THEN rpc[j] ELSE "aborted"
      /\ \A j \in Job : kpc'[j] = IF kpc[j] = "sending" THEN "failed" ELSE kpc[j]
      /\ \A c \in Conn : link'[c] = IF link[c] \in {"open", "deaf"} THEN "reset" ELSE link[c]
  BY DEF CoordinatorRestarts, ConnectionsReset, HandlersEnd
<1>2. Disturbed \subseteq Disturbed'
  BY <1>1, Parts DEF Disturbed, HasEnded
<1>3. /\ \A t \in Task : ProcessOf(t)' = ProcessOf(t)
      /\ \A t \in Task : rows'[t].exited = rows[t].exited
  BY <1>1, ViewsStay, RestartKnown
<1>4. \A j \in Job : rpc'[j] = rpc[j] \/ (rpc[j] \notin RunEnded /\ rpc'[j] \notin {"ok", "failed"})
  BY <1>1
<1>5. CASE UNCHANGED <<rows, assigned>>
  BY <1>2, <1>3, <1>4, <1>5, ViewsStay, QuietStep
<1>6. ASSUME NEW j \in Job, NEW nodes \in SUBSET Connected, rpc[j] = "subscribed",
             rows' = RecordTaskDispatched(rows, TasksOf(j, nodes)),
             assigned' = [assigned EXCEPT ![j] = TasksOf(j, nodes)]
      PROVE  Promise!Interrupt
  <2>. DEFINE new == TasksOf(j, nodes)
  <2>1. assigned[j] = {} /\ AnswerOf(j) = "none"
    BY <1>6 DEF TasksAreKnown, KnownRuns, AnswerOf, Finished, RunEnded
  <2>2. \A t \in new : t \in Task /\ t \notin Known
    BY <2>1 DEF TasksOf, Task, JobOf, Connected, RegistryTypeOK, Known
  <2>3. \A t \in new : RecordOf(t) = "none" /\ ProcessOf(t) = "none"
    <3>1. \A t \in new : rows[t].status = "absent" /\ proc[t] = "none"
      BY <2>2 DEF TasksAreKnown, KnownTasks
    <3>2. \A t \in new : RecordOf(t) = "none"
      BY <3>1 DEF RecordOf, IsOpen
    <3>3. \A t \in new : ProcessOf(t) = "none"
      BY <3>1 DEF ProcessOf
    <3>. QED BY <3>2, <3>3
  <2>4. \A t \in Task : rows'[t] = IF t \in new THEN [rows[t] EXCEPT !.status = "queued"] ELSE rows[t]
    BY <1>6 DEF RecordTaskDispatched, StoreTypeOK
  <2>5. \A t \in Task : RecordOf(t)' = IF t \in new THEN "open" ELSE RecordOf(t)
    <3>1. \A t \in Task : rows[t] \in Row
      BY DEF StoreTypeOK
    <3>2. ASSUME NEW t \in new PROVE RecordOf(t)' = "open"
      <4>1. rows'[t].status = "queued"
        BY <2>2, <2>4, <3>1 DEF Row
      <4>. QED BY <4>1 DEF RecordOf, IsOpen
    <3>3. ASSUME NEW t \in Task \ new PROVE RecordOf(t)' = RecordOf(t)
      BY <2>4 DEF RecordOf
    <3>. QED BY <3>2, <3>3
  <2>6. new \in SUBSET Task /\ Promise!Ask(j, new)
    BY <1>6, <2>1, <2>2, <2>3, <2>5 DEF Promise!Ask
  <2>7. \A k \in Job : /\ AnswerOf(k) \in {"none", "ok", "failed", "gone"}
                       /\ AnswerOf(k)' = AnswerOf(k) \/ (AnswerOf(k) = "none" /\ AnswerOf(k)' = "gone")
    BY <1>4, AnswerMoves
  <2>8. {t \in Task : rows[t].exited}' = {t \in Task : rows[t].exited}
    BY <1>3
  <2>9. Disturbed' \subseteq Task
    BY DEF Disturbed
  <2>. QED BY <1>2, <1>3, <2>6, <2>7, <2>8, <2>9 DEF Promise!Interrupt
<1>. QED BY <1>5, <1>6, RecordedInTheEnd DEF CoordinatorRestarts

\* Whatever handlers, channels and races are in between, the client, the store and the
\* processes only take the steps that Jobs allows: for any number of nodes, connections,
\* jobs and kill requests, and any capacity of the channels.
THEOREM ClusterImplementsJobs == Spec => ImplementsJobs
<1>1. Init => ReportInv /\ ExitsAreRecorded /\ Promise!Init
  BY ReportInit, InitRecords, InitImplemented
<1>2. ReportInv /\ ExitsAreRecorded /\ [Next]_vars => ReportInv' /\ ExitsAreRecorded'
  BY ReportInductive, NextRecords DEF ReportInv, Ground, Verdicts
<1>3. ReportInv /\ ExitsAreRecorded /\ [Next]_vars => [Promise!Next]_Promise!jobVars
  BY StepImplemented
<1>. QED BY <1>1, <1>2, <1>3, PTL DEF Spec, ImplementsJobs, Promise!Spec

\* So they do when the coordinator is stopped and started again, any number of times.
THEOREM RestartsImplementJobs == RSpec => ImplementsJobs
<1>1. RInit => Promise!Init
  BY InitImplemented DEF RInit
<1>2. RecoveryInv /\ [RNext]_recoveryVars => [Promise!Next]_Promise!jobVars
  <2>. SUFFICES ASSUME RecoveryInv, [RNext]_recoveryVars PROVE [Promise!Next]_Promise!jobVars
    OBVIOUS
  <2>1. CASE [Next]_vars
    BY <2>1, StepImplemented DEF RecoveryInv
  <2>2. CASE CoordinatorRestarts
    BY <2>2, RestartImplemented DEF RecoveryInv, Promise!Next
  <2>. QED BY <2>1, <2>2 DEF RNext, recoveryVars
<1>. QED BY <1>1, <1>2, RecoveryInit, RecoveryInductive, PTL DEF RSpec, ImplementsJobs, Promise!Spec
=============================================================================
