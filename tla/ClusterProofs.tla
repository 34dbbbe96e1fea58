---------------------------- MODULE ClusterProofs ----------------------------
(***************************************************************************)
(* The system is type correct for any numbers of nodes, connections, jobs  *)
(* and leases, with one lemma for each process: the coordinator's handlers *)
(* of workers, of run requests and of kill requests, the lease table, the  *)
(* worker's sessions and its tasks.                                        *)
(*                                                                         *)
(* And leases keep their promise: an exclusive lease shares no node with   *)
(* another lease (ExclusiveLeases), a run under a lease stays on its nodes *)
(* (RunStaysInLease), and so runs under different leases do not meet       *)
(* (LeasedRunsAreApart).                                                   *)
(***************************************************************************)
EXTENDS Cluster, TLAPS

\* TypeOK is not inductive: UntrackExited and its kind take a task from cur[c], which
\* may be the registration.  HandlingTask says that there it is not.
Typed == TypeOK /\ HandlingTask

\* What a step leaves alone stays typed.
LEMMA Frames ==
    ASSUME Typed
    PROVE  /\ UNCHANGED wireVars => WireTypeOK'
           /\ UNCHANGED registryVars => RegistryTypeOK'
           /\ UNCHANGED storeVars => StoreTypeOK'
           /\ UNCHANGED handlerVars => HandlerTypeOK' /\ HandlingTask'
           /\ UNCHANGED runVars => RunTypeOK'
           /\ UNCHANGED killVars => KillTypeOK'
           /\ UNCHANGED workerVars => WorkerTypeOK'
           /\ Typed' <=> /\ WireTypeOK' /\ WorkerTypeOK' /\ HandlingTask'
                         /\ RegistryTypeOK' /\ StoreTypeOK' /\ HandlerTypeOK'
                         /\ RunTypeOK' /\ KillTypeOK'
<1>1. UNCHANGED wireVars => WireTypeOK'
  BY DEF Typed, TypeOK, WireTypeOK, wireVars
<1>2. UNCHANGED registryVars => RegistryTypeOK'
  BY DEF Typed, TypeOK, CoordTypeOK, RegistryTypeOK, LeasesTypeOK, registryVars
<1>3. UNCHANGED storeVars => StoreTypeOK'
  BY DEF Typed, TypeOK, CoordTypeOK, StoreTypeOK, storeVars
<1>4. UNCHANGED handlerVars => HandlerTypeOK' /\ HandlingTask'
  BY DEF Typed, TypeOK, CoordTypeOK, HandlerTypeOK, HandlingTask, handlerVars
<1>5. UNCHANGED runVars => RunTypeOK'
  BY DEF Typed, TypeOK, CoordTypeOK, RunTypeOK, runVars
<1>6. UNCHANGED killVars => KillTypeOK'
  BY DEF Typed, TypeOK, CoordTypeOK, KillTypeOK, killVars
<1>7. UNCHANGED workerVars => WorkerTypeOK'
  BY DEF Typed, TypeOK, WorkerTypeOK, workerVars
<1>. QED BY <1>1, <1>2, <1>3, <1>4, <1>5, <1>6, <1>7 DEF Typed, TypeOK, CoordTypeOK

\* The messages of the code are messages.
LEMMA MessagesTyped ==
    ASSUME NEW t \in Task, NEW b \in BOOLEAN
    PROVE  /\ TaskStarted(t) \in TaskMessage /\ LogLine(t) \in TaskMessage
           /\ SystemLine(t) \in TaskMessage /\ TaskExited(t, b) \in TaskMessage
           /\ WorkerError(t) \in TaskMessage
           /\ StartTask(t) \in DownMessage /\ KillTask(t) \in DownMessage
BY DEF TaskStarted, LogLine, SystemLine, TaskExited, WorkerError, StartTask, KillTask,
       TaskMessage, DownMessage

\* A broadcast leaves the run handlers typed.
LEMMA BroadcastTyped ==
    ASSUME RunTypeOK, NEW e \in TaskMessage, Broadcast(e),
           UNCHANGED <<rpc, under, assigned, queue, pending, allOk, shown>>
    PROVE  RunTypeOK'
<1>1. ASSUME NEW j \in Job PROVE Append(sub[j], e) \in Seq(TaskMessage)
  BY DEF RunTypeOK
<1>2. sub' \in [Job -> Seq(TaskMessage)]
  BY <1>1 DEF RunTypeOK, Broadcast
<1>. QED BY <1>2 DEF RunTypeOK

\* The parts of a connection and of a task.
LEMMA Parts ==
    /\ \A c \in Conn : NodeOf(c) \in Node
    /\ \A t \in Task : JobOf(t) \in Job /\ ConnOf(t) \in Conn
BY DEF Conn, Task, NodeOf, JobOf, ConnOf

\* The critical section of run_process leaves the registry, the store and the
\* assignments typed.
LEMMA AssignmentsTyped ==
    ASSUME Typed, NEW j \in Job, NEW nodes \in SUBSET Connected, RecordAssignments(j, nodes)
    PROVE  /\ StoreTypeOK'
           /\ running' \in [Node -> SUBSET Task]
           /\ assigned' \in [Job -> SUBSET Task]
<1>1. ASSUME NEW S \in SUBSET Connected PROVE TasksOf(j, S) \in SUBSET Task
  BY DEF Typed, TypeOK, CoordTypeOK, RegistryTypeOK, Connected, TasksOf, Task
<1>2. StoreTypeOK'
  BY DEF Typed, TypeOK, CoordTypeOK, StoreTypeOK, Row, Status, RecordAssignments,
         RecordTaskDispatched
<1>3. running' \in [Node -> SUBSET Task]
  BY <1>1 DEF Typed, TypeOK, CoordTypeOK, RegistryTypeOK, RecordAssignments
<1>4. assigned' \in [Job -> SUBSET Task]
  BY <1>1 DEF Typed, TypeOK, CoordTypeOK, RunTypeOK, RecordAssignments
<1>. QED BY <1>2, <1>3, <1>4

\* Every step of a connection's handler keeps the state typed.
LEMMA HandlerStepTyped ==
    ASSUME Typed, NEW c \in Conn, HandlerStep(c), UNCHANGED workerVars
    PROVE  Typed'
<1>1. CASE RegisterWorker(c)
  <2>1. WireTypeOK'
    BY <1>1 DEF Typed, TypeOK, CoordTypeOK, RegisterWorker, WireTypeOK, Take
  <2>2. RegistryTypeOK'
    BY <1>1 DEF Typed, TypeOK, CoordTypeOK, RegisterWorker, RegistryTypeOK, LeasesTypeOK
  <2>3. HandlerTypeOK'
    BY <1>1
       DEF Typed, TypeOK, CoordTypeOK, RegisterWorker, HandlerTypeOK, HandlerPC, Take, Goto,
           WireTypeOK
  <2>4. HandlingTask'
    BY <1>1 DEF Typed, TypeOK, CoordTypeOK, RegisterWorker, HandlingTask, HandlerTypeOK, Take, Goto
  <2>. QED BY <1>1, <2>1, <2>2, <2>3, <2>4, Frames DEF Typed, RegisterWorker
<1>2. CASE StoreStarted(c)
  <2>1. WireTypeOK'
    BY <1>2 DEF Typed, TypeOK, CoordTypeOK, StoreStarted, WireTypeOK, Take, Incoming
  <2>2. StoreTypeOK'
    BY <1>2
       DEF Typed, TypeOK, CoordTypeOK, StoreStarted, StoreTypeOK, Row, Status, RecordTaskStarted
  <2>3. HandlerTypeOK'
    BY <1>2
       DEF Typed, TypeOK, CoordTypeOK, StoreStarted, HandlerTypeOK, HandlerPC, Take, Goto,
           Incoming, WireTypeOK
  <2>4. HandlingTask'
    BY <1>2
       DEF Typed, TypeOK, CoordTypeOK, StoreStarted, HandlingTask, HandlerTypeOK, Take, Goto,
           Incoming, WireTypeOK, UpMessage, Register
  <2>. QED BY <1>2, <2>1, <2>2, <2>3, <2>4, Frames DEF Typed, StoreStarted
<1>3. CASE TrackStarted(c)
  <2>1. RegistryTypeOK'
    BY <1>3
       DEF Typed, TypeOK, CoordTypeOK, TrackStarted, RegistryTypeOK, LeasesTypeOK, Track,
           HandlingTask, TaskMessage
  <2>2. HandlerTypeOK'
    BY <1>3 DEF Typed, TypeOK, CoordTypeOK, TrackStarted, HandlerTypeOK, HandlerPC, Goto
  <2>3. HandlingTask'
    BY <1>3 DEF Typed, TypeOK, CoordTypeOK, TrackStarted, HandlingTask, HandlerTypeOK, Goto
  <2>. QED BY <1>3, <2>1, <2>2, <2>3, Frames DEF Typed, TrackStarted
<1>4. CASE ReceiveLine(c)
  <2>1. WireTypeOK'
    BY <1>4 DEF Typed, TypeOK, CoordTypeOK, ReceiveLine, WireTypeOK, Take, Incoming
  <2>2. HandlerTypeOK'
    BY <1>4
       DEF Typed, TypeOK, CoordTypeOK, ReceiveLine, HandlerTypeOK, HandlerPC, Take, Goto,
           Incoming, WireTypeOK
  <2>3. HandlingTask'
    BY <1>4
       DEF Typed, TypeOK, CoordTypeOK, ReceiveLine, HandlingTask, HandlerTypeOK, Take, Goto,
           Incoming, WireTypeOK, UpMessage, Register
  <2>. QED BY <1>4, <2>1, <2>2, <2>3, Frames DEF Typed, ReceiveLine
<1>5. CASE StoreExited(c)
  <2>1. WireTypeOK'
    BY <1>5 DEF Typed, TypeOK, CoordTypeOK, StoreExited, WireTypeOK, Take, Incoming
  <2>2. StoreTypeOK'
    BY <1>5 DEF Typed, TypeOK, CoordTypeOK, StoreExited, StoreTypeOK, Row, Status, RecordTaskExited
  <2>3. HandlerTypeOK'
    BY <1>5
       DEF Typed, TypeOK, CoordTypeOK, StoreExited, HandlerTypeOK, HandlerPC, Take, Goto,
           Incoming, WireTypeOK
  <2>4. HandlingTask'
    BY <1>5
       DEF Typed, TypeOK, CoordTypeOK, StoreExited, HandlingTask, HandlerTypeOK, Take, Goto,
           Incoming, WireTypeOK, UpMessage, Register
  <2>. QED BY <1>5, <2>1, <2>2, <2>3, <2>4, Frames DEF Typed, StoreExited
<1>6. CASE UntrackExited(c)
  <2>1. RegistryTypeOK'
    BY <1>6 DEF Typed, TypeOK, CoordTypeOK, UntrackExited, RegistryTypeOK, LeasesTypeOK, Untrack
  <2>2. HandlerTypeOK'
    BY <1>6 DEF Typed, TypeOK, CoordTypeOK, UntrackExited, HandlerTypeOK, HandlerPC, Goto
  <2>3. HandlingTask'
    BY <1>6 DEF Typed, TypeOK, CoordTypeOK, UntrackExited, HandlingTask, HandlerTypeOK, Goto
  <2>. QED BY <1>6, <2>1, <2>2, <2>3, Frames DEF Typed, UntrackExited
<1>7. CASE UntrackFailed(c)
  <2>1. WireTypeOK'
    BY <1>7 DEF Typed, TypeOK, CoordTypeOK, UntrackFailed, WireTypeOK, Take, Incoming
  <2>2. RegistryTypeOK'
    BY <1>7 DEF Typed, TypeOK, CoordTypeOK, UntrackFailed, RegistryTypeOK, LeasesTypeOK, Untrack
  <2>3. HandlerTypeOK'
    BY <1>7
       DEF Typed, TypeOK, CoordTypeOK, UntrackFailed, HandlerTypeOK, HandlerPC, Take, Goto,
           Incoming, WireTypeOK
  <2>4. HandlingTask'
    BY <1>7
       DEF Typed, TypeOK, CoordTypeOK, UntrackFailed, HandlingTask, HandlerTypeOK, Take, Goto,
           Incoming, WireTypeOK, UpMessage, Register
  <2>. QED BY <1>7, <2>1, <2>2, <2>3, <2>4, Frames DEF Typed, UntrackFailed
<1>8. CASE StoreFailed(c)
  <2>1. StoreTypeOK'
    BY <1>8 DEF Typed, TypeOK, CoordTypeOK, StoreFailed, StoreTypeOK, Row, Status, RecordTaskExited
  <2>2. HandlerTypeOK'
    BY <1>8 DEF Typed, TypeOK, CoordTypeOK, StoreFailed, HandlerTypeOK, HandlerPC, Goto
  <2>3. HandlingTask'
    BY <1>8 DEF Typed, TypeOK, CoordTypeOK, StoreFailed, HandlingTask, HandlerTypeOK, Goto
  <2>. QED BY <1>8, <2>1, <2>2, <2>3, Frames DEF Typed, StoreFailed
<1>9. CASE PublishFailed(c)
  <2>1. RunTypeOK'
    BY <1>9, MessagesTyped, BroadcastTyped
       DEF Typed, TypeOK, CoordTypeOK, PublishFailed, HandlingTask, HandlerTypeOK, TaskMessage
  <2>2. HandlerTypeOK'
    BY <1>9 DEF Typed, TypeOK, CoordTypeOK, PublishFailed, HandlerTypeOK, HandlerPC, Goto
  <2>3. HandlingTask'
    BY <1>9 DEF Typed, TypeOK, CoordTypeOK, PublishFailed, HandlingTask, HandlerTypeOK, Goto
  <2>. QED BY <1>9, <2>1, <2>2, <2>3, Frames DEF Typed, PublishFailed
<1>10. CASE Publish(c)
  <2>1. RunTypeOK'
    BY <1>10, MessagesTyped, BroadcastTyped DEF Typed, TypeOK, CoordTypeOK, Publish, HandlingTask
  <2>2. HandlerTypeOK'
    BY <1>10 DEF Typed, TypeOK, CoordTypeOK, Publish, HandlerTypeOK, HandlerPC, Goto
  <2>3. HandlingTask'
    BY <1>10 DEF Typed, TypeOK, CoordTypeOK, Publish, HandlingTask, HandlerTypeOK, Goto
  <2>. QED BY <1>10, <2>1, <2>2, <2>3, Frames DEF Typed, Publish
<1>11. CASE StreamCloses(c)
  <2>1. WireTypeOK'
    BY <1>11 DEF Typed, TypeOK, CoordTypeOK, StreamCloses, WireTypeOK
  <2>2. HandlerTypeOK'
    BY <1>11 DEF Typed, TypeOK, CoordTypeOK, StreamCloses, HandlerTypeOK, HandlerPC, Goto
  <2>3. HandlingTask'
    BY <1>11 DEF Typed, TypeOK, CoordTypeOK, StreamCloses, HandlingTask, HandlerTypeOK, Goto
  <2>. QED BY <1>11, <2>1, <2>2, <2>3, Frames DEF Typed, StreamCloses
<1>12. CASE StreamFails(c)
  <2>1. HandlerTypeOK'
    BY <1>12 DEF Typed, TypeOK, CoordTypeOK, StreamFails, HandlerTypeOK, HandlerPC, Goto
  <2>2. HandlingTask'
    BY <1>12 DEF Typed, TypeOK, CoordTypeOK, StreamFails, HandlingTask, HandlerTypeOK, Goto
  <2>. QED BY <1>12, <2>1, <2>2, Frames DEF Typed, StreamFails
<1>13. CASE DropNode(c)
  <2>1. RegistryTypeOK'
    BY <1>13, Parts DEF Typed, TypeOK, CoordTypeOK, DropNode, RegistryTypeOK, LeasesTypeOK
  <2>2. HandlerTypeOK'
    BY <1>13, Parts
       DEF Typed, TypeOK, CoordTypeOK, DropNode, HandlerTypeOK, HandlerPC, Goto, RegistryTypeOK
  <2>3. HandlingTask'
    BY <1>13, Parts DEF Typed, TypeOK, CoordTypeOK, DropNode, HandlingTask, HandlerTypeOK, Goto
  <2>. QED BY <1>13, <2>1, <2>2, <2>3, Frames DEF Typed, DropNode
<1>14. CASE PublishLostLine(c)
  <2>1. PICK t \in lost[c] : /\ cur' = [cur EXCEPT ![c] = TaskExited(t, FALSE)]
                            /\ lost' = [lost EXCEPT ![c] = @ \ {t}]
                            /\ Broadcast(SystemLine(t))
    BY <1>14 DEF PublishLostLine
  <2>2. t \in Task
    BY DEF Typed, TypeOK, CoordTypeOK, HandlerTypeOK
  <2>3. TaskExited(t, FALSE) \in TaskMessage /\ SystemLine(t) \in TaskMessage
    BY <2>2, MessagesTyped
  <2>4. RunTypeOK'
    BY <1>14, <2>1, <2>3, BroadcastTyped DEF Typed, TypeOK, CoordTypeOK, PublishLostLine
  <2>5. HandlerTypeOK'
    BY <1>14, <2>1, <2>3
       DEF Typed, TypeOK, CoordTypeOK, PublishLostLine, HandlerTypeOK, HandlerPC, Goto, UpMessage
  <2>6. HandlingTask'
    BY <1>14, <2>1, <2>3
       DEF Typed, TypeOK, CoordTypeOK, PublishLostLine, HandlingTask, HandlerTypeOK, Goto
  <2>. QED BY <1>14, <2>4, <2>5, <2>6, Frames DEF Typed, PublishLostLine
<1>15. CASE StoreLost(c)
  <2>1. StoreTypeOK'
    BY <1>15 DEF Typed, TypeOK, CoordTypeOK, StoreLost, StoreTypeOK, Row, Status, RecordTaskExited
  <2>2. HandlerTypeOK'
    BY <1>15 DEF Typed, TypeOK, CoordTypeOK, StoreLost, HandlerTypeOK, HandlerPC, Goto
  <2>3. HandlingTask'
    BY <1>15 DEF Typed, TypeOK, CoordTypeOK, StoreLost, HandlingTask, HandlerTypeOK, Goto
  <2>. QED BY <1>15, <2>1, <2>2, <2>3, Frames DEF Typed, StoreLost
<1>16. CASE PublishLost(c)
  <2>1. RunTypeOK'
    BY <1>16, MessagesTyped, BroadcastTyped
       DEF Typed, TypeOK, CoordTypeOK, PublishLost, HandlingTask
  <2>2. HandlerTypeOK'
    BY <1>16 DEF Typed, TypeOK, CoordTypeOK, PublishLost, HandlerTypeOK, HandlerPC, Goto
  <2>3. HandlingTask'
    BY <1>16 DEF Typed, TypeOK, CoordTypeOK, PublishLost, HandlingTask, HandlerTypeOK, Goto
  <2>. QED BY <1>16, <2>1, <2>2, <2>3, Frames DEF Typed, PublishLost
<1>17. CASE AllLost(c)
  <2>1. HandlerTypeOK'
    BY <1>17 DEF Typed, TypeOK, CoordTypeOK, AllLost, HandlerTypeOK, HandlerPC, Goto
  <2>2. HandlingTask'
    BY <1>17 DEF Typed, TypeOK, CoordTypeOK, AllLost, HandlingTask, HandlerTypeOK, Goto
  <2>. QED BY <1>17, <2>1, <2>2, Frames DEF Typed, AllLost
<1>. QED BY <1>1, <1>2, <1>3, <1>4, <1>5, <1>6, <1>7, <1>8, <1>9, <1>10, <1>11, <1>12, <1>13,
<1>14, <1>15, <1>16, <1>17 DEF HandlerStep

\* Every step of a run_process handler keeps the state typed.
LEMMA RunStepTyped ==
    ASSUME Typed, NEW j \in Job,
    RunStep(j) \/ RunSubscribe(j) \/ RunSelectFails(j) \/ RunClientGone(j),
           UNCHANGED workerVars
    PROVE  Typed'
<1>1. CASE RunAnnounce(j)
  <2>1. RunTypeOK'
    BY <1>1 DEF Typed, TypeOK, CoordTypeOK, RunAnnounce, RunTypeOK, RunPC, RunEnded, RunGoto
  <2>. QED BY <1>1, <2>1, Frames DEF Typed, RunAnnounce
<1>2. CASE RunDispatch(j)
  <2>1. PICK t \in queue[j] :
            /\ toWorker' = [toWorker EXCEPT ![ConnOf(t)] = Append(@, StartTask(t))]
            /\ queue' = [queue EXCEPT ![j] = @ \ {t}]
    BY <1>2 DEF RunDispatch
  <2>2. t \in Task /\ ConnOf(t) \in Conn /\ StartTask(t) \in DownMessage
    BY Parts, MessagesTyped DEF Typed, TypeOK, CoordTypeOK, RunTypeOK
  <2>3. WireTypeOK'
    <3>1. Append(toWorker[ConnOf(t)], StartTask(t)) \in Seq(DownMessage)
      BY <2>2 DEF Typed, TypeOK, WireTypeOK
    <3>2. toWorker' \in [Conn -> Seq(DownMessage)] /\ UNCHANGED <<link, toCoord>>
      BY <1>2, <2>1, <2>2, <3>1 DEF Typed, TypeOK, WireTypeOK, RunDispatch
    <3>. QED BY <3>2 DEF Typed, TypeOK, WireTypeOK
  <2>4. RunTypeOK'
    BY <1>2, <2>1 DEF Typed, TypeOK, CoordTypeOK, RunDispatch, RunTypeOK
  <2>. QED BY <1>2, <2>3, <2>4, Frames DEF Typed, RunDispatch
<1>3. CASE RunDispatchFails(j)
  <2>1. RunTypeOK'
    BY <1>3 DEF Typed, TypeOK, CoordTypeOK, RunDispatchFails, RunTypeOK, RunPC, RunEnded, RunGoto
  <2>. QED BY <1>3, <2>1, Frames DEF Typed, RunDispatchFails
<1>4. CASE RunDispatched(j)
  <2>1. RunTypeOK'
    BY <1>4 DEF Typed, TypeOK, CoordTypeOK, RunDispatched, RunTypeOK, RunPC, RunEnded, RunGoto
  <2>. QED BY <1>4, <2>1, Frames DEF Typed, RunDispatched
<1>5. CASE RunReceive(j)
  <2>1. sub[j] \in Seq(TaskMessage) /\ sub[j] # <<>>
    BY <1>5 DEF Typed, TypeOK, CoordTypeOK, RunTypeOK, RunReceive
  <2>2. Head(sub[j]) \in TaskMessage /\ Tail(sub[j]) \in Seq(TaskMessage)
    BY <2>1
  <2>3. Head(sub[j]).task \in Task /\ Head(sub[j]).ok \in BOOLEAN
    BY <2>2 DEF TaskMessage
  <2>4. sub' \in [Job -> Seq(TaskMessage)]
    BY <1>5, <2>2 DEF Typed, TypeOK, CoordTypeOK, RunTypeOK, RunReceive
  <2>5. pending' \in [Job -> SUBSET Task] /\ shown' \in [Job -> SUBSET Task]
    BY <1>5, <2>3 DEF Typed, TypeOK, CoordTypeOK, RunTypeOK, RunReceive
  <2>6. allOk' \in [Job -> BOOLEAN]
    BY <1>5, <2>3 DEF Typed, TypeOK, CoordTypeOK, RunTypeOK, RunReceive
  <2>7. RunTypeOK'
    BY <1>5, <2>4, <2>5, <2>6 DEF Typed, TypeOK, CoordTypeOK, RunTypeOK, RunReceive
  <2>. QED BY <1>5, <2>7, Frames DEF Typed, RunReceive
<1>6. CASE RunLagged(j)
  <2>1. RunTypeOK'
    BY <1>6 DEF Typed, TypeOK, CoordTypeOK, RunLagged, RunTypeOK, RunPC, RunEnded, RunGoto
  <2>. QED BY <1>6, <2>1, Frames DEF Typed, RunLagged
<1>7. CASE RunFinish(j)
  <2>1. RunTypeOK'
    BY <1>7 DEF Typed, TypeOK, CoordTypeOK, RunFinish, RunTypeOK, RunPC, RunEnded, RunGoto
  <2>. QED BY <1>7, <2>1, Frames DEF Typed, RunFinish
<1>8. CASE RunSubscribe(j)
  <2>1. RunTypeOK'
    BY <1>8 DEF Typed, TypeOK, CoordTypeOK, RunSubscribe, RunTypeOK, RunPC, RunEnded, RunGoto
  <2>. QED BY <1>8, <2>1, Frames DEF Typed, RunSubscribe
<1>9. CASE RunClientGone(j)
  <2>1. RunTypeOK'
    BY <1>9 DEF Typed, TypeOK, CoordTypeOK, RunClientGone, RunTypeOK, RunPC, RunEnded, RunGoto
  <2>. QED BY <1>9, <2>1, Frames DEF Typed, RunClientGone
<1>10. CASE RunSelect(j)
  <2>1. PICK l \in Lease \cup {NoLease}, nodes \in SUBSET Connected, pc \in RunPC :
            /\ RecordAssignments(j, nodes)
            /\ under' = [under EXCEPT ![j] = l]
            /\ RunGoto(j, pc)
    BY <1>10 DEF RunSelect, RunPC, RunEnded
  <2>2. /\ StoreTypeOK'
        /\ running' \in [Node -> SUBSET Task]
        /\ assigned' \in [Job -> SUBSET Task]
    BY <2>1, AssignmentsTyped
  <2>3. RegistryTypeOK'
    BY <1>10, <2>2 DEF Typed, TypeOK, CoordTypeOK, RunSelect, RegistryTypeOK, LeasesTypeOK
  <2>4. RunTypeOK'
    BY <1>10, <2>1, <2>2 DEF Typed, TypeOK, CoordTypeOK, RunSelect, RunTypeOK, RunGoto
  <2>. QED BY <1>10, <2>2, <2>3, <2>4, Frames DEF Typed, RunSelect
<1>11. CASE RunSelectFails(j)
  <2>1. PICK l \in Lease \cup {NoLease}, nodes \in SUBSET Connected, pc \in RunPC :
            /\ RecordAssignments(j, nodes)
            /\ under' = [under EXCEPT ![j] = l]
            /\ RunGoto(j, pc)
    BY <1>11 DEF RunSelectFails, RunPC, RunEnded
  <2>2. /\ StoreTypeOK'
        /\ running' \in [Node -> SUBSET Task]
        /\ assigned' \in [Job -> SUBSET Task]
    BY <2>1, AssignmentsTyped
  <2>3. RegistryTypeOK'
    BY <1>11, <2>2 DEF Typed, TypeOK, CoordTypeOK, RunSelectFails, RegistryTypeOK, LeasesTypeOK
  <2>4. RunTypeOK'
    BY <1>11, <2>1, <2>2 DEF Typed, TypeOK, CoordTypeOK, RunSelectFails, RunTypeOK, RunGoto
  <2>. QED BY <1>11, <2>2, <2>3, <2>4, Frames DEF Typed, RunSelectFails
<1>. QED BY <1>1, <1>2, <1>3, <1>4, <1>5, <1>6, <1>7, <1>8, <1>9, <1>10, <1>11 DEF RunStep

\* Every step of a kill_job handler keeps the state typed.
LEMMA KillStepTyped ==
    ASSUME Typed, NEW j \in Job, KillStep(j) \/ KillCollect(j), UNCHANGED workerVars
    PROVE  Typed'
<1>1. CASE KillSend(j)
  <2>1. PICK p \in targets[j] :
            /\ toWorker' = [toWorker EXCEPT ![p[1]] = Append(@, KillTask(p[2]))]
            /\ targets' = [targets EXCEPT ![j] = @ \ {p}]
    BY <1>1 DEF KillSend
  <2>2. p \in Conn \X Task
    BY DEF Typed, TypeOK, CoordTypeOK, KillTypeOK
  <2>3. PICK c \in Conn, t \in Task : toWorker' = [toWorker EXCEPT ![c] = Append(@, KillTask(t))]
    BY <2>1, <2>2
  <2>4. KillTask(t) \in DownMessage
    BY MessagesTyped
  <2>5. Append(toWorker[c], KillTask(t)) \in Seq(DownMessage)
    BY <2>4 DEF Typed, TypeOK, WireTypeOK
  <2>6. toWorker' \in [Conn -> Seq(DownMessage)]
    BY <2>3, <2>5 DEF Typed, TypeOK, WireTypeOK
  <2>7. WireTypeOK'
    BY <1>1, <2>6 DEF Typed, TypeOK, KillSend, WireTypeOK
  <2>8. KillTypeOK'
    BY <1>1, <2>1 DEF Typed, TypeOK, CoordTypeOK, KillSend, KillTypeOK
  <2>. QED BY <1>1, <2>7, <2>8, Frames DEF Typed, KillSend
<1>2. CASE KillFails(j)
  <2>1. KillTypeOK'
    BY <1>2 DEF Typed, TypeOK, CoordTypeOK, KillFails, KillTypeOK, KillPC
  <2>. QED BY <1>2, <2>1, Frames DEF Typed, KillFails
<1>3. CASE KillAck(j)
  <2>1. KillTypeOK'
    BY <1>3 DEF Typed, TypeOK, CoordTypeOK, KillAck, KillTypeOK, KillPC
  <2>. QED BY <1>3, <2>1, Frames DEF Typed, KillAck
<1>4. CASE KillCollect(j)
  <2>1. KillTypeOK'
    BY <1>4 DEF Typed, TypeOK, CoordTypeOK, KillCollect, KillTypeOK, KillPC
  <2>. QED BY <1>4, <2>1, Frames DEF Typed, KillCollect
<1>. QED BY <1>1, <1>2, <1>3, <1>4 DEF KillStep


\* Granting and releasing leases keep the state typed.
LEMMA LeaseStepTyped ==
    ASSUME Typed, NEW l \in Lease, CreateLease(l) \/ ReleaseLease(l), UNCHANGED workerVars
    PROVE  Typed'
<1>1. CASE CreateLease(l)
  <2>1. RegistryTypeOK'
    BY <1>1
       DEF Typed, TypeOK, CoordTypeOK, CreateLease, RegistryTypeOK, LeasesTypeOK, GrantLease,
           LeaseRecord, Candidates, Connected
  <2>. QED BY <1>1, <2>1, Frames DEF Typed, CreateLease
<1>2. CASE ReleaseLease(l)
  <2>1. RegistryTypeOK'
    BY <1>2
       DEF Typed, TypeOK, CoordTypeOK, ReleaseLease, RegistryTypeOK, LeasesTypeOK, DropLease,
           LeaseRecord
  <2>. QED BY <1>2, <2>1, Frames DEF Typed, ReleaseLease
<1>. QED BY <1>1, <1>2

\* A message that is sent keeps the channels to the coordinator typed.
LEMMA SendUpTyped ==
    ASSUME Typed, NEW c \in Conn, NEW m \in TaskMessage, SendUp(c, m)
    PROVE  toCoord' \in [Conn -> Seq(UpMessage)]
<1>1. Append(toCoord[c], m) \in Seq(UpMessage)
  BY DEF Typed, TypeOK, WireTypeOK, UpMessage
<1>. QED BY <1>1 DEF Typed, TypeOK, WireTypeOK, SendUp

\* Every step of a connection's read loop keeps the state typed.
LEMMA SessionStepTyped ==
    ASSUME Typed, NEW c \in Conn, Connect(c) \/ ReadLoop(c), UNCHANGED coordVars
    PROVE  Typed'
<1>1. CASE Connect(c)
  <2>1. WireTypeOK'
    BY <1>1 DEF Typed, TypeOK, CoordTypeOK, Connect, WireTypeOK, UpMessage
  <2>. QED BY <1>1, <2>1, Frames DEF Typed, Connect, coordVars
<1>2. CASE ReceiveStart(c)
  <2>1. WireTypeOK'
    BY <1>2 DEF Typed, TypeOK, CoordTypeOK, ReceiveStart, WireTypeOK, Command
  <2>2. WorkerTypeOK'
    BY <1>2 DEF Typed, TypeOK, CoordTypeOK, ReceiveStart, WorkerTypeOK, ProcState, Command
  <2>. QED BY <1>2, <2>1, <2>2, Frames DEF Typed, ReceiveStart, coordVars
<1>3. CASE ReceiveKill(c)
  <2>1. Head(toWorker[c]) \in DownMessage /\ Tail(toWorker[c]) \in Seq(DownMessage)
    BY <1>3 DEF Typed, TypeOK, WireTypeOK, ReceiveKill, Command
  <2>2. Head(toWorker[c]).task \in Task
    BY <2>1 DEF DownMessage
  <2>3. toCoord' \in [Conn -> Seq(UpMessage)]
    BY <1>3, <2>2, MessagesTyped, SendUpTyped DEF Typed, TypeOK, WireTypeOK, ReceiveKill
  <2>4. WireTypeOK'
    BY <1>3, <2>1, <2>3 DEF Typed, TypeOK, WireTypeOK, ReceiveKill, Command
  <2>. QED BY <1>3, <2>4, Frames DEF Typed, ReceiveKill, coordVars
<1>. QED BY <1>1, <1>2, <1>3 DEF ReadLoop

\* An event that is emitted keeps the event channels typed.
LEMMA EmitTyped ==
    ASSUME Typed, NEW t \in Task, NEW e \in TaskMessage, Emit(t, e)
    PROVE  events' \in [Task -> Seq(TaskMessage)]
<1>1. Append(events[t], e) \in Seq(TaskMessage)
  BY DEF Typed, TypeOK, WorkerTypeOK
<1>. QED BY <1>1 DEF Typed, TypeOK, WorkerTypeOK, Emit

\* Every step of a task on its worker keeps the state typed.
LEMMA TaskStepTyped ==
    ASSUME Typed, NEW t \in Task, TaskStep(t) \/ ChildStep(t), UNCHANGED coordVars
    PROVE  Typed'
<1>1. CASE StartChild(t)
  <2>1. WorkerTypeOK'
    BY <1>1, MessagesTyped, EmitTyped
       DEF Typed, TypeOK, CoordTypeOK, StartChild, WorkerTypeOK, ProcState
  <2>. QED BY <1>1, <2>1, Frames DEF Typed, StartChild, coordVars
<1>2. CASE Forward(t)
  <2>1. WireTypeOK'
    <3>1. Head(events[t]) \in TaskMessage
      BY <1>2 DEF Typed, TypeOK, WorkerTypeOK, Forward
    <3>2. toCoord' \in [Conn -> Seq(UpMessage)]
      BY <1>2, <3>1, Parts, SendUpTyped DEF Forward
    <3>. QED BY <1>2, <3>2 DEF Typed, TypeOK, WireTypeOK, Forward
  <2>2. WorkerTypeOK'
    BY <1>2 DEF Typed, TypeOK, CoordTypeOK, Forward, WorkerTypeOK, ProcState
  <2>. QED BY <1>2, <2>1, <2>2, Frames DEF Typed, Forward, coordVars
<1>3. CASE ReadLine(t)
  <2>1. WorkerTypeOK'
    BY <1>3, MessagesTyped, EmitTyped
       DEF Typed, TypeOK, CoordTypeOK, ReadLine, WorkerTypeOK, ProcState
  <2>. QED BY <1>3, <2>1, Frames DEF Typed, ReadLine, coordVars
<1>4. CASE Reap(t)
  <2>1. WorkerTypeOK'
    BY <1>4 DEF Typed, TypeOK, CoordTypeOK, Reap, WorkerTypeOK, ProcState
  <2>. QED BY <1>4, <2>1, Frames DEF Typed, Reap, coordVars
<1>5. CASE TimeOut(t)
  <2>1. WorkerTypeOK'
    BY <1>5, MessagesTyped, EmitTyped
       DEF Typed, TypeOK, CoordTypeOK, TimeOut, WorkerTypeOK, ProcState
  <2>. QED BY <1>5, <2>1, Frames DEF Typed, TimeOut, coordVars
<1>6. CASE Terminate(t)
  <2>1. WorkerTypeOK'
    BY <1>6 DEF Typed, TypeOK, CoordTypeOK, Terminate, WorkerTypeOK, ProcState
  <2>. QED BY <1>6, <2>1, Frames DEF Typed, Terminate, coordVars
<1>7. CASE RemovePid(t)
  <2>1. WorkerTypeOK'
    BY <1>7 DEF Typed, TypeOK, CoordTypeOK, RemovePid, WorkerTypeOK, ProcState
  <2>. QED BY <1>7, <2>1, Frames DEF Typed, RemovePid, coordVars
<1>8. CASE SendExited(t)
  <2>1. WorkerTypeOK'
    BY <1>8, MessagesTyped, EmitTyped
       DEF Typed, TypeOK, CoordTypeOK, SendExited, WorkerTypeOK, ProcState
  <2>. QED BY <1>8, <2>1, Frames DEF Typed, SendExited, coordVars
<1>9. CASE RefuseTask(t)
  <2>1. WireTypeOK'
    BY <1>9, MessagesTyped, Parts, SendUpTyped DEF Typed, TypeOK, WireTypeOK, RefuseTask
  <2>2. WorkerTypeOK'
    BY <1>9 DEF Typed, TypeOK, CoordTypeOK, RefuseTask, WorkerTypeOK, ProcState
  <2>. QED BY <1>9, <2>1, <2>2, Frames DEF Typed, RefuseTask, coordVars
<1>10. CASE WriteLine(t)
  <2>1. WorkerTypeOK'
    BY <1>10 DEF Typed, TypeOK, CoordTypeOK, WriteLine, WorkerTypeOK, ProcState
  <2>. QED BY <1>10, <2>1, Frames DEF Typed, WriteLine, coordVars
<1>11. CASE ChildExits(t)
  <2>1. WorkerTypeOK'
    BY <1>11 DEF Typed, TypeOK, CoordTypeOK, ChildExits, WorkerTypeOK, ProcState
  <2>. QED BY <1>11, <2>1, Frames DEF Typed, ChildExits, coordVars
<1>. QED BY <1>1, <1>2, <1>3, <1>4, <1>5, <1>6, <1>7, <1>8, <1>9, <1>10, <1>11 DEF TaskStep,
ChildStep

\* The writer task's failure keeps the state typed.
LEMMA WriterFailsTyped ==
    ASSUME Typed, NEW c \in Conn, WriterFails(c), UNCHANGED workerVars
    PROVE  Typed'
<1>1. WireTypeOK'
  BY DEF Typed, TypeOK, CoordTypeOK, WriterFails, WireTypeOK
<1>2. HandlerTypeOK'
  BY DEF Typed, TypeOK, CoordTypeOK, WriterFails, HandlerTypeOK, HandlerPC
<1>3. HandlingTask'
  BY DEF Typed, TypeOK, CoordTypeOK, WriterFails, HandlingTask, HandlerTypeOK
<1>. QED BY <1>1, <1>2, <1>3, Frames DEF Typed, WriterFails

\* A connection that ends keeps the state typed.
LEMMA DisconnectTyped ==
    ASSUME Typed, NEW c \in Conn, NEW how \in Breaks, Disconnect(c, how), UNCHANGED coordVars
    PROVE  Typed'
<1>1. PICK kept \in 0..Len(toCoord[c]) : toCoord' = [toCoord EXCEPT ![c] = SubSeq(@, 1, kept)]
  BY DEF Disconnect
<1>2. SubSeq(toCoord[c], 1, kept) \in Seq(UpMessage)
  BY DEF Typed, TypeOK, CoordTypeOK, WireTypeOK
<1>3. WireTypeOK'
  BY <1>1, <1>2, BreaksAssumption DEF Typed, TypeOK, CoordTypeOK, WireTypeOK, Disconnect
<1>4. WorkerTypeOK'
  BY DEF Typed, TypeOK, CoordTypeOK, WorkerTypeOK, Disconnect
<1>. QED BY <1>3, <1>4, Frames DEF Typed, Disconnect, coordVars

\* The initial state is typed.
LEMMA InitTyped == Init => Typed
<1>. SUFFICES ASSUME Init PROVE Typed
  OBVIOUS
<1>1. WireTypeOK
  BY DEF Init, WireInit, WireTypeOK
<1>2. CoordTypeOK
  BY DEF Init, CoordInit, LeasesInit, CoordTypeOK, RegistryTypeOK, LeasesTypeOK, LeaseRecord,
         StoreTypeOK, Row, Status, NoRow, HandlerTypeOK, HandlerPC, UpMessage,
         RunTypeOK, RunPC, KillTypeOK, KillPC
<1>3. WorkerTypeOK
  BY DEF Init, WorkerInit, WorkerTypeOK, ProcState
<1>4. HandlingTask
  BY DEF Init, CoordInit, HandlingTask
<1>. QED BY <1>1, <1>2, <1>3, <1>4 DEF Typed, TypeOK

\* Every step keeps the state typed.
LEMMA NextTyped == Typed /\ [Next]_vars => Typed'
<1>. SUFFICES ASSUME Typed, [Next]_vars PROVE Typed'
  OBVIOUS
<1>1. CASE CoordNext /\ UNCHANGED workerVars
  BY <1>1, HandlerStepTyped, WriterFailsTyped, RunStepTyped, KillStepTyped, LeaseStepTyped
     DEF CoordNext, ClientStep
<1>2. CASE WorkerNext /\ UNCHANGED coordVars
  BY <1>2, SessionStepTyped, DisconnectTyped, TaskStepTyped DEF WorkerNext
<1>3. CASE UNCHANGED vars
  BY <1>3, Frames DEF vars, coordVars
<1>. QED BY <1>1, <1>2, <1>3 DEF Next

\* Every variable keeps its type: the registry, the store's rows, the channels and each
\* handler's locals, whatever the processes of coordinator and workers interleave.
THEOREM TypeCorrect == Spec => []TypeOK
<1>1. Typed => TypeOK
  BY DEF Typed
<1>. QED BY InitTyped, NextTyped, <1>1, PTL DEF Spec

------------------------------------------------------------------------------
(* Leases *)

\* Steps that leave the lease table alone keep leases exclusive; so do a grant,
\* which is checked against every held lease, and a release.
LEMMA LeaseStepExclusive ==
    ASSUME Typed, ExclusiveLeases, NEW l \in Lease, CreateLease(l) \/ ReleaseLease(l)
    PROVE  ExclusiveLeases'
<1>. USE DEF Typed, TypeOK, CoordTypeOK, RegistryTypeOK, LeasesTypeOK
<1>1. CASE CreateLease(l)
  <2>1. PICK nodes \in SUBSET Node, exclusive \in BOOLEAN :
            /\ \A other \in Lease : ~Conflict(other, nodes, exclusive)
            /\ leases' = [leases EXCEPT ![l] =
                    [state |-> "held", nodes |-> nodes, exclusive |-> exclusive]]
    BY <1>1 DEF CreateLease, GrantLease, Candidates, Connected
  <2>2. \A m \in Lease \ {l} : leases'[m] = leases[m]
    BY <2>1
  <2>3. leases'[l] = [state |-> "held", nodes |-> nodes, exclusive |-> exclusive]
    BY <2>1
  <2>. QED BY <2>1, <2>2, <2>3 DEF ExclusiveLeases, Held, Conflict
<1>2. CASE ReleaseLease(l)
  <2>1. \A m \in Lease \ {l} : leases'[m] = leases[m]
    BY <1>2 DEF ReleaseLease, DropLease
  <2>2. leases'[l].state = "released"
    BY <1>2 DEF ReleaseLease, DropLease, LeaseRecord
  <2>. QED BY <2>1, <2>2 DEF ExclusiveLeases, Held
<1>. QED BY <1>1, <1>2

\* Only create_lease and release_lease touch the lease table.
LEMMA LeasesElsewhere ==
    ASSUME [Next]_vars
    PROVE  UNCHANGED leases \/ \E l \in Lease : CreateLease(l) \/ ReleaseLease(l)
<1>1. ASSUME NEW c \in Conn, HandlerStep(c) PROVE UNCHANGED leases
  BY <1>1
     DEF HandlerStep, RegisterWorker, StoreStarted, TrackStarted, ReceiveLine, StoreExited,
         UntrackExited, UntrackFailed, StoreFailed, PublishFailed, Publish, StreamCloses,
         StreamFails, DropNode, PublishLostLine, StoreLost, PublishLost, AllLost, registryVars
<1>2. ASSUME NEW j \in Job, RunStep(j) \/ KillStep(j) \/ ClientStep(j) PROVE UNCHANGED leases
  BY <1>2
     DEF RunStep, KillStep, ClientStep, RunSelect, RunSelectFails, RecordAssignments,
         RunSubscribe, RunAnnounce, RunDispatch, RunDispatchFails, RunDispatched, RunReceive,
         RunLagged, RunFinish, RunClientGone, KillCollect, KillSend, KillFails, KillAck,
         registryVars
<1>3. CASE CoordNext
  BY <1>1, <1>2, <1>3 DEF CoordNext, WriterFails, registryVars
<1>4. CASE UNCHANGED coordVars \/ UNCHANGED vars
  BY <1>4 DEF coordVars, vars, registryVars
<1>. QED BY <1>3, <1>4 DEF Next

\* Two held leases that share a node are both shared, whatever requests are made.
THEOREM LeasesAreExclusive == Spec => []ExclusiveLeases
<1>1. Init => ExclusiveLeases
  BY DEF Init, CoordInit, LeasesInit, ExclusiveLeases, Held
<1>2. Typed /\ ExclusiveLeases /\ [Next]_vars => ExclusiveLeases'
  BY LeasesElsewhere, LeaseStepExclusive DEF ExclusiveLeases, Held
<1>. QED BY <1>1, <1>2, InitTyped, NextTyped, PTL DEF Spec

------------------------------------------------------------------------------
LeasedRuns == HandlesMatch /\ RunsUnderGrants /\ RunStaysInLease

\* Registration and loss of a node keep handles and nodes together.
LEMMA HandlesStayMatched ==
    ASSUME Typed, HandlesMatch, [Next]_vars
    PROVE  HandlesMatch'
<1>. USE DEF Typed, TypeOK, CoordTypeOK, RegistryTypeOK
<1>1. CASE UNCHANGED handle
  BY <1>1 DEF HandlesMatch
<1>2. ASSUME NEW c \in Conn, RegisterWorker(c) \/ DropNode(c) PROVE HandlesMatch'
  BY <1>2, NoHandleAssumption DEF RegisterWorker, DropNode, HandlesMatch
<1>3. ASSUME NEW c \in Conn, HandlerStep(c) PROVE HandlesMatch'
  BY <1>1, <1>2, <1>3
     DEF HandlerStep, StoreStarted, TrackStarted, ReceiveLine, StoreExited,
         UntrackExited, UntrackFailed, StoreFailed, PublishFailed, Publish, StreamCloses,
         StreamFails, PublishLostLine, StoreLost, PublishLost, AllLost, registryVars
<1>4. ASSUME NEW j \in Job, RunStep(j) \/ KillStep(j) \/ ClientStep(j) PROVE UNCHANGED handle
  BY <1>4
     DEF RunStep, KillStep, ClientStep, RunSelect, RunSelectFails, RecordAssignments,
         RunSubscribe, RunAnnounce, RunDispatch, RunDispatchFails, RunDispatched, RunReceive,
         RunLagged, RunFinish, RunClientGone, KillCollect, KillSend, KillFails, KillAck,
         registryVars
<1>5. CASE CoordNext
  BY <1>1, <1>3, <1>4, <1>5 DEF CoordNext, WriterFails, CreateLease, ReleaseLease, registryVars
<1>6. CASE UNCHANGED coordVars \/ UNCHANGED vars
  BY <1>1, <1>6 DEF coordVars, vars, registryVars
<1>. QED BY <1>5, <1>6 DEF Next

\* The critical section of run_process assigns tasks on nodes of the lease.
LEMMA SelectionStaysInLease ==
    ASSUME Typed, LeasedRuns, NEW j \in Job, RunSelect(j) \/ RunSelectFails(j)
    PROVE  RunsUnderGrants' /\ RunStaysInLease'
<1>. USE DEF Typed, TypeOK, CoordTypeOK, RegistryTypeOK, RunTypeOK
<1>1. \E l \in Lease \cup {NoLease}, nodes \in SUBSET Connected :
          /\ RecordAssignments(j, nodes)
          /\ under' = [under EXCEPT ![j] = l]
          /\ l \in Lease /\ nodes # {} => Held(l) /\ nodes \subseteq leases[l].nodes
  <2>1. CASE RunSelect(j)
    <3>1. PICK l \in Lease \cup {NoLease}, named \in SUBSET Node :
              LET nodes == IF Admissible(l, named)
                           THEN RequestedNodes(l, named, Connected) \cap Connected ELSE {}
              IN RecordAssignments(j, nodes) /\ under' = [under EXCEPT ![j] = l]
      BY <2>1 DEF RunSelect
    <3>. DEFINE nodes == IF Admissible(l, named)
                         THEN RequestedNodes(l, named, Connected) \cap Connected ELSE {}
    <3>2. nodes \in SUBSET Connected
      OBVIOUS
    <3>3. l \in Lease /\ nodes # {} => Held(l) /\ nodes \subseteq leases[l].nodes
      BY NoLeaseAssumption DEF Admissible, RequestedNodes
    <3>4. RecordAssignments(j, nodes) /\ under' = [under EXCEPT ![j] = l]
      BY <3>1
    <3>. HIDE DEF nodes
    <3>. QED BY <3>2, <3>3, <3>4
  <2>2. CASE RunSelectFails(j)
    <3>1. PICK l \in Lease \cup {NoLease}, named \in SUBSET Node :
              /\ Admissible(l, named)
              /\ \E nodes \in SUBSET (RequestedNodes(l, named, Connected) \cap Connected) :
                    RecordAssignments(j, nodes)
              /\ under' = [under EXCEPT ![j] = l]
      BY <2>2 DEF RunSelectFails
    <3>2. PICK nodes \in SUBSET (RequestedNodes(l, named, Connected) \cap Connected) :
              RecordAssignments(j, nodes)
      BY <3>1
    <3>3. l \in Lease => Held(l) /\ nodes \subseteq leases[l].nodes
      BY <3>1, <3>2, NoLeaseAssumption DEF Admissible, RequestedNodes
    <3>. QED BY <3>1, <3>2, <3>3
  <2>. QED BY <2>1, <2>2
<1>. PICK l \in Lease \cup {NoLease}, nodes \in SUBSET Connected :
          /\ RecordAssignments(j, nodes)
          /\ under' = [under EXCEPT ![j] = l]
          /\ l \in Lease /\ nodes # {} => Held(l) /\ nodes \subseteq leases[l].nodes
  BY <1>1
<1>2. leases' = leases
  BY DEF RunSelect, RunSelectFails
<1>3. assigned'[j] = TasksOf(j, nodes) /\ under'[j] = l
  BY <1>1 DEF RecordAssignments
<1>4. \A k \in Job \ {j} : assigned'[k] = assigned[k] /\ under'[k] = under[k]
  BY <1>1 DEF RecordAssignments
<1>5. ASSUME NEW t \in TasksOf(j, nodes) PROVE nodes # {} /\ NodeOf(ConnOf(t)) \in nodes
  <2>1. PICK n \in nodes : t = <<j, handle[n]>>
    BY <1>5 DEF TasksOf
  <2>2. ConnOf(t) = handle[n] /\ n \in Node /\ handle[n] # NoHandle
    BY <2>1 DEF ConnOf, Connected
  <2>. QED BY <2>1, <2>2 DEF LeasedRuns, HandlesMatch
<1>6. RunsUnderGrants'
  BY <1>1, <1>2, <1>3, <1>4, <1>5 DEF LeasedRuns, RunsUnderGrants, Held
<1>7. RunStaysInLease'
  BY <1>1, <1>2, <1>3, <1>4, <1>5 DEF LeasedRuns, RunStaysInLease
<1>. QED BY <1>6, <1>7

\* A lease keeps its nodes once it is granted, so a run stays in it.
LEMMA LeaseStepKeepsRuns ==
    ASSUME Typed, LeasedRuns, NEW l \in Lease, CreateLease(l) \/ ReleaseLease(l)
    PROVE  RunsUnderGrants' /\ RunStaysInLease'
<1>. USE DEF Typed, TypeOK, CoordTypeOK, RegistryTypeOK, RunTypeOK, LeasesTypeOK
<1>1. UNCHANGED <<under, assigned>>
  BY DEF CreateLease, ReleaseLease, runVars
<1>2. ASSUME NEW m \in Lease, leases[m].state # "unused"
      PROVE  leases'[m].state # "unused" /\ leases'[m].nodes = leases[m].nodes
  <2>1. leases[m] \in LeaseRecord /\ leases[l] \in LeaseRecord
    OBVIOUS
  <2>2. CASE CreateLease(l)
    <3>1. leases[l].state = "unused" /\ m # l
      BY <1>2, <2>2 DEF CreateLease, GrantLease
    <3>2. leases'[m] = leases[m]
      BY <2>2, <3>1 DEF CreateLease, GrantLease
    <3>. QED BY <1>2, <3>2
  <2>3. CASE ReleaseLease(l)
    <3>1. leases' = [leases EXCEPT ![l].state = "released"]
      BY <2>3 DEF ReleaseLease, DropLease
    <3>2. CASE m = l
      BY <2>1, <3>1, <3>2 DEF LeaseRecord
    <3>3. CASE m # l
      BY <1>2, <3>1, <3>3
    <3>. QED BY <3>2, <3>3
  <2>. QED BY <2>2, <2>3
<1>3. RunsUnderGrants'
  BY <1>1, <1>2 DEF LeasedRuns, RunsUnderGrants
<1>4. RunStaysInLease'
  BY <1>1, <1>2 DEF LeasedRuns, RunsUnderGrants, RunStaysInLease
<1>. QED BY <1>3, <1>4

\* No other step touches what a run was started under.
LEMMA NextLeasedRuns == Typed /\ LeasedRuns /\ [Next]_vars => LeasedRuns'
<1>. SUFFICES ASSUME Typed, LeasedRuns, [Next]_vars PROVE LeasedRuns'
  OBVIOUS
<1>1. HandlesMatch'
  BY HandlesStayMatched DEF LeasedRuns
<1>2. CASE UNCHANGED <<leases, under, assigned>>
  BY <1>1, <1>2 DEF LeasedRuns, RunsUnderGrants, RunStaysInLease
<1>3. ASSUME NEW c \in Conn, HandlerStep(c) PROVE UNCHANGED <<leases, under, assigned>>
  BY <1>3
     DEF HandlerStep, RegisterWorker, StoreStarted, TrackStarted, ReceiveLine, StoreExited,
         UntrackExited, UntrackFailed, StoreFailed, PublishFailed, Publish, StreamCloses,
         StreamFails, DropNode, PublishLostLine, StoreLost, PublishLost, AllLost,
         registryVars, runVars
<1>4. ASSUME NEW j \in Job, RunStep(j) \/ KillStep(j) \/ ClientStep(j) PROVE LeasedRuns'
  <2>1. CASE RunSelect(j) \/ RunSelectFails(j)
    BY <1>1, <2>1, SelectionStaysInLease DEF LeasedRuns
  <2>2. CASE ~(RunSelect(j) \/ RunSelectFails(j))
    BY <1>2, <1>4, <2>2
       DEF RunStep, KillStep, ClientStep, RunSubscribe, RunAnnounce, RunDispatch,
           RunDispatchFails, RunDispatched, RunReceive, RunLagged, RunFinish, RunClientGone,
           KillCollect, KillSend, KillFails, KillAck, registryVars, runVars
  <2>. QED BY <2>1, <2>2
<1>5. CASE CoordNext
  BY <1>1, <1>2, <1>3, <1>4, <1>5, LeaseStepKeepsRuns
     DEF CoordNext, WriterFails, registryVars, runVars, LeasedRuns
<1>6. CASE UNCHANGED coordVars \/ UNCHANGED vars
  BY <1>2, <1>6 DEF coordVars, vars, registryVars, runVars
<1>. QED BY <1>5, <1>6 DEF Next

\* A run that was started under a lease has its tasks on nodes of that lease.
THEOREM RunsStayInLeases == Spec => []RunStaysInLease
<1>1. Init => LeasedRuns
  BY NoLeaseAssumption
     DEF Init, CoordInit, LeasedRuns, HandlesMatch, RunsUnderGrants, RunStaysInLease
<1>2. LeasedRuns => RunStaysInLease
  BY DEF LeasedRuns
<1>. QED BY <1>1, <1>2, InitTyped, NextTyped, NextLeasedRuns, PTL DEF Spec

\* Runs under two leases that are held, one of them exclusive, share no node: exclusive
\* leases are disjoint from the others, and each run stays in its own.
THEOREM LeasedRunsStayApart == Spec => []LeasedRunsAreApart
<1>1. ASSUME RunStaysInLease, ExclusiveLeases PROVE LeasedRunsAreApart
  BY <1>1 DEF RunStaysInLease, ExclusiveLeases, LeasedRunsAreApart, Held
<1>. QED BY <1>1, RunsStayInLeases, LeasesAreExclusive, PTL
=============================================================================
