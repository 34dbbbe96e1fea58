----------------------------- MODULE Coordinator -----------------------------
(***************************************************************************)
(* crates/coordinator: the node registry and the event broadcast, the      *)
(* handler of each worker connection (handle_worker, mark_node_lost,       *)
(* record_worker_error_exit), and the handlers of run_process and kill_job *)
(* requests.                                                               *)
(*                                                                         *)
(* AppState.inner is an async mutex that no handler holds across its store *)
(* writes of exits, its broadcasts or its sends to workers, and the        *)
(* runtime is multi-threaded.  So a handler is a chain of actions, one for *)
(* each critical section, store write, broadcast and channel send, and     *)
(* hpc, rpc and kpc say where each handler stands.  (run_process records   *)
(* its tasks in the store inside the critical section: one action.)        *)
(***************************************************************************)
EXTENDS Leases, JobStore

VARIABLES
    (* AppState.inner.nodes, one WorkerHandle per node *)
    handle,     \* handle[n]: the connection whose sender the handle holds
    running,    \* running[n]: the handle's running_tasks
    (* AppState.inner.leases is declared in Leases *)
    (* the job store *)
    rows,       \* rows[t]: the row of task t
    (* the handler of each worker connection, and its writer task *)
    hpc,        \* hpc[c]: where the handler stands
    cur,        \* cur[c]: the message it is handling
    lost,       \* lost[c]: mark_node_lost's tasks still to be failed
    writer,     \* writer[c]: "up" while the writer task holds the receiver
    (* the handler of each run_process request *)
    rpc,        \* rpc[j]: where the handler stands, or how it ended
    under,      \* under[j]: the lease its request names
    assigned,   \* assigned[j]: the tasks it recorded
    queue,      \* queue[j]: the tasks it has not sent yet
    pending,    \* pending[j]: the tasks whose exit it awaits
    allOk,      \* allOk[j]: every exit it received was a success
    sub,        \* sub[j]: the events its subscription has not read
    shown,      \* shown[j]: the tasks whose output line the client received
    (* the handler of each kill_job request *)
    kpc,        \* kpc[j]: where the handler stands
    targets     \* targets[j]: <<connection, task>> pairs still to be sent

storeVars == <<rows>>
registryVars == <<handle, running, leases>>
handlerVars == <<hpc, cur, lost, writer>>
runVars == <<rpc, under, assigned, queue, pending, allOk, sub, shown>>
killVars == <<kpc, targets>>
coordVars == <<registryVars, storeVars, handlerVars, runVars, killVars>>

HandlerPC == {"new", "read", "track", "untrack", "publish", "errorStore", "errorExit",
              "drop", "lost", "lostStore", "lostExit", "gone"}
RunEnded == {"ok", "failed", "acked", "rejected", "aborted"}
RunPC == {"idle", "subscribed", "announce", "dispatch", "waiting"} \cup RunEnded
KillPC == {"idle", "sending", "acked", "failed"}

RegistryTypeOK ==
    /\ LeasesTypeOK
    /\ handle \in [Node -> Conn \cup {NoHandle}]
    /\ running \in [Node -> SUBSET Task]

StoreTypeOK == rows \in [Task -> Row]

HandlerTypeOK ==
    /\ hpc \in [Conn -> HandlerPC]
    /\ cur \in [Conn -> UpMessage]
    /\ lost \in [Conn -> SUBSET Task]
    /\ writer \in [Conn -> {"up", "down"}]

RunTypeOK ==
    /\ rpc \in [Job -> RunPC]
    /\ under \in [Job -> Lease \cup {NoLease}]
    /\ assigned \in [Job -> SUBSET Task]
    /\ queue \in [Job -> SUBSET Task]
    /\ pending \in [Job -> SUBSET Task]
    /\ allOk \in [Job -> BOOLEAN]
    /\ sub \in [Job -> Seq(TaskMessage)]
    /\ shown \in [Job -> SUBSET Task]

KillTypeOK ==
    /\ kpc \in [Job -> KillPC]
    /\ targets \in [Job -> SUBSET (Conn \X Task)]

CoordTypeOK ==
    RegistryTypeOK /\ StoreTypeOK /\ HandlerTypeOK /\ RunTypeOK /\ KillTypeOK

CoordInit ==
    /\ LeasesInit
    /\ handle = [n \in Node |-> NoHandle]
    /\ running = [n \in Node |-> {}]
    /\ rows = [t \in Task |-> NoRow]
    /\ hpc = [c \in Conn |-> "new"]
    /\ cur = [c \in Conn |-> Register]
    /\ lost = [c \in Conn |-> {}]
    /\ writer = [c \in Conn |-> "down"]
    /\ rpc = [j \in Job |-> "idle"]
    /\ under = [j \in Job |-> NoLease]
    /\ assigned = [j \in Job |-> {}]
    /\ queue = [j \in Job |-> {}]
    /\ pending = [j \in Job |-> {}]
    /\ allOk = [j \in Job |-> TRUE]
    /\ sub = [j \in Job |-> <<>>]
    /\ shown = [j \in Job |-> {}]
    /\ kpc = [j \in Job |-> "idle"]
    /\ targets = [j \in Job |-> {}]

------------------------------------------------------------------------------
(* The registry and the broadcast *)

Connected == {n \in Node : handle[n] # NoHandle}

\* get_mut(node_id) and running_tasks.insert: nothing when the node is unknown.
Track(n, t) ==
    running' = IF n \in Connected THEN [running EXCEPT ![n] = @ \cup {t}] ELSE running

\* get_mut(node_id) and running_tasks.remove
Untrack(n, t) == running' = [running EXCEPT ![n] = @ \ {t}]

\* The run handlers that hold a subscription and will read it.
Subscribed(j) == j \in Waits /\ rpc[j] \in {"subscribed", "announce", "dispatch", "waiting"}

\* events.send.  A receiver more than EventCap behind has lost events: a sequence
\* one longer than EventCap stands for every such receiver.
Broadcast(event) ==
    sub' = [j \in Job |->
                IF Subscribed(j) /\ Len(sub[j]) <= EventCap
                THEN Append(sub[j], event) ELSE sub[j]]

------------------------------------------------------------------------------
(* handle_worker: one message at a time from the worker's connection *)

Incoming(c, type) ==
    /\ hpc[c] = "read"
    /\ toCoord[c] # <<>>
    /\ Head(toCoord[c]).type = type

Take(c) ==
    /\ toCoord' = [toCoord EXCEPT ![c] = Tail(@)]
    /\ cur' = [cur EXCEPT ![c] = Head(toCoord[c])]
    /\ UNCHANGED <<link, toWorker>>

Goto(c, pc) == hpc' = [hpc EXCEPT ![c] = pc]

\* The registration.  It replaces whatever handle the node had, and with it the
\* running tasks that handle knew.
RegisterWorker(c) ==
    /\ hpc[c] = "new"
    /\ toCoord[c] # <<>>
    /\ Take(c)
    /\ handle' = [handle EXCEPT ![NodeOf(c)] = c]
    /\ running' = [running EXCEPT ![NodeOf(c)] = {}]
    /\ writer' = [writer EXCEPT ![c] = "up"]
    /\ Goto(c, "read")
    /\ UNCHANGED <<leases, lost, storeVars, runVars, killVars>>

StoreStarted(c) ==
    /\ Incoming(c, "started")
    /\ Take(c)
    /\ rows' = RecordTaskStarted(rows, Head(toCoord[c]).task)
    /\ Goto(c, "track")
    /\ UNCHANGED <<lost, writer, registryVars, runVars, killVars>>

TrackStarted(c) ==
    /\ hpc[c] = "track"
    /\ Track(NodeOf(c), cur[c].task)
    /\ Goto(c, "publish")
    /\ UNCHANGED <<handle, leases, cur, lost, writer, storeVars, runVars, killVars, wireVars>>

\* A line is recorded and then broadcast; the log table is not modelled.
ReceiveLine(c) ==
    /\ Incoming(c, "log") \/ Incoming(c, "syslog")
    /\ Take(c)
    /\ Goto(c, "publish")
    /\ UNCHANGED <<lost, writer, registryVars, storeVars, runVars, killVars>>

StoreExited(c) ==
    /\ Incoming(c, "exited")
    /\ Take(c)
    /\ rows' = RecordTaskExited(rows, Head(toCoord[c]).task, Head(toCoord[c]).ok)
    /\ Goto(c, "untrack")
    /\ UNCHANGED <<lost, writer, registryVars, runVars, killVars>>

\* Mutant of UntrackExited: the task stays among the running ones.
UntrackExitedNot(c) ==
    /\ hpc[c] = "untrack"
    /\ Goto(c, "publish")
    /\ UNCHANGED <<cur, lost, writer, registryVars, storeVars, runVars, killVars, wireVars>>

UntrackExited(c) ==
    /\ hpc[c] = "untrack"
    /\ Untrack(NodeOf(c), cur[c].task)
    /\ Goto(c, "publish")
    /\ UNCHANGED <<handle, leases, cur, lost, writer, storeVars, runVars, killVars, wireVars>>

\* Mutant of UntrackFailed: an error fails its task whether it is tracked or not.
UntrackFailedAlways(c) ==
    /\ Incoming(c, "error")
    /\ Take(c)
    /\ Untrack(NodeOf(c), Head(toCoord[c]).task)
    /\ Goto(c, "errorStore")
    /\ UNCHANGED <<handle, leases, lost, writer, storeVars, runVars, killVars>>

\* record_worker_error_exit: only a task the registry still tracks is failed.
UntrackFailed(c) ==
    /\ Incoming(c, "error")
    /\ Take(c)
    /\ LET n == NodeOf(c)
           t == Head(toCoord[c]).task
       IN /\ Untrack(n, t)
          /\ Goto(c, IF t \in running[n] THEN "errorStore" ELSE "publish")
    /\ UNCHANGED <<handle, leases, lost, writer, storeVars, runVars, killVars>>

StoreFailed(c) ==
    /\ hpc[c] = "errorStore"
    /\ rows' = RecordTaskExited(rows, cur[c].task, FALSE)
    /\ Goto(c, "errorExit")
    /\ UNCHANGED <<cur, lost, writer, registryVars, runVars, killVars, wireVars>>

\* Mutant of PublishFailed: the exit it makes up is a success.
PublishFailedAsSuccess(c) ==
    /\ hpc[c] = "errorExit"
    /\ Broadcast(TaskExited(cur[c].task, TRUE))
    /\ Goto(c, "publish")
    /\ UNCHANGED <<cur, lost, writer, registryVars, storeVars, killVars, wireVars,
                   rpc, under, assigned, queue, pending, allOk, shown>>

PublishFailed(c) ==
    /\ hpc[c] = "errorExit"
    /\ Broadcast(TaskExited(cur[c].task, FALSE))
    /\ Goto(c, "publish")
    /\ UNCHANGED <<cur, lost, writer, registryVars, storeVars, killVars, wireVars,
                   rpc, under, assigned, queue, pending, allOk, shown>>

\* The broadcast of the message itself, the last step of handling it.
Publish(c) ==
    /\ hpc[c] = "publish"
    /\ Broadcast(cur[c])
    /\ Goto(c, "read")
    /\ UNCHANGED <<cur, lost, writer, registryVars, storeVars, killVars, wireVars,
                   rpc, under, assigned, queue, pending, allOk, shown>>

------------------------------------------------------------------------------
(* The end of a worker's connection *)

\* read_wire returns None: the loop ends and the writer task is aborted.
StreamCloses(c) ==
    /\ hpc[c] = "read"
    /\ toCoord[c] = <<>>
    /\ link[c] = "closed"
    /\ writer' = [writer EXCEPT ![c] = "down"]
    /\ toWorker' = [toWorker EXCEPT ![c] = <<>>]
    /\ Goto(c, "drop")
    /\ UNCHANGED <<link, toCoord, cur, lost, registryVars, storeVars, runVars, killVars>>

\* read_wire returns an error: `?` leaves the handler, and nothing else happens.
StreamFails(c) ==
    /\ hpc[c] = "read"
    /\ toCoord[c] = <<>>
    /\ link[c] = "reset"
    /\ Goto(c, "gone")
    /\ UNCHANGED <<cur, lost, writer, registryVars, storeVars, runVars, killVars, wireVars>>

\* Mutant of DropNode: the handle stays.
DropTasksOnly(c) ==
    /\ hpc[c] = "drop"
    /\ lost' = [lost EXCEPT ![c] = running[NodeOf(c)]]
    /\ running' = [running EXCEPT ![NodeOf(c)] = {}]
    /\ Goto(c, "lost")
    /\ UNCHANGED <<handle, leases, cur, writer, storeVars, runVars, killVars, wireVars>>

\* mark_node_lost removes the handle of the node, whichever connection made it.
DropNode(c) ==
    /\ hpc[c] = "drop"
    /\ lost' = [lost EXCEPT ![c] = running[NodeOf(c)]]
    /\ handle' = [handle EXCEPT ![NodeOf(c)] = NoHandle]
    /\ running' = [running EXCEPT ![NodeOf(c)] = {}]
    /\ Goto(c, "lost")
    /\ UNCHANGED <<leases, cur, writer, storeVars, runVars, killVars, wireVars>>

\* For each lost task: the line "worker disconnected", then a failed exit.
PublishLostLine(c) ==
    /\ hpc[c] = "lost"
    /\ \E t \in lost[c] :
        /\ cur' = [cur EXCEPT ![c] = TaskExited(t, FALSE)]
        /\ lost' = [lost EXCEPT ![c] = @ \ {t}]
        /\ Broadcast(SystemLine(t))
    /\ Goto(c, "lostStore")
    /\ UNCHANGED <<writer, registryVars, storeVars, killVars, wireVars,
                   rpc, under, assigned, queue, pending, allOk, shown>>

\* Mutant of StoreLost: the lost task's exit is broadcast but not recorded.
StoreLostNot(c) ==
    /\ hpc[c] = "lostStore"
    /\ Goto(c, "lostExit")
    /\ UNCHANGED <<cur, lost, writer, registryVars, storeVars, runVars, killVars, wireVars>>

StoreLost(c) ==
    /\ hpc[c] = "lostStore"
    /\ rows' = RecordTaskExited(rows, cur[c].task, FALSE)
    /\ Goto(c, "lostExit")
    /\ UNCHANGED <<cur, lost, writer, registryVars, runVars, killVars, wireVars>>

PublishLost(c) ==
    /\ hpc[c] = "lostExit"
    /\ Broadcast(cur[c])
    /\ Goto(c, "lost")
    /\ UNCHANGED <<cur, lost, writer, registryVars, storeVars, killVars, wireVars,
                   rpc, under, assigned, queue, pending, allOk, shown>>

AllLost(c) ==
    /\ hpc[c] = "lost"
    /\ lost[c] = {}
    /\ Goto(c, "gone")
    /\ UNCHANGED <<cur, lost, writer, registryVars, storeVars, runVars, killVars, wireVars>>

\* The writer task stops when the socket refuses a message, and drops its receiver.
WriterFails(c) ==
    /\ writer[c] = "up"
    /\ toWorker[c] # <<>>
    /\ link[c] \in {"closed", "reset"}
    /\ writer' = [writer EXCEPT ![c] = "down"]
    /\ toWorker' = [toWorker EXCEPT ![c] = <<>>]
    /\ UNCHANGED <<link, toCoord, hpc, cur, lost, registryVars, storeVars, runVars, killVars>>

------------------------------------------------------------------------------
(* run_process *)

RunGoto(j, pc) == rpc' = [rpc EXCEPT ![j] = pc]

\* The subscription starts before the registry is locked.
RunSubscribe(j) ==
    /\ rpc[j] = "idle"
    /\ RunGoto(j, "subscribed")
    /\ UNCHANGED <<under, assigned, queue, pending, allOk, sub, shown,
                   registryVars, storeVars, handlerVars, killVars, wireVars>>

TasksOf(j, nodes) == {<<j, handle[n]>> : n \in nodes}

\* Mutant of RecordAssignments: the handle does not learn of its task.
RecordRowsOnly(j, nodes) ==
    /\ rows' = RecordTaskDispatched(rows, TasksOf(j, nodes))
    /\ assigned' = [assigned EXCEPT ![j] = TasksOf(j, nodes)]
    /\ UNCHANGED running

\* What the critical section does for each selected node that is connected.
RecordAssignments(j, nodes) ==
    /\ rows' = RecordTaskDispatched(rows, TasksOf(j, nodes))
    /\ running' = [n \in Node |->
                      IF n \in nodes THEN running[n] \cup TasksOf(j, {n}) ELSE running[n]]
    /\ assigned' = [assigned EXCEPT ![j] = TasksOf(j, nodes)]

\* The request names a lease or none, and nodes or none.  What the lease does not
\* admit is refused; a requested node that is not connected costs an error
\* response and nothing else.
RunSelect(j) ==
    /\ rpc[j] = "subscribed"
    /\ \E l \in Lease \cup {NoLease}, named \in SUBSET Node :
        LET nodes == IF Admissible(l, named)
                     THEN RequestedNodes(l, named, Connected) \cap Connected ELSE {}
        IN /\ RecordAssignments(j, nodes)
           /\ under' = [under EXCEPT ![j] = l]
           /\ RunGoto(j, IF nodes = {} THEN "rejected" ELSE "announce")
    /\ UNCHANGED <<queue, pending, allOk, sub, shown, handle, leases,
                   handlerVars, killVars, wireVars>>

\* Mutant of RunSelectFails: the registry counts the tasks only after all nodes were
\* looked at, which this way out does not reach.
RunSelectFailsUncounted(j) ==
    /\ ClientLeaves
    /\ rpc[j] = "subscribed"
    /\ \E l \in Lease \cup {NoLease}, named \in SUBSET Node :
        /\ Admissible(l, named)
        /\ ~(RequestedNodes(l, named, Connected) \subseteq Connected)
        /\ \E nodes \in SUBSET (RequestedNodes(l, named, Connected) \cap Connected) :
            RecordRowsOnly(j, nodes)
        /\ under' = [under EXCEPT ![j] = l]
    /\ RunGoto(j, "aborted")
    /\ UNCHANGED <<queue, pending, allOk, sub, shown, handle, leases,
                   handlerVars, killVars, wireVars>>

\* That error response fails: `?` leaves the handler between two nodes, after the
\* tasks of the nodes before the missing one were recorded.
RunSelectFails(j) ==
    /\ ClientLeaves
    /\ rpc[j] = "subscribed"
    /\ \E l \in Lease \cup {NoLease}, named \in SUBSET Node :
        /\ Admissible(l, named)
        /\ ~(RequestedNodes(l, named, Connected) \subseteq Connected)
        /\ \E nodes \in SUBSET (RequestedNodes(l, named, Connected) \cap Connected) :
            RecordAssignments(j, nodes)
        /\ under' = [under EXCEPT ![j] = l]
    /\ RunGoto(j, "aborted")
    /\ UNCHANGED <<queue, pending, allOk, sub, shown, handle, leases,
                   handlerVars, killVars, wireVars>>

\* RunStarted is sent to the client: `?` leaves the handler when that fails.
RunAnnounce(j) ==
    /\ rpc[j] = "announce"
    /\ queue' = [queue EXCEPT ![j] = assigned[j]]
    /\ RunGoto(j, "dispatch")
    /\ UNCHANGED <<under, assigned, pending, allOk, sub, shown,
                   registryVars, storeVars, handlerVars, killVars, wireVars>>

RunDispatch(j) ==
    /\ rpc[j] = "dispatch"
    /\ \E t \in queue[j] :
        /\ writer[ConnOf(t)] = "up"
        /\ Room(toWorker[ConnOf(t)])
        /\ toWorker' = [toWorker EXCEPT ![ConnOf(t)] = Append(@, StartTask(t))]
        /\ queue' = [queue EXCEPT ![j] = @ \ {t}]
    /\ UNCHANGED <<link, toCoord, rpc, under, assigned, pending, allOk, sub, shown,
                   registryVars, storeVars, handlerVars, killVars>>

\* The receiver is gone: `?` leaves the handler with the other tasks unsent.
RunDispatchFails(j) ==
    /\ rpc[j] = "dispatch"
    /\ \E t \in queue[j] : writer[ConnOf(t)] = "down"
    /\ RunGoto(j, "aborted")
    /\ UNCHANGED <<under, assigned, queue, pending, allOk, sub, shown,
                   registryVars, storeVars, handlerVars, killVars, wireVars>>

RunDispatched(j) ==
    /\ rpc[j] = "dispatch"
    /\ queue[j] = {}
    /\ pending' = [pending EXCEPT ![j] = assigned[j]]
    /\ RunGoto(j, IF j \in Waits THEN "waiting" ELSE "acked")
    /\ UNCHANGED <<under, assigned, queue, allOk, sub, shown,
                   registryVars, storeVars, handlerVars, killVars, wireVars>>

\* Mutant of RunReceive: the last exit decides the outcome of the job.
RunReceiveLast(j) ==
    /\ rpc[j] = "waiting"
    /\ pending[j] # {}
    /\ Len(sub[j]) \in 1..EventCap
    /\ sub' = [sub EXCEPT ![j] = Tail(@)]
    /\ LET event == Head(sub[j])
           exits == event.type = "exited" /\ event.task \in pending[j]
       IN /\ pending' = [pending EXCEPT ![j] = IF exits THEN @ \ {event.task} ELSE @]
          /\ allOk' = [allOk EXCEPT ![j] = IF exits THEN event.ok ELSE @]
    /\ UNCHANGED <<rpc, under, assigned, queue, shown,
                   registryVars, storeVars, handlerVars, killVars, wireVars>>

\* One turn of the wait loop.  Events of tasks that are not pending are skipped,
\* error events are forwarded whatever their task.
RunReceive(j) ==
    /\ rpc[j] = "waiting"
    /\ pending[j] # {}
    /\ Len(sub[j]) \in 1..EventCap
    /\ sub' = [sub EXCEPT ![j] = Tail(@)]
    /\ LET event == Head(sub[j])
           exits == event.type = "exited" /\ event.task \in pending[j]
           line == event.type = "log" /\ event.task \in pending[j]
       IN /\ pending' = [pending EXCEPT ![j] = IF exits THEN @ \ {event.task} ELSE @]
          /\ allOk' = [allOk EXCEPT ![j] = IF exits THEN @ /\ event.ok ELSE @]
          /\ shown' = [shown EXCEPT ![j] = IF line THEN @ \cup {event.task} ELSE @]
    /\ UNCHANGED <<rpc, under, assigned, queue, registryVars, storeVars, handlerVars, killVars,
                   wireVars>>

\* Mutant of RunLagged: the wait goes on without the events that were lost.
RunLaggedGoesOn(j) ==
    /\ rpc[j] = "waiting"
    /\ pending[j] # {}
    /\ Len(sub[j]) > EventCap
    /\ sub' = [sub EXCEPT ![j] = <<>>]
    /\ UNCHANGED <<rpc, under, assigned, queue, pending, allOk, shown,
                   registryVars, storeVars, handlerVars, killVars, wireVars>>

\* Mutant of RunLagged: the end of the stream is taken for the end of the job.
RunLaggedFinishes(j) ==
    /\ rpc[j] = "waiting"
    /\ pending[j] # {}
    /\ Len(sub[j]) > EventCap
    /\ RunGoto(j, "ok")
    /\ UNCHANGED <<under, assigned, queue, pending, allOk, sub, shown,
                   registryVars, storeVars, handlerVars, killVars, wireVars>>

\* recv() reports the events that were lost, and `?` leaves the handler.
RunLagged(j) ==
    /\ rpc[j] = "waiting"
    /\ pending[j] # {}
    /\ Len(sub[j]) > EventCap
    /\ RunGoto(j, "aborted")
    /\ UNCHANGED <<under, assigned, queue, pending, allOk, sub, shown,
                   registryVars, storeVars, handlerVars, killVars, wireVars>>

\* JobFinished
RunFinish(j) ==
    /\ rpc[j] = "waiting"
    /\ pending[j] = {}
    /\ RunGoto(j, IF allOk[j] THEN "ok" ELSE "failed")
    /\ UNCHANGED <<under, assigned, queue, pending, allOk, sub, shown,
                   registryVars, storeVars, handlerVars, killVars, wireVars>>

\* An event the wait loop forwards to the client.
Forwarded(j, event) ==
    event.type = "error" \/ event.task \in pending[j]

\* A send to a client that has left: `?` leaves the handler, at RunStarted, in the
\* wait loop or at JobFinished.
RunClientGone(j) ==
    /\ ClientLeaves
    /\ \/ rpc[j] = "announce"
       \/ rpc[j] = "waiting" /\ pending[j] = {}
       \/ rpc[j] = "waiting" /\ Len(sub[j]) \in 1..EventCap /\ Forwarded(j, Head(sub[j]))
    /\ RunGoto(j, "aborted")
    /\ UNCHANGED <<under, assigned, queue, pending, allOk, sub, shown,
                   registryVars, storeVars, handlerVars, killVars, wireVars>>

------------------------------------------------------------------------------
(* kill_job *)

\* Mutant of KillCollect: every running task is a target, whatever its job.
KillCollectAll(j) ==
    /\ j \in Killable
    /\ kpc[j] = "idle"
    /\ assigned[j] # {}
    /\ targets' = [targets EXCEPT ![j] =
                      {p \in Conn \X Task :
                          /\ handle[NodeOf(p[1])] = p[1]
                          /\ p[2] \in running[NodeOf(p[1])]}]
    /\ kpc' = [kpc EXCEPT ![j] = "sending"]
    /\ UNCHANGED <<registryVars, storeVars, handlerVars, runVars, wireVars>>

\* The client knows the job from RunStarted or from a listing of the store.
KillCollect(j) ==
    /\ j \in Killable
    /\ kpc[j] = "idle"
    /\ assigned[j] # {}
    /\ targets' = [targets EXCEPT ![j] =
                      {p \in Conn \X Task :
                          /\ handle[NodeOf(p[1])] = p[1]
                          /\ p[2] \in running[NodeOf(p[1])]
                          /\ JobOf(p[2]) = j}]
    /\ kpc' = [kpc EXCEPT ![j] = "sending"]
    /\ UNCHANGED <<registryVars, storeVars, handlerVars, runVars, wireVars>>

KillSend(j) ==
    /\ kpc[j] = "sending"
    /\ \E p \in targets[j] :
        /\ writer[p[1]] = "up"
        /\ Room(toWorker[p[1]])
        /\ toWorker' = [toWorker EXCEPT ![p[1]] = Append(@, KillTask(p[2]))]
        /\ targets' = [targets EXCEPT ![j] = @ \ {p}]
    /\ UNCHANGED <<link, toCoord, kpc, registryVars, storeVars, handlerVars, runVars>>

\* Mutant of KillFails: the send is tried again.
KillFailsRetries(j) ==
    /\ kpc[j] = "sending"
    /\ \E p \in targets[j] : writer[p[1]] = "down"
    /\ UNCHANGED <<kpc, targets, registryVars, storeVars, handlerVars, runVars, wireVars>>

KillFails(j) ==
    /\ kpc[j] = "sending"
    /\ \E p \in targets[j] : writer[p[1]] = "down"
    /\ kpc' = [kpc EXCEPT ![j] = "failed"]
    /\ UNCHANGED <<targets, registryVars, storeVars, handlerVars, runVars, wireVars>>

KillAck(j) ==
    /\ kpc[j] = "sending"
    /\ targets[j] = {}
    /\ kpc' = [kpc EXCEPT ![j] = "acked"]
    /\ UNCHANGED <<targets, registryVars, storeVars, handlerVars, runVars, wireVars>>

------------------------------------------------------------------------------
(* create_lease and release_lease *)

CreateLease(l) ==
    /\ GrantLease(l, Connected)
    /\ UNCHANGED <<handle, running, storeVars, handlerVars, runVars, killVars, wireVars>>

ReleaseLease(l) ==
    /\ DropLease(l)
    /\ UNCHANGED <<handle, running, storeVars, handlerVars, runVars, killVars, wireVars>>

------------------------------------------------------------------------------
HandlerStep(c) ==
    \/ RegisterWorker(c)
    \/ StoreStarted(c) \/ TrackStarted(c)
    \/ ReceiveLine(c)
    \/ StoreExited(c) \/ UntrackExited(c)
    \/ UntrackFailed(c) \/ StoreFailed(c) \/ PublishFailed(c)
    \/ Publish(c)
    \/ StreamCloses(c) \/ StreamFails(c)
    \/ DropNode(c)
    \/ PublishLostLine(c) \/ StoreLost(c) \/ PublishLost(c) \/ AllLost(c)

RunStep(j) ==
    \/ RunSelect(j)
    \/ RunAnnounce(j)
    \/ RunDispatch(j) \/ RunDispatchFails(j) \/ RunDispatched(j)
    \/ RunReceive(j) \/ RunLagged(j) \/ RunFinish(j)

KillStep(j) == KillSend(j) \/ KillFails(j) \/ KillAck(j)

\* What a client decides: to make a request, to leave, to kill.
ClientStep(j) == RunSubscribe(j) \/ RunSelectFails(j) \/ RunClientGone(j) \/ KillCollect(j)

CoordNext ==
    \/ \E c \in Conn : HandlerStep(c) \/ WriterFails(c)
    \/ \E j \in Job : RunStep(j) \/ KillStep(j) \/ ClientStep(j)
    \/ \E l \in Lease : CreateLease(l) \/ ReleaseLease(l)
=============================================================================
