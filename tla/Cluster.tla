------------------------------- MODULE Cluster -------------------------------
(***************************************************************************)
(* The coordinator and the workers joined by their connections, and what   *)
(* the two promise together.                                               *)
(***************************************************************************)
EXTENDS Coordinator, Worker

vars == <<wireVars, coordVars, workerVars>>

TypeOK == WireTypeOK /\ CoordTypeOK /\ WorkerTypeOK

Init == WireInit /\ CoordInit /\ WorkerInit

\* A step of the coordinator changes nothing a worker keeps, and conversely; both
\* change the wire.
Next ==
    \/ CoordNext /\ UNCHANGED workerVars
    \/ WorkerNext /\ UNCHANGED coordVars

Spec == Init /\ [][Next]_vars

\* The runtime schedules every task of both programs again and again, a receiver is
\* woken when there is something to receive, and a timer fires.  Nothing is assumed
\* of what clients ask, of children's exits and output, or of how connections end.
Fairness ==
    /\ \A c \in Conn :
        /\ WF_vars(HandlerStep(c) /\ UNCHANGED workerVars)
        /\ WF_vars(WriterFails(c) /\ UNCHANGED workerVars)
        /\ WF_vars(ReadLoop(c) /\ UNCHANGED coordVars)
        /\ WF_vars(Connect(c) /\ UNCHANGED coordVars)
    /\ \A j \in Job :
        /\ WF_vars(RunStep(j) /\ UNCHANGED workerVars)
        /\ WF_vars(KillStep(j) /\ UNCHANGED workerVars)
    /\ \A t \in Task :
        /\ WF_vars(StartChild(t) /\ UNCHANGED coordVars)
        /\ WF_vars(Forward(t) /\ UNCHANGED coordVars)
        /\ WF_vars(ReadLine(t) /\ UNCHANGED coordVars)
        /\ WF_vars((Reap(t) \/ TimeOut(t)) /\ UNCHANGED coordVars)
        /\ WF_vars(Terminate(t) /\ UNCHANGED coordVars)
        /\ WF_vars(RemovePid(t) /\ UNCHANGED coordVars)
        /\ WF_vars(SendExited(t) /\ UNCHANGED coordVars)

FairSpec == Spec /\ Fairness

------------------------------------------------------------------------------
(* What a run request promises its client *)

Finished(j) == rpc[j] \in {"ok", "failed"}

\* When a client has JobFinished, the store has an exit for every task of the job:
\* each of the three places that broadcast an exit writes it down first.
FinishedIsRecorded ==
    \A j \in Job : Finished(j) => \A t \in assigned[j] : rows[t].exited

\* A job reported as a success had a process for every task, and each exited with
\* success: no refusal, kill error, timeout or lost worker is ever counted as one.
SuccessIsReal ==
    \A j \in Job : rpc[j] = "ok" =>
        /\ assigned[j] # {}
        /\ \A t \in assigned[j] : exitOk[t] /\ proc[t] = "done"

\* A row says 'succeeded' only of a process that exited with success.
SucceededIsReal ==
    \A t \in Task : rows[t].status = "succeeded" => exitOk[t] /\ verdict[t]

\* A row says 'failed' only for a cause: the worker refused the task, its process
\* was reported a failure, its connection ended, or its own job was killed.  In
\* particular no request about one job fails a task of another.
FailureIsExplained ==
    \A t \in Task : rows[t].status = "failed" =>
        \/ proc[t] = "refused"
        \/ proc[t] = "done" /\ ~verdict[t]
        \/ ~IsOpenLink(ConnOf(t))
        \/ kpc[JobOf(t)] # "idle"

\* What JobFinished said and what job_status says from then on agree.
ReportAgrees ==
    \A j \in Job :
        /\ rpc[j] = "ok" => JobStatus(rows, assigned[j]) = "succeeded"
        /\ rpc[j] = "failed" => JobStatus(rows, assigned[j]) = "failed"

\* The half of ReportAgrees that survives kill requests.
SuccessAgrees ==
    \A j \in Job : rpc[j] = "ok" => JobStatus(rows, assigned[j]) = "succeeded"

\* run_process streams the job's log lines before job_finished: a client told of
\* success has seen every line the job's processes wrote.
FinishedShowsOutput ==
    \A j \in Job : rpc[j] = "ok" =>
        \A t \in assigned[j] : output[t] # "none" => t \in shown[j]

------------------------------------------------------------------------------
(* The registry against the store *)

Between(c) == hpc[c] \in {"new", "read", "gone"}

\* Between two messages of a node's connection, kill_job finds a task of that node
\* exactly when job_status calls it queued or running.
LedgerAgrees ==
    \A t \in Task : Between(ConnOf(t)) =>
        (t \in running[NodeOf(ConnOf(t))] <=> IsOpen(rows[t]))

\* The outcome of a task never changes once it is in the store.
OutcomeIsFinal ==
    [][\A t \in Task : IsSettled(rows[t]) => rows'[t] = rows[t]]_vars

\* The jobs a client asked to kill ...
Killed == {j \in Job : kpc[j] # "idle"}

\* ... and the connections that ended in order, whose handler has begun to fail what its
\* node was running.
Dropped == {c \in Conn : link[c] = "closed" /\ hpc[c] \in {"lost", "lostStore", "lostExit", "gone"}}

\* ... the tasks that either of them gives up: a request or a handler decides their
\* outcome.  Of the others, the store has the outcome the worker reported.
GivenUp == {t \in Task : JobOf(t) \in Killed \/ \E c \in Dropped : NodeOf(c) = NodeOf(ConnOf(t))}

\* The outcome of a task that was not given up never changes once it is in the store,
\* whatever reports, errors, losses and requests are still on their way.
OwnOutcomeIsFinal ==
    [][\A t \in Task \ GivenUp : IsSettled(rows[t]) => rows'[t] = rows[t]]_vars

\* A recorded success is never taken back, not even by a late error or a lost worker.
SuccessIsFinal ==
    [][\A t \in Task : rows[t].status = "succeeded" => rows'[t] = rows[t]]_vars

------------------------------------------------------------------------------
(* Leases and what runs on their nodes *)

\* What a run request started under a lease is on nodes of that lease only.
RunStaysInLease ==
    \A j \in Job : under[j] \in Lease =>
        \A t \in assigned[j] : NodeOf(ConnOf(t)) \in leases[under[j]].nodes

\* The lease a run was started under has been granted.
RunsUnderGrants ==
    \A j \in Job : under[j] \in Lease /\ assigned[j] # {} => leases[under[j]].state # "unused"

\* A node's handle belongs to a connection of that node.
HandlesMatch == \A n \in Node : handle[n] # NoHandle => NodeOf(handle[n]) = n

\* Runs under two different leases that are held, one of them exclusive, share no node.
LeasedRunsAreApart ==
    \A j, k \in Job :
        /\ under[j] # under[k]
        /\ Held(under[j]) /\ Held(under[k]) /\ leases[under[j]].exclusive
        => \A t \in assigned[j], u \in assigned[k] : NodeOf(ConnOf(t)) # NodeOf(ConnOf(u))

------------------------------------------------------------------------------
(* The invariants the proofs rest on *)

\* A handler between two steps of a message has the message of a task at hand, and
\* of the kind those steps belong to.
HandlingTask ==
    \A c \in Conn :
        /\ hpc[c] \notin {"new", "read", "drop", "lost", "gone"} => cur[c] \in TaskMessage
        /\ hpc[c] = "track" => cur[c].type = "started"
        /\ hpc[c] \in {"errorStore", "errorExit"} => cur[c].type = "error"

Recorded(event) == event.type = "exited" => rows[event.task].exited

\* An exit is in the store before it is broadcast, whoever broadcasts it ...
HandlersRecord ==
    \A c \in Conn :
        /\ hpc[c] \in {"untrack", "errorExit", "lostExit"} => rows[cur[c].task].exited
        /\ hpc[c] = "publish" => Recorded(cur[c])

\* ... so it is there while the event waits in a subscription ...
EventsRecorded ==
    \A j \in Job : \A i \in 1..Len(sub[j]) : Recorded(sub[j][i])

\* ... and once a run handler has taken the task off its pending set.
WaitersRecorded ==
    \A j \in Job : rpc[j] \in {"waiting", "ok", "failed"} =>
        \A t \in assigned[j] :
            \/ rows[t].exited
            \/ rpc[j] = "waiting" /\ t \in pending[j]

ExitsAreRecorded == HandlersRecord /\ EventsRecorded /\ WaitersRecorded

\* The run handler has still to send the task to its worker.
Unsent(t) ==
    LET j == JobOf(t) IN
    \/ rpc[j] \in {"idle", "subscribed", "announce"}
    \/ rpc[j] = "dispatch" /\ t \in queue[j]

\* A task is started at most once: it is unsent, or in one message to its own worker,
\* or has reached it.
UnsentIsNew ==
    \A t \in Task : Unsent(t) =>
        /\ proc[t] = "none"
        /\ \A c \in Conn : \A i \in 1..Len(toWorker[c]) : toWorker[c][i] # StartTask(t)

StartsAreNew ==
    \A c \in Conn : \A i \in 1..Len(toWorker[c]) : toWorker[c][i].type = "start" =>
        /\ ConnOf(toWorker[c][i].task) = c
        /\ proc[toWorker[c][i].task] = "none"
        /\ \A k \in 1..Len(toWorker[c]) : toWorker[c][k] = toWorker[c][i] => k = i

OwnTasks == \A j \in Job : \A t \in assigned[j] \cup queue[j] : JobOf(t) = j

StartedOnce == OwnTasks /\ UnsentIsNew /\ StartsAreNew

\* The tasks whose process has ended, was reaped, and whose status was success.
Succeeded == {t \in Task : proc[t] = "done" /\ verdict[t] /\ exitOk[t]}

\* A report of a successful exit is of one of these tasks.
Honest(report, tasks) == report.type = "exited" /\ report.ok => report.task \in tasks
AllHonest(reports, tasks) == \A i \in 1..Len(reports) : Honest(reports[i], tasks)

\* A waiter's verdict of success is the child's status ...
VerdictsAreReal ==
    \A t \in Task : proc[t] \in {"reaped", "removed", "done"} /\ verdict[t] => exitOk[t]

\* ... an exit reported as a success is one, wherever the report has come ...
ReportsAreHonest ==
    /\ \A t \in Task : AllHonest(events[t], Succeeded)
    /\ \A c \in Conn : AllHonest(toCoord[c], Succeeded) /\ Honest(cur[c], Succeeded)
    /\ \A j \in Job : AllHonest(sub[j], Succeeded)

\* ... and so are a row and an answer that say so.
RowsAreHonest == \A t \in Task : rows[t].status = "succeeded" => t \in Succeeded

AnswersAreHonest ==
    \A j \in Job :
        /\ rpc[j] \in {"announce", "dispatch", "waiting", "ok"} => assigned[j] # {}
        /\ rpc[j] = "waiting" /\ allOk[j] => assigned[j] \subseteq pending[j] \cup Succeeded
        /\ rpc[j] = "ok" => assigned[j] \subseteq Succeeded

SuccessIsHonest == VerdictsAreReal /\ ReportsAreHonest /\ RowsAreHonest /\ AnswersAreHonest

------------------------------------------------------------------------------
(* What must happen *)

\* The handler of a run request comes to an end: with a timeout on the request, no
\* loss of a connection and no exit strands the client that waits.
RunEnds == \A j \in Job : rpc[j] = "subscribed" ~> rpc[j] \in RunEnded

\* The job does not stay queued or running in the store for ever.
JobSettles ==
    \A j \in Job : assigned[j] # {} ~> JobStatus(rows, assigned[j]) # "running"

\* A kill request is answered.
KillEnds == \A j \in Job : kpc[j] = "sending" ~> kpc[j] \in {"acked", "failed"}

\* A node whose connection has ended does not stay registered through it.
LostNodeIsDropped ==
    \A c \in Conn : link[c] \in {"closed", "reset"} ~> handle[NodeOf(c)] # c

\* A worker that is connected comes to be registered, and stays registered as long
\* as it stays connected.
ConnectedIsRegistered ==
    \A c \in Conn : link[c] = "open" ~> (handle[NodeOf(c)] = c \/ link[c] # "open")
=============================================================================
