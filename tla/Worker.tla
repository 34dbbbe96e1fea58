------------------------------- MODULE Worker -------------------------------
(***************************************************************************)
(* crates/worker and crates/executor: the connect loop, the read loop and  *)
(* start_task of one connection, and the LocalExecutor that connection     *)
(* owns.  The executor starts a child in a process group of its own, waits *)
(* for it in a task of its own (with the request's timeout, if any), reads *)
(* its output in other tasks, and sends Started, Log and Exited into an    *)
(* event channel that start_task forwards to the connection.               *)
(*                                                                         *)
(* A connection that ends takes its executor and channels with it, not the *)
(* children: they go on, and nobody hears of them.                         *)
(***************************************************************************)
EXTENDS Wire

VARIABLES
    proc,      \* proc[t]: where the task stands on the worker
    exitOk,    \* exitOk[t]: the child has exited and its status was success
    verdict,   \* verdict[t]: the success flag the waiter has for the Exited event
    output,    \* output[t]: the child's line: "none", "written" to the pipe, "read"
    events     \* events[t]: the task's ExecutionEvent channel

workerVars == <<proc, exitOk, verdict, output, events>>

\* "running" and "exited": the waiter is in child.wait(), the child lives or is a
\* zombie.  "terminating": the waiter is in terminate_child.  "reaped": the waiter
\* has the status and the pid is still in the processes map.  "removed": it is not.
ProcState == {"none", "received", "refused", "running", "exited", "terminating",
              "reaped", "removed", "done"}

\* The task's pid is in the processes map.
InProcesses(t) == proc[t] \in {"running", "exited", "terminating", "reaped"}

WorkerTypeOK ==
    /\ proc \in [Task -> ProcState]
    /\ exitOk \in [Task -> BOOLEAN]
    /\ verdict \in [Task -> BOOLEAN]
    /\ output \in [Task -> {"none", "written", "read"}]
    /\ events \in [Task -> Seq(TaskMessage)]

WorkerInit ==
    /\ proc = [t \in Task |-> "none"]
    /\ exitOk = [t \in Task |-> FALSE]
    /\ verdict = [t \in Task |-> FALSE]
    /\ output = [t \in Task |-> "none"]
    /\ events = [t \in Task |-> <<>>]

IsOpenLink(c) == link[c] = "open"

\* events.send: waits for room; a closed channel swallows the event.
Emit(t, event) ==
    IF IsOpenLink(ConnOf(t))
    THEN /\ Room(events[t])
         /\ events' = [events EXCEPT ![t] = Append(@, event)]
    ELSE UNCHANGED events

\* out_tx.send
SendUp(c, message) ==
    /\ Room(toCoord[c])
    /\ toCoord' = [toCoord EXCEPT ![c] = Append(@, message)]

------------------------------------------------------------------------------
(* main and run_worker *)

\* The next iteration of the connect loop; the registration is sent first.  Then the
\* policy file is read: when it does not parse, `?` leaves run_worker, but the writer
\* and the heartbeat are tasks of their own and keep the socket open.  The coordinator
\* goes on talking to a worker that does not listen.
Connect(c) ==
    /\ link[c] = "idle"
    /\ \A k \in 1..(c[2] - 1) : link[<<NodeOf(c), k>>] \in {"deaf", "closed", "reset"}
    /\ \E how \in {"open"} \cup (Breaks \cap {"deaf"}) : link' = [link EXCEPT ![c] = how]
    /\ toCoord' = [toCoord EXCEPT ![c] = <<Register>>]
    /\ UNCHANGED <<toWorker, workerVars>>

\* The connection ends.  Of what the worker sent, a prefix reaches the
\* coordinator; event channels close, since nothing forwards from them.
Disconnect(c, how) ==
    /\ IsOpenLink(c)
    /\ link' = [link EXCEPT ![c] = how]
    /\ \E kept \in 0..Len(toCoord[c]) :
        toCoord' = [toCoord EXCEPT ![c] = SubSeq(@, 1, kept)]
    /\ events' = [t \in Task |-> IF ConnOf(t) = c THEN <<>> ELSE events[t]]
    /\ UNCHANGED <<toWorker, proc, exitOk, verdict, output>>

Command(c, type) ==
    /\ IsOpenLink(c)
    /\ toWorker[c] # <<>>
    /\ Head(toWorker[c]).type = type
    /\ toWorker' = [toWorker EXCEPT ![c] = Tail(@)]

\* StartTask spawns start_task and goes on reading.
ReceiveStart(c) ==
    /\ Command(c, "start")
    /\ proc' = [proc EXCEPT ![Head(toWorker[c]).task] = "received"]
    /\ UNCHANGED <<link, toCoord, exitOk, verdict, output, events>>

\* executor.kill sends SIGTERM to the group of a pid it finds in the map.  The
\* child may then exit or not, as it may at any time.
ReceiveKill(c) ==
    /\ Command(c, "kill")
    /\ LET t == Head(toWorker[c]).task IN
        \/ /\ ConnOf(t) = c /\ InProcesses(t)
           /\ UNCHANGED toCoord
        \/ \* no such pid in the map, or no such process group any more: an Error
           /\ ~(ConnOf(t) = c /\ proc[t] \in {"running", "exited", "terminating"})
           /\ SendUp(c, WorkerError(t))
    /\ UNCHANGED <<link, workerVars>>

------------------------------------------------------------------------------
(* start_task and LocalExecutor::start *)

\* The policy denies the task, or the child cannot be spawned: one Error.
RefuseTask(t) ==
    /\ proc[t] = "received"
    /\ proc' = [proc EXCEPT ![t] = "refused"]
    /\ IF IsOpenLink(ConnOf(t)) THEN SendUp(ConnOf(t), WorkerError(t)) ELSE UNCHANGED toCoord
    /\ UNCHANGED <<link, toWorker, exitOk, verdict, output, events>>

\* The child is spawned and entered in the map, then Started is sent.
StartChild(t) ==
    /\ proc[t] = "received"
    /\ proc' = [proc EXCEPT ![t] = "running"]
    /\ Emit(t, TaskStarted(t))
    /\ UNCHANGED <<wireVars, exitOk, verdict, output>>

\* start_task forwards the next event to the connection.
Forward(t) ==
    /\ events[t] # <<>>
    /\ SendUp(ConnOf(t), Head(events[t]))
    /\ events' = [events EXCEPT ![t] = Tail(@)]
    /\ UNCHANGED <<link, toWorker, proc, exitOk, verdict, output>>

------------------------------------------------------------------------------
(* The child, its waiter and its log readers *)

WriteLine(t) ==
    /\ JobOf(t) \in Chatty
    /\ proc[t] \in {"running", "terminating"}
    /\ output[t] = "none"
    /\ output' = [output EXCEPT ![t] = "written"]
    /\ UNCHANGED <<wireVars, proc, exitOk, verdict, events>>

\* The reader is a task of its own: it may come to the line after the waiter has
\* reported the exit.
ReadLine(t) ==
    /\ output[t] = "written"
    /\ output' = [output EXCEPT ![t] = "read"]
    /\ Emit(t, LogLine(t))
    /\ UNCHANGED <<wireVars, proc, exitOk, verdict>>

ChildExits(t) ==
    /\ proc[t] = "running"
    /\ \E success \in BOOLEAN : exitOk' = [exitOk EXCEPT ![t] = success]
    /\ proc' = [proc EXCEPT ![t] = "exited"]
    /\ UNCHANGED <<wireVars, verdict, output, events>>

\* Mutant of Reap: having exited is success, whatever the status.
ReapIgnoresStatus(t) ==
    /\ proc[t] = "exited"
    /\ proc' = [proc EXCEPT ![t] = "reaped"]
    /\ verdict' = [verdict EXCEPT ![t] = TRUE]
    /\ UNCHANGED <<wireVars, exitOk, output, events>>

Reap(t) ==
    /\ proc[t] = "exited"
    /\ proc' = [proc EXCEPT ![t] = "reaped"]
    /\ verdict' = [verdict EXCEPT ![t] = exitOk[t]]
    /\ UNCHANGED <<wireVars, exitOk, output, events>>

\* The other branch of the select: the timer fires, and may win over an exit.
TimeOut(t) ==
    /\ JobOf(t) \in Timed
    /\ proc[t] \in {"running", "exited"}
    /\ proc' = [proc EXCEPT ![t] = "terminating"]
    /\ Emit(t, SystemLine(t))
    /\ UNCHANGED <<wireVars, exitOk, verdict, output>>

\* Mutant of Terminate: a child that the timeout ended counts as a success.
TerminateAsSuccess(t) ==
    /\ proc[t] = "terminating"
    /\ proc' = [proc EXCEPT ![t] = "reaped"]
    /\ verdict' = [verdict EXCEPT ![t] = TRUE]
    /\ UNCHANGED <<wireVars, exitOk, output, events>>

\* SIGTERM, five seconds, SIGKILL: the child is dead and the verdict is failure.
Terminate(t) ==
    /\ proc[t] = "terminating"
    /\ proc' = [proc EXCEPT ![t] = "reaped"]
    /\ verdict' = [verdict EXCEPT ![t] = FALSE]
    /\ UNCHANGED <<wireVars, exitOk, output, events>>

RemovePid(t) ==
    /\ proc[t] = "reaped"
    /\ proc' = [proc EXCEPT ![t] = "removed"]
    /\ UNCHANGED <<wireVars, exitOk, verdict, output, events>>

SendExited(t) ==
    /\ proc[t] = "removed"
    /\ proc' = [proc EXCEPT ![t] = "done"]
    /\ Emit(t, TaskExited(t, verdict[t]))
    /\ UNCHANGED <<wireVars, exitOk, verdict, output>>

------------------------------------------------------------------------------
ReadLoop(c) == ReceiveStart(c) \/ ReceiveKill(c)

TaskStep(t) ==
    \/ StartChild(t)
    \/ Forward(t)
    \/ ReadLine(t)
    \/ Reap(t)
    \/ TimeOut(t) \/ Terminate(t)
    \/ RemovePid(t)
    \/ SendExited(t)

\* What the program does not decide: a refusal, output, the child's exit.
ChildStep(t) == RefuseTask(t) \/ WriteLine(t) \/ ChildExits(t)

WorkerNext ==
    \/ \E c \in Conn : Connect(c) \/ ReadLoop(c) \/ \E how \in Breaks \ {"deaf"} : Disconnect(c, how)
    \/ \E t \in Task : TaskStep(t) \/ ChildStep(t)
=============================================================================
