-------------------------------- MODULE Wire --------------------------------
(***************************************************************************)
(* What the coordinator and the workers share: the identities, the         *)
(* messages of crates/protocol that cross a worker's WebSocket, and the    *)
(* two FIFO channels of each connection.                                   *)
(*                                                                         *)
(* A connection is <<node, k>>: the k-th iteration of the worker's connect *)
(* loop on that node.  Iterations of one node are sequential, because the  *)
(* loop awaits run_worker.  A job is one run_process request.  A task is   *)
(* <<job, connection>>: run_process makes one task for each node it        *)
(* selects and sends it to the handle the node has at that moment.         *)
(***************************************************************************)
EXTENDS Integers, Sequences, FiniteSets

CONSTANTS
    Node,          \* node ids: the workers' node names
    Sessions,      \* bound: how often one worker connects
    Job,           \* bound: the run_process requests that are made
    Killable,      \* the jobs a client asks to kill (once each)
    Timed,         \* the jobs whose request carries a timeout
    Chatty,        \* the jobs whose processes write a line of output
    Waits,         \* the jobs whose request has wait = true
    Breaks,        \* how a connection may end: "closed" (a Close frame), "reset";
                   \* "deaf": the worker gives it up right after the registration
    ClientLeaves,  \* TRUE: a send to a client may fail
    ChanCap,       \* capacity of a channel (256 and 512 in the code)
    EventCap,      \* capacity of the event broadcast (1024 in the code)
    NoTask,        \* the task of a message that carries none
    NoHandle       \* the handle of a node the coordinator does not know

ASSUME SessionsAssumption == Sessions \in Nat \ {0}
ASSUME JobsAssumption ==
    Killable \subseteq Job /\ Timed \subseteq Job /\ Chatty \subseteq Job /\ Waits \subseteq Job
ASSUME BreaksAssumption == Breaks \subseteq {"closed", "reset", "deaf"}
ASSUME ClientLeavesAssumption == ClientLeaves \in BOOLEAN
ASSUME CapacityAssumption == ChanCap \in Nat \ {0} /\ EventCap \in Nat \ {0}

Conn == Node \X (1..Sessions)
Task == Job \X Conn

JobOf(t) == t[1]
ConnOf(t) == t[2]
NodeOf(c) == c[1]

ASSUME NoTaskAssumption == NoTask \notin Task
ASSUME NoHandleAssumption == NoHandle \notin Conn

(***************************************************************************)
(* Messages.  What a worker sends is also what the coordinator broadcasts  *)
(* as an event; "syslog" is a log line of the System stream.               *)
(***************************************************************************)
TaskMessage ==
    [type : {"started", "log", "syslog", "exited", "error"}, task : Task, ok : BOOLEAN]
DownMessage == [type : {"start", "kill"}, task : Task]

Register == [type |-> "register", task |-> NoTask, ok |-> FALSE]
UpMessage == {Register} \cup TaskMessage

TaskStarted(t) == [type |-> "started", task |-> t, ok |-> FALSE]
LogLine(t) == [type |-> "log", task |-> t, ok |-> FALSE]
SystemLine(t) == [type |-> "syslog", task |-> t, ok |-> FALSE]
TaskExited(t, success) == [type |-> "exited", task |-> t, ok |-> success]
WorkerError(t) == [type |-> "error", task |-> t, ok |-> FALSE]

StartTask(t) == [type |-> "start", task |-> t]
KillTask(t) == [type |-> "kill", task |-> t]

VARIABLES
    link,      \* link[c]: "idle" (never made), "open", "deaf", or how it ended
    toCoord,   \* toCoord[c]: the worker's out channel and the socket it feeds
    toWorker   \* toWorker[c]: the handle's mpsc channel and the socket it feeds

wireVars == <<link, toCoord, toWorker>>

WireTypeOK ==
    /\ link \in [Conn -> {"idle", "open", "deaf", "closed", "reset"}]
    /\ toCoord \in [Conn -> Seq(UpMessage)]
    /\ toWorker \in [Conn -> Seq(DownMessage)]

WireInit ==
    /\ link = [c \in Conn |-> "idle"]
    /\ toCoord = [c \in Conn |-> <<>>]
    /\ toWorker = [c \in Conn |-> <<>>]

\* There is room for one more message: a send on a bounded channel waits for it.
Room(channel) == Len(channel) < ChanCap
=============================================================================
