---------------------------- MODULE VerdictProofs ----------------------------
(***************************************************************************)
(* What the client is told and what the store says, for any numbers of     *)
(* nodes, connections, jobs and leases.                                    *)
(*                                                                         *)
(* JobFinished is only ever sent of a job whose every exit is in the store *)
(* (FinishedIsRecorded).  The inductive invariant is Typed /\              *)
(* ExitsAreRecorded: it follows an exit from the store write, through the  *)
(* broadcast and the subscriptions, to the run handler that takes it.      *)
(*                                                                         *)
(* A success in the store or in an answer is the success of a process      *)
(* (SucceededIsReal, SuccessIsReal).  The report of an exit outlives the   *)
(* step that made it by many others, so what it says must stay true: a     *)
(* process that is done is not begun again.  The inductive invariant       *)
(* therefore has two parts: StartedOnce follows a task from its run        *)
(* handler to its worker, SuccessIsHonest follows the verdict back.        *)
(***************************************************************************)
EXTENDS ClusterProofs

\* The exits a step finds in the store it leaves there.
Kept == \A t \in Task : rows[t].exited => rows'[t].exited

\* No step of the system takes an exit out of the store.
LEMMA ExitsAreKept ==
    ASSUME Typed, [Next]_vars
    PROVE  Kept
<1>1. ASSUME NEW t, NEW b, rows' = RecordTaskExited(rows, t, b) PROVE Kept
  BY <1>1 DEF Kept, RecordTaskExited, Typed, TypeOK, CoordTypeOK, StoreTypeOK
<1>2. ASSUME NEW t, rows' = RecordTaskStarted(rows, t) PROVE Kept
  BY <1>2 DEF Kept, RecordTaskStarted, Typed, TypeOK, CoordTypeOK, StoreTypeOK, Row
<1>3. ASSUME NEW S, rows' = RecordTaskDispatched(rows, S) PROVE Kept
  BY <1>3 DEF Kept, RecordTaskDispatched, Typed, TypeOK, CoordTypeOK, StoreTypeOK, Row
<1>4. ASSUME UNCHANGED storeVars PROVE Kept
  BY <1>4 DEF Kept, storeVars
<1>5. ASSUME NEW c \in Conn, HandlerStep(c) PROVE Kept
  BY <1>1, <1>2, <1>4, <1>5
     DEF HandlerStep, RegisterWorker, StoreStarted, TrackStarted, ReceiveLine, StoreExited,
         UntrackExited, UntrackFailed, StoreFailed, PublishFailed, Publish, StreamCloses,
         StreamFails, DropNode, PublishLostLine, StoreLost, PublishLost, AllLost
<1>6. ASSUME NEW j \in Job, RunStep(j) \/ KillStep(j) \/ ClientStep(j) PROVE Kept
  BY <1>3, <1>4, <1>6
     DEF RunStep, KillStep, ClientStep, RunSelect, RunSelectFails, RecordAssignments,
         RunSubscribe, RunAnnounce, RunDispatch, RunDispatchFails, RunDispatched, RunReceive,
         RunLagged, RunFinish, RunClientGone, KillCollect, KillSend, KillFails, KillAck
<1>7. ASSUME CoordNext PROVE Kept
  BY <1>4, <1>5, <1>6, <1>7 DEF CoordNext, WriterFails, CreateLease, ReleaseLease
<1>8. ASSUME UNCHANGED vars \/ UNCHANGED coordVars PROVE Kept
  BY <1>4, <1>8 DEF vars, coordVars
<1>. QED BY <1>7, <1>8 DEF Next

------------------------------------------------------------------------------
\* What was recorded stays recorded where nothing but the store moves.
LEMMA RecordedFrames ==
    ASSUME Typed, Kept, ExitsAreRecorded
    PROVE  /\ UNCHANGED <<hpc, cur>> => HandlersRecord'
           /\ UNCHANGED sub => EventsRecorded'
           /\ UNCHANGED <<rpc, assigned, pending>> => WaitersRecorded'
           /\ \A e \in TaskMessage : Recorded(e) => Recorded(e)'
<1>1. \A e \in TaskMessage : Recorded(e) => Recorded(e)'
  BY DEF Recorded, Kept, TaskMessage
<1>2. UNCHANGED <<hpc, cur>> => HandlersRecord'
  <2>. SUFFICES ASSUME UNCHANGED <<hpc, cur>>, NEW c \in Conn
                PROVE  /\ hpc[c] \in {"untrack", "errorExit", "lostExit"} =>
                             rows'[cur[c].task].exited
                       /\ hpc[c] = "publish" => Recorded(cur[c])'
    BY DEF HandlersRecord, Recorded
  <2>1. hpc[c] \in {"untrack", "errorExit", "lostExit", "publish"} =>
            cur[c] \in TaskMessage /\ cur[c].task \in Task
    BY DEF Typed, HandlingTask, TaskMessage
  <2>. QED BY <1>1, <2>1 DEF ExitsAreRecorded, HandlersRecord, Kept
<1>3. UNCHANGED sub => EventsRecorded'
  BY <1>1 DEF ExitsAreRecorded, EventsRecorded, Typed, TypeOK, CoordTypeOK, RunTypeOK
<1>4. UNCHANGED <<rpc, assigned, pending>> => WaitersRecorded'
  BY DEF ExitsAreRecorded, WaitersRecorded, Kept, Typed, TypeOK, CoordTypeOK, RunTypeOK
<1>. QED BY <1>1, <1>2, <1>3, <1>4

\* A broadcast of a recorded exit, or of anything else, leaves only recorded exits
\* in the subscriptions.
LEMMA BroadcastRecorded ==
    ASSUME Typed, Kept, ExitsAreRecorded, NEW e \in TaskMessage, Broadcast(e), Recorded(e)'
    PROVE  EventsRecorded'
<1>. SUFFICES ASSUME NEW j \in Job, NEW i \in 1..Len(sub'[j]), sub'[j][i].type = "exited"
              PROVE  rows'[sub'[j][i].task].exited
  BY DEF EventsRecorded, Recorded
<1>1. sub[j] \in Seq(TaskMessage)
  BY DEF Typed, TypeOK, CoordTypeOK, RunTypeOK
<1>2. ASSUME NEW k \in 1..Len(sub[j]), sub[j][k].type = "exited"
      PROVE  rows'[sub[j][k].task].exited
  <2>1. sub[j][k] \in TaskMessage
    BY <1>1
  <2>2. sub[j][k].task \in Task
    BY <2>1 DEF TaskMessage
  <2>3. rows[sub[j][k].task].exited
    BY <1>2 DEF ExitsAreRecorded, EventsRecorded, Recorded
  <2>. QED BY <2>2, <2>3 DEF Kept
<1>3. CASE sub'[j] = sub[j]
  BY <1>2, <1>3
<1>4. CASE sub'[j] = Append(sub[j], e)
  <2>1. CASE i = Len(sub[j]) + 1
    BY <1>1, <1>4, <2>1 DEF Recorded
  <2>2. CASE i \in 1..Len(sub[j])
    BY <1>1, <1>2, <1>4, <2>2
  <2>. QED BY <1>1, <1>4, <2>1, <2>2
<1>. QED BY <1>3, <1>4 DEF Broadcast, Typed, TypeOK, CoordTypeOK, RunTypeOK
\* A handler that moves need only be looked at by itself.
LEMMA OneHandlerMoves ==
    ASSUME Typed, Kept, ExitsAreRecorded, NEW c \in Conn,
           \A d \in Conn \ {c} : hpc'[d] = hpc[d] /\ cur'[d] = cur[d],
           hpc'[c] \in {"untrack", "errorExit", "lostExit"} => rows'[cur'[c].task].exited,
           hpc'[c] = "publish" /\ cur'[c].type = "exited" => rows'[cur'[c].task].exited
    PROVE  HandlersRecord'
<1>. SUFFICES ASSUME NEW d \in Conn \ {c}
              PROVE  /\ hpc[d] \in {"untrack", "errorExit", "lostExit"} => rows'[cur[d].task].exited
                     /\ hpc[d] = "publish" /\ cur[d].type = "exited" => rows'[cur[d].task].exited
  BY DEF HandlersRecord, Recorded
<1>1. hpc[d] \in {"untrack", "errorExit", "lostExit", "publish"} => cur[d].task \in Task
  BY DEF Typed, HandlingTask, TaskMessage
<1>. QED BY <1>1 DEF ExitsAreRecorded, HandlersRecord, Recorded, Kept

\* Every step of a connection's handler keeps exits recorded.
LEMMA HandlerStepRecords ==
    ASSUME Typed, Kept, ExitsAreRecorded, NEW c \in Conn, HandlerStep(c)
    PROVE  ExitsAreRecorded'
<1>1. WaitersRecorded'
  BY RecordedFrames DEF HandlerStep, RegisterWorker, StoreStarted, TrackStarted, ReceiveLine,
         StoreExited, UntrackExited, UntrackFailed, StoreFailed, PublishFailed, Publish,
         StreamCloses, StreamFails, DropNode, PublishLostLine, StoreLost, PublishLost, AllLost,
         runVars
<1>2. \A d \in Conn \ {c} : hpc'[d] = hpc[d] /\ cur'[d] = cur[d]
  BY DEF HandlerStep, RegisterWorker, StoreStarted, TrackStarted, ReceiveLine,
         StoreExited, UntrackExited, UntrackFailed, StoreFailed, PublishFailed, Publish,
         StreamCloses, StreamFails, DropNode, PublishLostLine, StoreLost, PublishLost, AllLost,
         Take, Goto, Typed, TypeOK, CoordTypeOK, HandlerTypeOK
<1>3. /\ hpc'[c] \in {"untrack", "errorExit", "lostExit"} => rows'[cur'[c].task].exited
      /\ hpc'[c] = "publish" /\ cur'[c].type = "exited" => rows'[cur'[c].task].exited
  <2>. USE DEF Typed, TypeOK, CoordTypeOK, HandlerTypeOK
  <2>1. CASE \/ RegisterWorker(c) \/ StoreStarted(c) \/ Publish(c) \/ StreamCloses(c)
             \/ StreamFails(c)
             \/ DropNode(c) \/ PublishLostLine(c) \/ PublishLost(c) \/ AllLost(c)
    BY <2>1 DEF RegisterWorker, StoreStarted, Publish, StreamCloses, StreamFails, DropNode,
                PublishLostLine, PublishLost, AllLost, Take, Goto
  <2>2. CASE TrackStarted(c) \/ PublishFailed(c)
    BY <2>2 DEF TrackStarted, PublishFailed, Goto, HandlingTask
  <2>3. CASE ReceiveLine(c)
    BY <2>3 DEF ReceiveLine, Incoming, Take, Goto
  <2>4. CASE StoreExited(c)
    <3>1. Head(toCoord[c]) \in UpMessage /\ Head(toCoord[c]).type = "exited"
      BY <2>4 DEF StoreExited, Incoming, WireTypeOK
    <3>2. Head(toCoord[c]).task \in Task
      BY <3>1 DEF UpMessage, TaskMessage, Register
    <3>3. rows'[Head(toCoord[c]).task].exited
      BY <2>4, <3>2 DEF StoreExited, RecordTaskExited, StoreTypeOK
    <3>. QED BY <2>4, <3>3 DEF StoreExited, Take, Goto
  <2>5. CASE UntrackExited(c)
    BY <2>5 DEF UntrackExited, Goto, storeVars, ExitsAreRecorded, HandlersRecord
  <2>6. CASE UntrackFailed(c)
    BY <2>6 DEF UntrackFailed, Incoming, Take, Goto
  <2>7. CASE StoreFailed(c) \/ StoreLost(c)
    <3>1. cur[c].task \in Task
      BY <2>7 DEF StoreFailed, StoreLost, HandlingTask, TaskMessage
    <3>2. rows'[cur[c].task].exited
      BY <2>7, <3>1 DEF StoreFailed, StoreLost, RecordTaskExited, StoreTypeOK
    <3>. QED BY <2>7, <3>2 DEF StoreFailed, StoreLost, Goto
  <2>. QED BY <2>1, <2>2, <2>3, <2>4, <2>5, <2>6, <2>7 DEF HandlerStep
<1>4. EventsRecorded'
  <2>1. CASE UNCHANGED sub
    BY <2>1, RecordedFrames
  <2>2. ASSUME NEW e \in TaskMessage, Broadcast(e), Recorded(e) PROVE EventsRecorded'
    BY <2>2, BroadcastRecorded, RecordedFrames
  <2>3. CASE PublishFailed(c)
    <3>1. cur[c].task \in Task /\ rows[cur[c].task].exited
      BY <2>3 DEF PublishFailed, Typed, HandlingTask, TaskMessage, ExitsAreRecorded, HandlersRecord
    <3>2. TaskExited(cur[c].task, FALSE) \in TaskMessage /\ Recorded(TaskExited(cur[c].task, FALSE))
      BY <3>1, MessagesTyped DEF Recorded, TaskExited
    <3>. QED BY <2>2, <2>3, <3>2 DEF PublishFailed
  <2>4. CASE Publish(c) \/ PublishLost(c)
    <3>1. cur[c] \in TaskMessage /\ Recorded(cur[c])
      BY <2>4
         DEF Publish, PublishLost, Typed, HandlingTask, Recorded, ExitsAreRecorded, HandlersRecord
    <3>. QED BY <2>2, <2>4, <3>1 DEF Publish, PublishLost
  <2>5. CASE PublishLostLine(c)
    <3>1. PICK t \in lost[c] : Broadcast(SystemLine(t))
      BY <2>5 DEF PublishLostLine
    <3>2. SystemLine(t) \in TaskMessage /\ Recorded(SystemLine(t))
      BY <3>1, MessagesTyped DEF Typed, TypeOK, CoordTypeOK, HandlerTypeOK, Recorded, SystemLine
    <3>. QED BY <2>2, <3>1, <3>2
  <2>6. CASE \/ RegisterWorker(c) \/ StoreStarted(c) \/ TrackStarted(c)
             \/ ReceiveLine(c) \/ StoreExited(c)
             \/ UntrackExited(c) \/ UntrackFailed(c) \/ StoreFailed(c) \/ StreamCloses(c)
             \/ StreamFails(c) \/ DropNode(c) \/ StoreLost(c) \/ AllLost(c)
    BY <2>1, <2>6 DEF RegisterWorker, StoreStarted, TrackStarted, ReceiveLine, StoreExited,
                      UntrackExited, UntrackFailed, StoreFailed, StreamCloses, StreamFails,
                      DropNode, StoreLost, AllLost, runVars
  <2>. QED BY <2>3, <2>4, <2>5, <2>6 DEF HandlerStep
<1>. QED BY <1>1, <1>3, <1>4, OneHandlerMoves, <1>2 DEF ExitsAreRecorded

\* Every step of a run_process handler keeps exits recorded.
LEMMA RunStepRecords ==
    ASSUME Typed, Kept, ExitsAreRecorded, NEW j \in Job,
           RunStep(j) \/ RunSubscribe(j) \/ RunSelectFails(j) \/ RunClientGone(j)
    PROVE  ExitsAreRecorded'
<1>. USE DEF Typed, TypeOK, CoordTypeOK, RunTypeOK
<1>1. HandlersRecord'
  BY RecordedFrames
     DEF RunStep, RunSubscribe, RunSelectFails, RunClientGone, RunSelect, RunAnnounce, RunDispatch,
         RunDispatchFails, RunDispatched, RunReceive, RunLagged, RunFinish, handlerVars
<1>2. CASE RunReceive(j)
  <2>1. sub[j] \in Seq(TaskMessage) /\ sub[j] # <<>>
    BY <1>2 DEF RunReceive
  <2>2. EventsRecorded'
    <3>1. ASSUME NEW i \in 1..Len(Tail(sub[j]))
          PROVE  Tail(sub[j])[i] = sub[j][i + 1] /\ i + 1 \in 1..Len(sub[j])
      BY <2>1
    <3>2. ASSUME NEW k \in Job \ {j} PROVE sub'[k] = sub[k]
      BY <1>2 DEF RunReceive
    <3>3. sub'[j] = Tail(sub[j]) /\ rows' = rows
      BY <1>2 DEF RunReceive, storeVars
    <3>. SUFFICES ASSUME NEW k \in Job, NEW i \in 1..Len(sub'[k]), sub'[k][i].type = "exited"
                  PROVE  rows[sub'[k][i].task].exited
      BY <3>3 DEF EventsRecorded, Recorded
    <3>4. CASE k = j
      <4>1. i \in 1..Len(Tail(sub[j])) /\ sub'[k][i] = Tail(sub[j])[i]
        BY <3>3, <3>4
      <4>2. i + 1 \in 1..Len(sub[j]) /\ sub'[k][i] = sub[j][i + 1]
        BY <4>1, <3>1
      <4>3. Recorded(sub[j][i + 1])
        BY <4>2 DEF ExitsAreRecorded, EventsRecorded
      <4>. QED BY <4>2, <4>3 DEF Recorded
    <3>5. CASE k # j
      BY <3>2, <3>5 DEF ExitsAreRecorded, EventsRecorded, Recorded
    <3>. QED BY <3>4, <3>5
  <2>3. Recorded(Head(sub[j]))
    BY <2>1 DEF ExitsAreRecorded, EventsRecorded
  <2>4. ASSUME NEW t \in pending[j] \ pending'[j] PROVE rows[t].exited
    BY <1>2, <2>3, <2>4 DEF RunReceive, Recorded
  <2>5. WaitersRecorded'
    BY <1>2, <2>4 DEF RunReceive, storeVars, ExitsAreRecorded, WaitersRecorded
  <2>. QED BY <1>1, <2>2, <2>5 DEF ExitsAreRecorded
<1>3. CASE RunSelect(j) \/ RunSelectFails(j)
  <2>1. EventsRecorded'
    BY <1>3, RecordedFrames DEF RunSelect, RunSelectFails
  <2>2. /\ rpc'[j] \notin {"waiting", "ok", "failed"}
        /\ \A k \in Job \ {j} :
              rpc'[k] = rpc[k] /\ assigned'[k] = assigned[k] /\ pending'[k] = pending[k]
    BY <1>3 DEF RunSelect, RunSelectFails, RunGoto, RecordAssignments
  <2>3. \A k \in Job : assigned[k] \subseteq Task
    OBVIOUS
  <2>4. WaitersRecorded'
    BY <2>2, <2>3 DEF ExitsAreRecorded, WaitersRecorded, Kept
  <2>. QED BY <1>1, <2>1, <2>4 DEF ExitsAreRecorded
<1>4. ASSUME rows' = rows, sub' = sub, assigned' = assigned,
             \A k \in Job \ {j} : rpc'[k] = rpc[k] /\ pending'[k] = pending[k],
             rpc'[j] \in {"waiting", "ok", "failed"} =>
                 \A t \in assigned[j] : rows[t].exited \/ (rpc'[j] = "waiting" /\ t \in pending'[j])
      PROVE  ExitsAreRecorded'
  BY <1>1, <1>4 DEF ExitsAreRecorded, EventsRecorded, WaitersRecorded, Recorded
<1>5. CASE RunSubscribe(j) \/ RunAnnounce(j) \/ RunDispatch(j) \/ RunDispatchFails(j)
              \/ RunLagged(j) \/ RunClientGone(j)
  BY <1>4, <1>5 DEF RunSubscribe, RunAnnounce, RunDispatch, RunDispatchFails, RunLagged,
                    RunClientGone, RunGoto, storeVars, ExitsAreRecorded, WaitersRecorded
<1>6. CASE RunDispatched(j)
  BY <1>4, <1>6 DEF RunDispatched, RunGoto, storeVars
<1>7. CASE RunFinish(j)
  BY <1>4, <1>7 DEF RunFinish, RunGoto, storeVars, ExitsAreRecorded, WaitersRecorded
<1>. QED BY <1>2, <1>3, <1>5, <1>6, <1>7 DEF RunStep

\* Every step of the system keeps exits recorded.
LEMMA NextRecords == Typed /\ ExitsAreRecorded /\ [Next]_vars => ExitsAreRecorded'
<1>. SUFFICES ASSUME Typed, ExitsAreRecorded, [Next]_vars PROVE ExitsAreRecorded'
  OBVIOUS
<1>1. Kept
  BY ExitsAreKept
<1>2. CASE UNCHANGED <<hpc, cur, sub, rpc, assigned, pending>>
  BY <1>1, <1>2, RecordedFrames DEF ExitsAreRecorded
<1>3. ASSUME NEW c \in Conn, HandlerStep(c) PROVE ExitsAreRecorded'
  BY <1>1, <1>3, HandlerStepRecords
<1>4. ASSUME NEW j \in Job, RunStep(j) \/ KillStep(j) \/ ClientStep(j) PROVE ExitsAreRecorded'
  <2>1. CASE KillStep(j) \/ KillCollect(j)
    BY <1>2, <2>1 DEF KillStep, KillCollect, KillSend, KillFails, KillAck, handlerVars, runVars
  <2>. QED BY <1>1, <1>4, <2>1, RunStepRecords DEF ClientStep
<1>5. CASE CoordNext
  BY <1>2, <1>3, <1>4, <1>5
     DEF CoordNext, WriterFails, CreateLease, ReleaseLease, handlerVars, runVars
<1>6. CASE UNCHANGED coordVars \/ UNCHANGED vars
  BY <1>2, <1>6 DEF coordVars, vars, handlerVars, runVars
<1>. QED BY <1>5, <1>6 DEF Next

\* Nothing has exited, and nothing is told of exits.
LEMMA InitRecords == Init => ExitsAreRecorded
BY DEF Init, CoordInit, ExitsAreRecorded, HandlersRecord, EventsRecorded, WaitersRecorded

\* JobFinished is sent only when the store has an exit of every task of the job.
THEOREM FinishedJobsAreRecorded == Spec => []FinishedIsRecorded
<1>1. ExitsAreRecorded => FinishedIsRecorded
  BY DEF ExitsAreRecorded, WaitersRecorded, FinishedIsRecorded, Finished
<1>. QED BY <1>1, InitTyped, NextTyped, InitRecords, NextRecords, PTL DEF Spec

------------------------------------------------------------------------------
(* Successes *)

\* Nothing but run handlers, writers and workers has to do with starts.
LEMMA StartFrames ==
    ASSUME Typed, StartedOnce, UNCHANGED <<rpc, assigned, queue, toWorker, proc>>
    PROVE  StartedOnce'
BY DEF StartedOnce, OwnTasks, UnsentIsNew, StartsAreNew, Unsent

\* A channel that loses its messages starts nothing.
LEMMA ChannelDropped ==
    ASSUME Typed, StartedOnce, NEW c \in Conn, UNCHANGED <<rpc, assigned, queue, proc>>,
           toWorker' = [toWorker EXCEPT ![c] = <<>>]
    PROVE  StartedOnce'
<1>1. \A d \in Conn : toWorker'[d] = toWorker[d] \/ toWorker'[d] = <<>>
  BY DEF Typed, TypeOK, WireTypeOK
<1>2. \A d \in Conn : \A i \in 1..Len(toWorker'[d]) : toWorker'[d] = toWorker[d]
  BY <1>1
<1>3. UnsentIsNew'
  BY <1>2 DEF StartedOnce, UnsentIsNew, Unsent
<1>4. StartsAreNew'
  BY <1>2 DEF StartedOnce, StartsAreNew
<1>. QED BY <1>3, <1>4 DEF StartedOnce, OwnTasks

\* A task that has reached its worker is neither unsent nor in a message.
LEMMA ProcessMoves ==
    ASSUME Typed, StartedOnce, NEW t \in Task, proc[t] # "none",
           \A u \in Task \ {t} : proc'[u] = proc[u],
           UNCHANGED <<rpc, assigned, queue, toWorker>>
    PROVE  StartedOnce'
<1>1. UnsentIsNew'
  BY DEF StartedOnce, UnsentIsNew, Unsent
<1>2. \A c \in Conn : \A i \in 1..Len(toWorker[c]) : toWorker[c][i] \in DownMessage
  BY DEF Typed, TypeOK, WireTypeOK
<1>3. StartsAreNew'
  BY <1>2 DEF StartedOnce, StartsAreNew, DownMessage
<1>. QED BY <1>1, <1>3 DEF StartedOnce, OwnTasks

\* The read loop takes the first message of its channel.
LEMMA HeadTaken ==
    ASSUME Typed, NEW c \in Conn, NEW type, Command(c, type)
    PROVE  /\ toWorker[c] # <<>> /\ Head(toWorker[c]) = toWorker[c][1]
           /\ toWorker[c][1] \in DownMessage /\ toWorker[c][1].type = type
           /\ 1 \in 1..Len(toWorker[c])
           /\ \A d \in Conn \ {c} : toWorker'[d] = toWorker[d]
           /\ \A i \in 1..Len(toWorker'[c]) :
                 i + 1 \in 1..Len(toWorker[c]) /\ toWorker'[c][i] = toWorker[c][i + 1]
<1>1. toWorker[c] \in Seq(DownMessage) /\ toWorker[c] # <<>>
  BY DEF Typed, TypeOK, WireTypeOK, Command
<1>2. Head(toWorker[c]) = toWorker[c][1] /\ 1 \in 1..Len(toWorker[c])
  BY <1>1
<1>3. toWorker[c][1] \in DownMessage
  BY <1>1, <1>2
<1>4. toWorker'[c] = Tail(toWorker[c]) /\ \A d \in Conn \ {c} : toWorker'[d] = toWorker[d]
  BY DEF Typed, TypeOK, WireTypeOK, Command
<1>5. \A i \in 1..Len(Tail(toWorker[c])) :
          i + 1 \in 1..Len(toWorker[c]) /\ Tail(toWorker[c])[i] = toWorker[c][i + 1]
  BY <1>1
<1>. QED BY <1>1, <1>2, <1>3, <1>4, <1>5 DEF Command

\* A start message is taken by its worker, once.
LEMMA StartReceived ==
    ASSUME Typed, StartedOnce, NEW c \in Conn, ReceiveStart(c), UNCHANGED coordVars
    PROVE  StartedOnce'
<1>. DEFINE t == toWorker[c][1].task
<1>1. /\ toWorker[c][1] \in DownMessage /\ toWorker[c][1].type = "start"
      /\ 1 \in 1..Len(toWorker[c])
      /\ \A d \in Conn \ {c} : toWorker'[d] = toWorker[d]
      /\ \A i \in 1..Len(toWorker'[c]) :
            i + 1 \in 1..Len(toWorker[c]) /\ toWorker'[c][i] = toWorker[c][i + 1]
  BY HeadTaken DEF ReceiveStart
<1>2. t \in Task /\ toWorker[c][1] = StartTask(t) /\ ConnOf(t) = c
  BY <1>1 DEF DownMessage, StartTask, StartedOnce, StartsAreNew
<1>3. ~Unsent(t)
  BY <1>1, <1>2 DEF StartedOnce, UnsentIsNew
<1>4. \A u \in Task \ {t} : proc'[u] = proc[u]
  BY HeadTaken DEF ReceiveStart, Typed, TypeOK, WorkerTypeOK
<1>5. \A u \in Task : Unsent(u)' <=> Unsent(u)
  BY DEF coordVars, runVars, Unsent
<1>6. \A d \in Conn : \A i \in 1..Len(toWorker'[d]) :
          \E k \in 1..Len(toWorker[d]) :
              /\ toWorker'[d][i] = toWorker[d][k]
              /\ k = IF d = c THEN i + 1 ELSE i
  BY <1>1
<1>7. UnsentIsNew'
  BY <1>3, <1>4, <1>5, <1>6 DEF StartedOnce, UnsentIsNew
<1>8. StartsAreNew'
  <2>. SUFFICES ASSUME NEW d \in Conn, NEW i \in 1..Len(toWorker'[d]),
                       toWorker'[d][i].type = "start"
                PROVE  /\ ConnOf(toWorker'[d][i].task) = d
                       /\ proc'[toWorker'[d][i].task] = "none"
                       /\ \A k \in 1..Len(toWorker'[d]) :
                              toWorker'[d][k] = toWorker'[d][i] => k = i
    BY DEF StartsAreNew
  <2>1. PICK m \in 1..Len(toWorker[d]) :
            toWorker'[d][i] = toWorker[d][m] /\ m = IF d = c THEN i + 1 ELSE i
    BY <1>6
  <2>2. /\ ConnOf(toWorker[d][m].task) = d /\ proc[toWorker[d][m].task] = "none"
        /\ \A k \in 1..Len(toWorker[d]) : toWorker[d][k] = toWorker[d][m] => k = m
    BY <2>1 DEF StartedOnce, StartsAreNew
  <2>3. toWorker[d][m] \in DownMessage
    BY DEF Typed, TypeOK, WireTypeOK
  <2>4. toWorker[d][m].task \in Task /\ toWorker[d][m] = StartTask(toWorker[d][m].task)
    BY <2>1, <2>3 DEF DownMessage, StartTask
  <2>5. toWorker[d][m].task # t
    <3>1. CASE d = c
      BY <1>1, <1>2, <2>1, <2>2, <2>4, <3>1
    <3>2. CASE d # c
      BY <1>2, <2>2, <3>2
    <3>. QED BY <3>1, <3>2
  <2>6. ASSUME NEW k \in 1..Len(toWorker'[d]), toWorker'[d][k] = toWorker'[d][i] PROVE k = i
    <3>1. PICK n \in 1..Len(toWorker[d]) :
              toWorker'[d][k] = toWorker[d][n] /\ n = IF d = c THEN k + 1 ELSE k
      BY <1>6
    <3>. QED BY <2>1, <2>2, <2>6, <3>1
  <2>. QED BY <1>4, <2>1, <2>2, <2>4, <2>5, <2>6
<1>. QED BY <1>7, <1>8 DEF StartedOnce, OwnTasks, coordVars, runVars

\* A kill message is no start message, and to take it starts nothing.
LEMMA KillReceived ==
    ASSUME Typed, StartedOnce, NEW c \in Conn, ReceiveKill(c), UNCHANGED coordVars
    PROVE  StartedOnce'
<1>1. /\ \A d \in Conn \ {c} : toWorker'[d] = toWorker[d]
      /\ \A i \in 1..Len(toWorker'[c]) :
            i + 1 \in 1..Len(toWorker[c]) /\ toWorker'[c][i] = toWorker[c][i + 1]
  BY HeadTaken DEF ReceiveKill
<1>2. UNCHANGED <<rpc, assigned, queue, proc>>
  BY DEF ReceiveKill, coordVars, runVars, workerVars
<1>3. \A d \in Conn : \A i \in 1..Len(toWorker'[d]) :
          \E k \in 1..Len(toWorker[d]) :
              /\ toWorker'[d][i] = toWorker[d][k]
              /\ k = IF d = c THEN i + 1 ELSE i
  BY <1>1
<1>4. UnsentIsNew'
  BY <1>2, <1>3 DEF StartedOnce, UnsentIsNew, Unsent
<1>5. StartsAreNew'
  BY <1>2, <1>3 DEF StartedOnce, StartsAreNew
<1>. QED BY <1>2, <1>4, <1>5 DEF StartedOnce, OwnTasks

\* A message at the end of one channel.
LEMMA Appended ==
    ASSUME Typed, NEW c \in Conn, NEW m \in DownMessage,
           toWorker' = [toWorker EXCEPT ![c] = Append(@, m)]
    PROVE  \A d \in Conn : \A i \in 1..Len(toWorker'[d]) :
               \/ i \in 1..Len(toWorker[d]) /\ toWorker'[d][i] = toWorker[d][i]
               \/ d = c /\ i = Len(toWorker[c]) + 1 /\ toWorker'[d][i] = m
<1>1. \A d \in Conn : toWorker[d] \in Seq(DownMessage)
  BY DEF Typed, TypeOK, WireTypeOK
<1>2. toWorker'[c] = Append(toWorker[c], m) /\ \A d \in Conn \ {c} : toWorker'[d] = toWorker[d]
  BY DEF Typed, TypeOK, WireTypeOK
<1>3. \A i \in 1..Len(Append(toWorker[c], m)) :
          \/ i \in 1..Len(toWorker[c]) /\ Append(toWorker[c], m)[i] = toWorker[c][i]
          \/ i = Len(toWorker[c]) + 1 /\ Append(toWorker[c], m)[i] = m
  BY <1>1
<1>. QED BY <1>2, <1>3

\* run_process sends a task it has not sent, and then has.
LEMMA DispatchStartsOnce ==
    ASSUME Typed, StartedOnce, NEW j \in Job, RunDispatch(j), UNCHANGED workerVars
    PROVE  StartedOnce'
<1>1. PICK t \in queue[j] :
          /\ toWorker' = [toWorker EXCEPT ![ConnOf(t)] = Append(@, StartTask(t))]
          /\ queue' = [queue EXCEPT ![j] = @ \ {t}]
  BY DEF RunDispatch
<1>2. t \in Task /\ ConnOf(t) \in Conn /\ StartTask(t) \in DownMessage /\ JobOf(t) = j
  BY Parts, MessagesTyped DEF Typed, TypeOK, CoordTypeOK, RunTypeOK, StartedOnce, OwnTasks
<1>3. UNCHANGED <<rpc, assigned, proc>> /\ rpc[j] = "dispatch"
  BY DEF RunDispatch, workerVars
<1>4. queue'[j] = queue[j] \ {t} /\ \A k \in Job \ {j} : queue'[k] = queue[k]
  BY <1>1 DEF Typed, TypeOK, CoordTypeOK, RunTypeOK
<1>5. \A d \in Conn : \A i \in 1..Len(toWorker'[d]) :
          \/ i \in 1..Len(toWorker[d]) /\ toWorker'[d][i] = toWorker[d][i]
          \/ /\ d = ConnOf(t) /\ i = Len(toWorker[ConnOf(t)]) + 1
             /\ toWorker'[d][i] = StartTask(t)
  BY <1>1, <1>2, Appended
<1>6. Unsent(t)
  BY <1>2, <1>3 DEF Unsent
<1>7. \A u \in Task : Unsent(u)' => Unsent(u) /\ u # t
  BY <1>2, <1>3, <1>4, Parts DEF Unsent
<1>8. UnsentIsNew'
  <2>. SUFFICES ASSUME NEW u \in Task, Unsent(u)'
                PROVE  /\ proc'[u] = "none"
                       /\ \A d \in Conn : \A i \in 1..Len(toWorker'[d]) :
                              toWorker'[d][i] # StartTask(u)
    BY DEF UnsentIsNew
  <2>1. Unsent(u) /\ StartTask(u) # StartTask(t)
    BY <1>7 DEF StartTask
  <2>. QED BY <1>3, <1>5, <2>1 DEF StartedOnce, UnsentIsNew
<1>9. StartsAreNew'
  <2>. SUFFICES ASSUME NEW d \in Conn, NEW i \in 1..Len(toWorker'[d]),
                       toWorker'[d][i].type = "start"
                PROVE  /\ ConnOf(toWorker'[d][i].task) = d
                       /\ proc'[toWorker'[d][i].task] = "none"
                       /\ \A k \in 1..Len(toWorker'[d]) :
                              toWorker'[d][k] = toWorker'[d][i] => k = i
    BY DEF StartsAreNew
  <2>1. CASE i \in 1..Len(toWorker[d]) /\ toWorker'[d][i] = toWorker[d][i]
    <3>1. toWorker[d][i] # StartTask(t)
      BY <1>2, <1>6, <2>1 DEF StartedOnce, UnsentIsNew
    <3>. QED BY <1>3, <1>5, <2>1, <3>1 DEF StartedOnce, StartsAreNew
  <2>2. CASE d = ConnOf(t) /\ i = Len(toWorker[d]) + 1 /\ toWorker'[d][i] = StartTask(t)
    <3>1. proc[t] = "none" /\ StartTask(t).task = t
      BY <1>2, <1>6 DEF StartedOnce, UnsentIsNew, StartTask
    <3>2. ASSUME NEW k \in 1..Len(toWorker'[d]), toWorker'[d][k] = StartTask(t) PROVE k = i
      BY <1>2, <1>5, <1>6, <2>2, <3>2 DEF StartedOnce, UnsentIsNew
    <3>. QED BY <1>3, <2>2, <3>1, <3>2
  <2>. QED BY <1>5, <2>1, <2>2
<1>10. OwnTasks'
  BY <1>3, <1>4 DEF StartedOnce, OwnTasks
<1>. QED BY <1>8, <1>9, <1>10 DEF StartedOnce

\* Every step of a run_process handler starts tasks once.
LEMMA RunStepStartsOnce ==
    ASSUME Typed, StartedOnce, NEW j \in Job,
           RunStep(j) \/ RunSubscribe(j) \/ RunSelectFails(j) \/ RunClientGone(j),
           UNCHANGED workerVars
    PROVE  StartedOnce'
<1>. USE DEF Typed, TypeOK, CoordTypeOK, RunTypeOK
<1>1. CASE RunDispatch(j)
  BY <1>1, DispatchStartsOnce
<1>2. CASE RunReceive(j)
  BY <1>2, StartFrames DEF RunReceive, wireVars, workerVars
<1>3. ASSUME UNCHANGED <<toWorker, proc>>, OwnTasks', \A u \in Task : Unsent(u)' => Unsent(u)
      PROVE  StartedOnce'
  BY <1>3 DEF StartedOnce, UnsentIsNew, StartsAreNew
<1>4. CASE RunSelect(j) \/ RunSelectFails(j)
  <2>1. PICK nodes \in SUBSET Node : assigned' = [assigned EXCEPT ![j] = TasksOf(j, nodes)]
    BY <1>4 DEF RunSelect, RunSelectFails, RecordAssignments, Connected
  <2>2. OwnTasks'
    BY <1>4, <2>1 DEF RunSelect, RunSelectFails, StartedOnce, OwnTasks, TasksOf, JobOf
  <2>3. rpc[j] = "subscribed" /\ \A k \in Job \ {j} : rpc'[k] = rpc[k]
    BY <1>4 DEF RunSelect, RunSelectFails, RunGoto
  <2>4. \A u \in Task : Unsent(u)' => Unsent(u)
    BY <1>4, <2>3, Parts DEF RunSelect, RunSelectFails, Unsent
  <2>. QED BY <1>3, <1>4, <2>2, <2>4 DEF RunSelect, RunSelectFails, wireVars, workerVars
<1>5. CASE RunAnnounce(j)
  <2>1. OwnTasks'
    BY <1>5 DEF RunAnnounce, StartedOnce, OwnTasks
  <2>2. \A u \in Task : Unsent(u)' => Unsent(u)
    BY <1>5, Parts DEF RunAnnounce, RunGoto, Unsent
  <2>. QED BY <1>3, <1>5, <2>1, <2>2 DEF RunAnnounce, wireVars, workerVars
<1>6. CASE RunSubscribe(j) \/ RunDispatchFails(j) \/ RunDispatched(j) \/ RunLagged(j)
              \/ RunFinish(j) \/ RunClientGone(j)
  <2>1. UNCHANGED <<toWorker, proc, assigned, queue>>
    BY <1>6 DEF RunSubscribe, RunDispatchFails, RunDispatched, RunLagged, RunFinish,
                RunClientGone, wireVars, workerVars
  <2>2. \/ rpc[j] = "idle"
        \/ rpc'[j] \notin {"idle", "subscribed", "announce", "dispatch"}
    BY <1>6 DEF RunSubscribe, RunDispatchFails, RunDispatched, RunLagged, RunFinish,
                RunClientGone, RunGoto
  <2>3. \A k \in Job \ {j} : rpc'[k] = rpc[k]
    BY <1>6 DEF RunSubscribe, RunDispatchFails, RunDispatched, RunLagged, RunFinish,
                RunClientGone, RunGoto
  <2>4. \A u \in Task : Unsent(u)' => Unsent(u)
    BY <2>1, <2>2, <2>3, Parts DEF Unsent
  <2>5. OwnTasks'
    BY <2>1 DEF StartedOnce, OwnTasks
  <2>. QED BY <1>3, <2>1, <2>4, <2>5
<1>. QED BY <1>1, <1>2, <1>4, <1>5, <1>6 DEF RunStep

\* A kill message is no start message.
LEMMA KillStepStartsOnce ==
    ASSUME Typed, StartedOnce, NEW j \in Job, KillStep(j) \/ KillCollect(j),
           UNCHANGED workerVars
    PROVE  StartedOnce'
<1>1. UNCHANGED <<rpc, assigned, queue, proc>>
  BY DEF KillStep, KillCollect, KillSend, KillFails, KillAck, runVars, workerVars
<1>2. CASE UNCHANGED toWorker
  BY <1>1, <1>2, StartFrames
<1>3. CASE KillSend(j)
  <2>1. PICK p \in targets[j] : toWorker' = [toWorker EXCEPT ![p[1]] = Append(@, KillTask(p[2]))]
    BY <1>3 DEF KillSend
  <2>2. p \in Conn \X Task
    BY DEF Typed, TypeOK, CoordTypeOK, KillTypeOK
  <2>3. PICK c \in Conn, t \in Task : toWorker' = [toWorker EXCEPT ![c] = Append(@, KillTask(t))]
    BY <2>1, <2>2
  <2>4. KillTask(t) \in DownMessage
    BY MessagesTyped
  <2>5. \A d \in Conn : \A i \in 1..Len(toWorker'[d]) :
            \/ i \in 1..Len(toWorker[d]) /\ toWorker'[d][i] = toWorker[d][i]
            \/ d = c /\ i = Len(toWorker[c]) + 1 /\ toWorker'[d][i] = KillTask(t)
    BY <2>3, <2>4, Appended
  <2>6. \A u : StartTask(u) # KillTask(t) /\ KillTask(t).type = "kill"
    BY DEF StartTask, KillTask
  <2>7. UnsentIsNew'
    BY <1>1, <2>5, <2>6 DEF StartedOnce, UnsentIsNew, Unsent
  <2>8. StartsAreNew'
    BY <1>1, <2>5, <2>6 DEF StartedOnce, StartsAreNew
  <2>. QED BY <1>1, <2>7, <2>8 DEF StartedOnce, OwnTasks
<1>. QED BY <1>2, <1>3 DEF KillStep, KillCollect, KillFails, KillAck, wireVars

\* Every step of the system starts tasks once.
LEMMA NextStartsOnce == Typed /\ StartedOnce /\ [Next]_vars => StartedOnce'
<1>. SUFFICES ASSUME Typed, StartedOnce, [Next]_vars PROVE StartedOnce'
  OBVIOUS
<1>1. ASSUME NEW c \in Conn, HandlerStep(c) \/ WriterFails(c), UNCHANGED workerVars
      PROVE  StartedOnce'
  <2>1. UNCHANGED <<rpc, assigned, queue, proc>>
    BY <1>1
       DEF HandlerStep, RegisterWorker, StoreStarted, TrackStarted, ReceiveLine, StoreExited,
           UntrackExited, UntrackFailed, StoreFailed, PublishFailed, Publish, StreamCloses,
           StreamFails, DropNode, PublishLostLine, StoreLost, PublishLost, AllLost, WriterFails,
           runVars, workerVars
  <2>2. UNCHANGED toWorker \/ toWorker' = [toWorker EXCEPT ![c] = <<>>]
    BY <1>1
       DEF HandlerStep, RegisterWorker, StoreStarted, TrackStarted, ReceiveLine, StoreExited,
           UntrackExited, UntrackFailed, StoreFailed, PublishFailed, Publish, StreamCloses,
           StreamFails, DropNode, PublishLostLine, StoreLost, PublishLost, AllLost, WriterFails,
           Take, wireVars
  <2>. QED BY <2>1, <2>2, StartFrames, ChannelDropped
<1>2. CASE CoordNext /\ UNCHANGED workerVars
  BY <1>1, <1>2, RunStepStartsOnce, KillStepStartsOnce, StartFrames
     DEF CoordNext, ClientStep, CreateLease, ReleaseLease, runVars, wireVars, workerVars
<1>3. ASSUME NEW c \in Conn, NEW how,
             Connect(c) \/ ReadLoop(c) \/ Disconnect(c, how), UNCHANGED coordVars
      PROVE  StartedOnce'
  BY <1>3, StartReceived, KillReceived, StartFrames
     DEF ReadLoop, Connect, Disconnect, coordVars, runVars, workerVars
<1>4. ASSUME NEW t \in Task, TaskStep(t) \/ ChildStep(t), UNCHANGED coordVars
      PROVE  StartedOnce'
  <2>1. UNCHANGED <<rpc, assigned, queue, toWorker>>
    BY <1>4
       DEF TaskStep, ChildStep, StartChild, Forward, ReadLine, Reap, TimeOut, Terminate,
           RemovePid, SendExited, RefuseTask, WriteLine, ChildExits, coordVars, runVars, wireVars
  <2>2. \/ UNCHANGED proc
        \/ proc[t] # "none" /\ \A u \in Task \ {t} : proc'[u] = proc[u]
    BY <1>4
       DEF TaskStep, ChildStep, StartChild, Forward, ReadLine, Reap, TimeOut, Terminate,
           RemovePid, SendExited, RefuseTask, WriteLine, ChildExits, Typed, TypeOK, WorkerTypeOK
  <2>. QED BY <2>1, <2>2, StartFrames, ProcessMoves
<1>5. CASE WorkerNext /\ UNCHANGED coordVars
  BY <1>3, <1>4, <1>5 DEF WorkerNext
<1>6. CASE UNCHANGED vars
  BY <1>6, StartFrames DEF vars, coordVars, runVars, wireVars, workerVars
<1>. QED BY <1>2, <1>5, <1>6 DEF Next

------------------------------------------------------------------------------
\* What is done stays done: only a start, which there is not, could begin it again.
LEMMA SuccessLasts ==
    ASSUME Typed, StartedOnce, VerdictsAreReal, [Next]_vars
    PROVE  Succeeded \subseteq Succeeded' /\ VerdictsAreReal'
<1>. USE DEF Typed, TypeOK, WorkerTypeOK
<1>1. CASE UNCHANGED <<proc, verdict, exitOk>>
  BY <1>1 DEF Succeeded, VerdictsAreReal
<1>2. ASSUME NEW c \in Conn, ReceiveStart(c)
      PROVE  Succeeded \subseteq Succeeded' /\ VerdictsAreReal'
  <2>. DEFINE t == Head(toWorker[c]).task
  <2>1. toWorker[c][1].type = "start" /\ 1 \in 1..Len(toWorker[c]) /\ t = toWorker[c][1].task
    BY <1>2, HeadTaken DEF ReceiveStart
  <2>2. proc[t] = "none"
    BY <2>1 DEF StartedOnce, StartsAreNew
  <2>3. proc' = [proc EXCEPT ![t] = "received"] /\ UNCHANGED <<verdict, exitOk>>
    BY <1>2 DEF ReceiveStart
  <2>. HIDE DEF t
  <2>. QED BY <2>2, <2>3 DEF Succeeded, VerdictsAreReal
<1>3. ASSUME NEW t \in Task, TaskStep(t) \/ ChildStep(t)
      PROVE  Succeeded \subseteq Succeeded' /\ VerdictsAreReal'
  BY <1>1, <1>3
     DEF TaskStep, ChildStep, StartChild, Forward, ReadLine, Reap, TimeOut, Terminate,
         RemovePid, SendExited, RefuseTask, WriteLine, ChildExits, Succeeded, VerdictsAreReal
<1>4. CASE WorkerNext
  BY <1>1, <1>2, <1>3, <1>4 DEF WorkerNext, ReadLoop, Connect, Disconnect, ReceiveKill, workerVars
<1>. QED BY <1>1, <1>4 DEF Next, vars, workerVars

\* Honest reports stay so as more tasks succeed, and whatever part of a channel is
\* dropped or taken; so does a channel with one more of them.
LEMMA HonestPieces ==
    ASSUME NEW M, NEW s \in Seq(M), NEW S, NEW T, S \subseteq T, AllHonest(s, S)
    PROVE  /\ AllHonest(s, T)
           /\ s # <<>> => Honest(Head(s), S) /\ AllHonest(Tail(s), T)
           /\ \A m \in M : Honest(m, T) => AllHonest(Append(s, m), T)
           /\ \A k \in 0..Len(s) : AllHonest(SubSeq(s, 1, k), T)
<1>1. AllHonest(s, T)
  BY DEF AllHonest, Honest
<1>2. ASSUME s # <<>> PROVE Honest(Head(s), S) /\ AllHonest(Tail(s), T)
  <2>1. Head(s) = s[1] /\ 1 \in 1..Len(s)
    BY <1>2
  <2>2. \A i \in 1..Len(Tail(s)) : Tail(s)[i] = s[i + 1] /\ i + 1 \in 1..Len(s)
    BY <1>2
  <2>. QED BY <1>1, <2>1, <2>2 DEF AllHonest
<1>3. ASSUME NEW m \in M, Honest(m, T) PROVE AllHonest(Append(s, m), T)
  <2>1. \A i \in 1..Len(Append(s, m)) :
            Append(s, m)[i] = m \/ (i \in 1..Len(s) /\ Append(s, m)[i] = s[i])
    OBVIOUS
  <2>. QED BY <1>1, <1>3, <2>1 DEF AllHonest
<1>4. ASSUME NEW k \in 0..Len(s) PROVE AllHonest(SubSeq(s, 1, k), T)
  <2>1. \A i \in 1..Len(SubSeq(s, 1, k)) : i \in 1..Len(s) /\ SubSeq(s, 1, k)[i] = s[i]
    OBVIOUS
  <2>. QED BY <1>1, <2>1 DEF AllHonest
<1>. QED BY <1>1, <1>2, <1>3, <1>4

\* What a step leaves alone stays honest.
LEMMA HonestFrames ==
    ASSUME Typed, SuccessIsHonest, Succeeded \subseteq Succeeded'
    PROVE  /\ UNCHANGED events => \A t \in Task : AllHonest(events[t], Succeeded)'
           /\ UNCHANGED toCoord => \A c \in Conn : AllHonest(toCoord[c], Succeeded)'
           /\ UNCHANGED cur => \A c \in Conn : Honest(cur[c], Succeeded)'
           /\ UNCHANGED sub => \A j \in Job : AllHonest(sub[j], Succeeded)'
           /\ UNCHANGED rows => RowsAreHonest'
           /\ UNCHANGED <<rpc, assigned, pending, allOk>> => AnswersAreHonest'
BY DEF SuccessIsHonest, ReportsAreHonest, RowsAreHonest, AnswersAreHonest, AllHonest, Honest

\* A broadcast leaves the subscriptions honest.
LEMMA BroadcastHonest ==
    ASSUME Typed, SuccessIsHonest, Succeeded \subseteq Succeeded', NEW e \in TaskMessage,
           Broadcast(e), Honest(e, Succeeded)
    PROVE  \A j \in Job : AllHonest(sub[j], Succeeded)'
<1>. SUFFICES ASSUME NEW j \in Job PROVE AllHonest(sub'[j], Succeeded')
  OBVIOUS
<1>1. sub[j] \in Seq(TaskMessage) /\ AllHonest(sub[j], Succeeded)
  BY DEF Typed, TypeOK, CoordTypeOK, RunTypeOK, SuccessIsHonest, ReportsAreHonest
<1>2. Honest(e, Succeeded')
  BY DEF Honest
<1>3. AllHonest(sub[j], Succeeded') /\ AllHonest(Append(sub[j], e), Succeeded')
  BY <1>1, <1>2, HonestPieces
<1>. QED BY <1>3 DEF Broadcast

\* Reading an event leaves the subscriptions honest.
LEMMA ReadHonest ==
    ASSUME Typed, SuccessIsHonest, Succeeded \subseteq Succeeded',
           \A j \in Job : sub'[j] = sub[j] \/ (sub[j] # <<>> /\ sub'[j] = Tail(sub[j]))
    PROVE  \A j \in Job : AllHonest(sub[j], Succeeded)'
<1>. SUFFICES ASSUME NEW j \in Job PROVE AllHonest(sub'[j], Succeeded')
  OBVIOUS
<1>1. sub[j] \in Seq(TaskMessage) /\ AllHonest(sub[j], Succeeded)
  BY DEF Typed, TypeOK, CoordTypeOK, RunTypeOK, SuccessIsHonest, ReportsAreHonest
<1>2. /\ AllHonest(sub[j], Succeeded')
      /\ sub[j] # <<>> => AllHonest(Tail(sub[j]), Succeeded')
  BY <1>1, HonestPieces
<1>. QED BY <1>2

\* The end of a message's way to a handler.
LEMMA TakeHonest ==
    ASSUME Typed, SuccessIsHonest, Succeeded \subseteq Succeeded', NEW c \in Conn, Take(c),
           toCoord[c] # <<>>
    PROVE  /\ Head(toCoord[c]) \in UpMessage /\ Honest(Head(toCoord[c]), Succeeded)
           /\ \A d \in Conn : AllHonest(toCoord[d], Succeeded)'
           /\ \A d \in Conn : Honest(cur[d], Succeeded)'
<1>1. \A d \in Conn : /\ toCoord[d] \in Seq(UpMessage) /\ AllHonest(toCoord[d], Succeeded)
                      /\ Honest(cur[d], Succeeded)
  BY DEF Typed, TypeOK, WireTypeOK, SuccessIsHonest, ReportsAreHonest
<1>2. Head(toCoord[c]) \in UpMessage
  BY <1>1
<1>3. /\ Honest(Head(toCoord[c]), Succeeded) /\ AllHonest(Tail(toCoord[c]), Succeeded')
      /\ \A d \in Conn : AllHonest(toCoord[d], Succeeded')
  BY <1>1, HonestPieces
<1>4. \A d \in Conn : toCoord'[d] = IF d = c THEN Tail(toCoord[c]) ELSE toCoord[d]
  BY DEF Take, Typed, TypeOK, WireTypeOK
<1>5. \A d \in Conn : cur'[d] = IF d = c THEN Head(toCoord[c]) ELSE cur[d]
  BY DEF Take, Typed, TypeOK, CoordTypeOK, HandlerTypeOK
<1>6. \A d \in Conn : Honest(cur'[d], Succeeded')
  BY <1>1, <1>3, <1>5 DEF Honest
<1>. QED BY <1>2, <1>3, <1>4, <1>6

\* Every step of a connection's handler keeps successes honest.
LEMMA HandlerStepHonest ==
    ASSUME Typed, SuccessIsHonest, Succeeded \subseteq Succeeded', NEW c \in Conn,
           HandlerStep(c), UNCHANGED workerVars
    PROVE  ReportsAreHonest' /\ RowsAreHonest' /\ AnswersAreHonest'
<1>. USE DEF Typed, TypeOK, CoordTypeOK
<1>1. UNCHANGED <<rpc, assigned, pending, allOk>>
  BY DEF HandlerStep, RegisterWorker, StoreStarted, TrackStarted, ReceiveLine,
         StoreExited, UntrackExited, UntrackFailed, StoreFailed, PublishFailed, Publish,
         StreamCloses, StreamFails, DropNode, PublishLostLine, StoreLost, PublishLost, AllLost,
         runVars
<1>2. UNCHANGED events
  BY DEF workerVars
<1>3. RowsAreHonest'
  <2>1. CASE UNCHANGED rows
    BY <2>1, HonestFrames
  <2>2. CASE StoreStarted(c)
    BY <2>2 DEF StoreStarted, RecordTaskStarted, RowsAreHonest, SuccessIsHonest, StoreTypeOK, Row
  <2>3. CASE StoreExited(c)
    <3>1. rows' = RecordTaskExited(rows, Head(toCoord[c]).task, Head(toCoord[c]).ok)
      BY <2>3 DEF StoreExited
    <3>2. toCoord[c] # <<>> /\ Head(toCoord[c]).type = "exited" /\ Take(c)
      BY <2>3 DEF StoreExited, Incoming
    <3>3. Head(toCoord[c]).ok => Head(toCoord[c]).task \in Succeeded
      BY <3>2, TakeHonest DEF Honest
    <3>. QED BY <3>1, <3>3 DEF RecordTaskExited, RowsAreHonest, SuccessIsHonest, StoreTypeOK
  <2>4. CASE StoreFailed(c) \/ StoreLost(c)
    BY <2>4 DEF StoreFailed, StoreLost, RecordTaskExited, RowsAreHonest, SuccessIsHonest,
                StoreTypeOK
  <2>. QED BY <2>1, <2>2, <2>3, <2>4
           DEF HandlerStep, RegisterWorker, TrackStarted, ReceiveLine, UntrackExited,
               UntrackFailed, PublishFailed, Publish, StreamCloses, StreamFails, DropNode,
               PublishLostLine, PublishLost, AllLost, storeVars
<1>4. /\ \A d \in Conn : AllHonest(toCoord[d], Succeeded)'
      /\ \A d \in Conn : Honest(cur[d], Succeeded)'
  <2>1. CASE UNCHANGED <<toCoord, cur>>
    BY <2>1, HonestFrames
  <2>2. CASE toCoord[c] # <<>> /\ Take(c)
    BY <2>2, TakeHonest
  <2>3. CASE PublishLostLine(c)
    <3>1. PICK t \in lost[c] : cur' = [cur EXCEPT ![c] = TaskExited(t, FALSE)]
      BY <2>3 DEF PublishLostLine
    <3>2. \A d \in Conn : cur'[d] = cur[d] \/ cur'[d] = TaskExited(t, FALSE)
      BY <3>1 DEF HandlerTypeOK
    <3>3. \A d \in Conn : Honest(cur'[d], Succeeded')
      BY <3>2 DEF SuccessIsHonest, ReportsAreHonest, Honest, TaskExited
    <3>. QED BY <2>3, <3>3, HonestFrames DEF PublishLostLine, wireVars
  <2>. QED BY <2>1, <2>2, <2>3
           DEF HandlerStep, RegisterWorker, StoreStarted, TrackStarted, ReceiveLine,
               StoreExited, UntrackExited, UntrackFailed, StoreFailed, PublishFailed, Publish,
               StreamCloses, StreamFails, DropNode, StoreLost, PublishLost, AllLost,
               Incoming, wireVars
<1>5. \A j \in Job : AllHonest(sub[j], Succeeded)'
  <2>1. CASE UNCHANGED sub
    BY <2>1, HonestFrames
  <2>2. CASE PublishFailed(c)
    <3>1. TaskExited(cur[c].task, FALSE) \in TaskMessage
      BY <2>2, MessagesTyped DEF PublishFailed, HandlingTask, TaskMessage
    <3>. QED BY <2>2, <3>1, BroadcastHonest DEF PublishFailed, Honest, TaskExited
  <2>3. CASE Publish(c) \/ PublishLost(c)
    BY <2>3, BroadcastHonest
       DEF Publish, PublishLost, HandlingTask, SuccessIsHonest, ReportsAreHonest
  <2>4. CASE PublishLostLine(c)
    <3>1. PICK t \in lost[c] : Broadcast(SystemLine(t))
      BY <2>4 DEF PublishLostLine
    <3>2. SystemLine(t) \in TaskMessage /\ Honest(SystemLine(t), Succeeded)
      BY <3>1, MessagesTyped DEF HandlerTypeOK, Honest, SystemLine
    <3>. QED BY <3>1, <3>2, BroadcastHonest
  <2>. QED BY <2>1, <2>2, <2>3, <2>4
           DEF HandlerStep, RegisterWorker, StoreStarted, TrackStarted, ReceiveLine,
               StoreExited, UntrackExited, UntrackFailed, StoreFailed, StreamCloses, StreamFails,
               DropNode, StoreLost, AllLost, runVars
<1>6. ReportsAreHonest'
  BY <1>2, <1>4, <1>5, HonestFrames DEF ReportsAreHonest
<1>. QED BY <1>1, <1>3, <1>6, HonestFrames

\* Every step of a run_process handler keeps successes honest.
LEMMA RunStepHonest ==
    ASSUME Typed, SuccessIsHonest, Succeeded \subseteq Succeeded', NEW j \in Job,
           RunStep(j) \/ RunSubscribe(j) \/ RunSelectFails(j) \/ RunClientGone(j),
           UNCHANGED workerVars
    PROVE  ReportsAreHonest' /\ RowsAreHonest' /\ AnswersAreHonest'
<1>. USE DEF Typed, TypeOK, CoordTypeOK, RunTypeOK
<1>1. UNCHANGED <<events, toCoord, cur>>
  BY DEF RunStep, RunSubscribe, RunSelectFails, RunClientGone, RunSelect, RunAnnounce,
         RunDispatch, RunDispatchFails, RunDispatched, RunReceive, RunLagged, RunFinish,
         handlerVars, wireVars, workerVars
<1>2. RowsAreHonest'
  <2>1. CASE UNCHANGED rows
    BY <2>1, HonestFrames
  <2>2. ASSUME NEW S, rows' = RecordTaskDispatched(rows, S) PROVE RowsAreHonest'
    BY <2>2 DEF RecordTaskDispatched, RowsAreHonest, SuccessIsHonest, StoreTypeOK, Row
  <2>. QED BY <2>1, <2>2
           DEF RunStep, RunSubscribe, RunSelectFails, RunClientGone, RunSelect, RunAnnounce,
               RunDispatch, RunDispatchFails, RunDispatched, RunReceive, RunLagged, RunFinish,
               RecordAssignments, storeVars
<1>3. \A k \in Job : sub'[k] = sub[k] \/ (sub[k] # <<>> /\ sub'[k] = Tail(sub[k]))
  <2>1. CASE RunReceive(j)
    <3>1. sub[j] # <<>>
      BY <2>1 DEF RunReceive
    <3>. QED BY <2>1, <3>1 DEF RunReceive
  <2>2. CASE UNCHANGED sub
    BY <2>2
  <2>. QED BY <2>1, <2>2
           DEF RunStep, RunSubscribe, RunSelectFails, RunClientGone, RunSelect, RunAnnounce,
               RunDispatch, RunDispatchFails, RunDispatched, RunLagged, RunFinish
<1>4. \A k \in Job : AllHonest(sub[k], Succeeded)'
  BY <1>3, ReadHonest
<1>5. ReportsAreHonest'
  BY <1>1, <1>4, HonestFrames DEF ReportsAreHonest
<1>6. AnswersAreHonest'
  <2>. USE DEF SuccessIsHonest, AnswersAreHonest
  <2>1. CASE RunReceive(j)
    <3>1. sub[j] \in Seq(TaskMessage) /\ sub[j] # <<>> /\ AllHonest(sub[j], Succeeded)
      BY <2>1 DEF RunReceive, ReportsAreHonest
    <3>2. Honest(Head(sub[j]), Succeeded) /\ Head(sub[j]) \in TaskMessage
      BY <3>1, HonestPieces
    <3>3. UNCHANGED <<rpc, assigned>> /\ \A k \in Job \ {j} : pending'[k] = pending[k] /\ allOk'[k] = allOk[k]
      BY <2>1 DEF RunReceive
    <3>4. allOk'[j] => allOk[j] /\ pending[j] \subseteq pending'[j] \cup Succeeded
      BY <2>1, <3>2 DEF RunReceive, Honest
    <3>. QED BY <3>3, <3>4
  <2>2. CASE RunSelect(j)
    <3>1. PICK nodes \in SUBSET Node : /\ assigned' = [assigned EXCEPT ![j] = TasksOf(j, nodes)]
                                       /\ rpc' = [rpc EXCEPT ![j] = IF nodes = {} THEN "rejected" ELSE "announce"]
                                       /\ UNCHANGED <<pending, allOk>>
      BY <2>2 DEF RunSelect, RecordAssignments, Connected, RunGoto
    <3>2. nodes # {} => TasksOf(j, nodes) # {}
      BY DEF TasksOf
    <3>. QED BY <3>1, <3>2
  <2>3. CASE RunSelectFails(j)
    BY <2>3 DEF RunSelectFails, RunGoto, RecordAssignments
  <2>4. CASE RunAnnounce(j)
    BY <2>4 DEF RunAnnounce, RunGoto
  <2>7. CASE RunDispatched(j)
    <3>1. /\ UNCHANGED <<assigned, allOk>> /\ rpc[j] = "dispatch"
          /\ pending' = [pending EXCEPT ![j] = assigned[j]]
          /\ rpc' = [rpc EXCEPT ![j] = IF j \in Waits THEN "waiting" ELSE "acked"]
      BY <2>7 DEF RunDispatched, RunGoto
    <3>2. /\ pending'[j] = assigned[j] /\ rpc'[j] \in {"waiting", "acked"}
          /\ \A k \in Job \ {j} : pending'[k] = pending[k] /\ rpc'[k] = rpc[k]
      BY <3>1
    <3>. QED BY <3>1, <3>2
  <2>8. CASE RunSubscribe(j) \/ RunDispatchFails(j) \/ RunLagged(j) \/ RunClientGone(j)
    <3>1. /\ UNCHANGED <<assigned, pending, allOk>>
          /\ rpc' = [rpc EXCEPT ![j] = "subscribed"] \/ rpc' = [rpc EXCEPT ![j] = "aborted"]
      BY <2>8 DEF RunSubscribe, RunDispatchFails, RunLagged, RunClientGone, RunGoto
    <3>2. rpc'[j] \in {"subscribed", "aborted"} /\ \A k \in Job \ {j} : rpc'[k] = rpc[k]
      BY <3>1
    <3>. QED BY <3>1, <3>2
  <2>5. CASE RunDispatch(j)
    BY <2>5, HonestFrames DEF RunDispatch
  <2>6. CASE RunFinish(j)
    BY <2>6 DEF RunFinish, RunGoto
  <2>. QED BY <2>1, <2>2, <2>3, <2>4, <2>5, <2>6, <2>7, <2>8 DEF RunStep
<1>. QED BY <1>2, <1>5, <1>6

\* What one connection or one task adds to its channels leaves them honest.
LEMMA SendUpHonest ==
    ASSUME Typed, SuccessIsHonest, Succeeded \subseteq Succeeded',
           NEW c \in Conn, NEW m \in UpMessage, SendUp(c, m), Honest(m, Succeeded')
    PROVE  \A d \in Conn : AllHonest(toCoord[d], Succeeded)'
<1>. SUFFICES ASSUME NEW d \in Conn PROVE AllHonest(toCoord'[d], Succeeded')
  OBVIOUS
<1>1. toCoord[d] \in Seq(UpMessage) /\ AllHonest(toCoord[d], Succeeded)
  BY DEF Typed, TypeOK, WireTypeOK, SuccessIsHonest, ReportsAreHonest
<1>2. AllHonest(toCoord[d], Succeeded') /\ AllHonest(Append(toCoord[d], m), Succeeded')
  BY <1>1, HonestPieces
<1>3. toCoord'[d] = IF d = c THEN Append(toCoord[c], m) ELSE toCoord[d]
  BY DEF SendUp, Typed, TypeOK, WireTypeOK
<1>. QED BY <1>2, <1>3

\* An event the executor emits is as honest as the message it carries.
LEMMA EmitHonest ==
    ASSUME Typed, SuccessIsHonest, Succeeded \subseteq Succeeded',
           NEW t \in Task, NEW m \in TaskMessage, Emit(t, m), Honest(m, Succeeded')
    PROVE  \A u \in Task : AllHonest(events[u], Succeeded)'
<1>. SUFFICES ASSUME NEW u \in Task PROVE AllHonest(events'[u], Succeeded')
  OBVIOUS
<1>1. events[u] \in Seq(TaskMessage) /\ AllHonest(events[u], Succeeded)
  BY DEF Typed, TypeOK, WorkerTypeOK, SuccessIsHonest, ReportsAreHonest
<1>2. AllHonest(events[u], Succeeded') /\ AllHonest(Append(events[u], m), Succeeded')
  BY <1>1, HonestPieces
<1>3. events'[u] = events[u] \/ events'[u] = Append(events[u], m)
  BY DEF Emit, Typed, TypeOK, WorkerTypeOK
<1>. QED BY <1>2, <1>3

\* The worker reports as a success what its waiter found to be one.
LEMMA TaskStepHonest ==
    ASSUME Typed, SuccessIsHonest, Succeeded \subseteq Succeeded', NEW t \in Task,
           TaskStep(t) \/ ChildStep(t), UNCHANGED coordVars
    PROVE  ReportsAreHonest'
<1>1. UNCHANGED <<cur, sub>>
  BY DEF coordVars, handlerVars, runVars
<1>2. TaskMessage \subseteq UpMessage /\ ConnOf(t) \in Conn
  BY Parts DEF UpMessage
<1>3. ASSUME NEW m \in TaskMessage, m.type # "exited" PROVE Honest(m, Succeeded')
  BY <1>3 DEF Honest
<1>4. /\ \A u \in Task : AllHonest(events[u], Succeeded)'
      /\ \A c \in Conn : AllHonest(toCoord[c], Succeeded)'
  <2>1. CASE UNCHANGED <<events, toCoord>>
    BY <2>1, HonestFrames
  <2>2. ASSUME NEW m \in TaskMessage, m.type # "exited", Emit(t, m), UNCHANGED toCoord
        PROVE  /\ \A u \in Task : AllHonest(events[u], Succeeded)'
               /\ \A c \in Conn : AllHonest(toCoord[c], Succeeded)'
    BY <1>3, <2>2, EmitHonest, HonestFrames
  <2>3. CASE StartChild(t) \/ ReadLine(t) \/ TimeOut(t)
    BY <2>2, <2>3, MessagesTyped
       DEF StartChild, ReadLine, TimeOut, wireVars, TaskStarted, LogLine, SystemLine
  <2>4. CASE RefuseTask(t)
    <3>1. UNCHANGED events
      BY <2>4 DEF RefuseTask
    <3>2. CASE UNCHANGED toCoord
      BY <2>1, <3>1, <3>2
    <3>3. CASE SendUp(ConnOf(t), WorkerError(t))
      <4>1. WorkerError(t) \in TaskMessage /\ WorkerError(t).type # "exited"
        BY MessagesTyped DEF WorkerError
      <4>2. Honest(WorkerError(t), Succeeded') /\ WorkerError(t) \in UpMessage
        BY <1>2, <1>3, <4>1
      <4>. QED BY <1>2, <3>1, <3>3, <4>2, SendUpHonest, HonestFrames
    <3>. QED BY <2>4, <3>2, <3>3 DEF RefuseTask
  <2>5. CASE Forward(t)
    <3>1. events[t] \in Seq(TaskMessage) /\ events[t] # <<>> /\ AllHonest(events[t], Succeeded)
      BY <2>5 DEF Forward, Typed, TypeOK, WorkerTypeOK, SuccessIsHonest, ReportsAreHonest
    <3>2. /\ Honest(Head(events[t]), Succeeded) /\ AllHonest(Tail(events[t]), Succeeded')
          /\ Head(events[t]) \in TaskMessage
      BY <3>1, HonestPieces
    <3>3. Honest(Head(events[t]), Succeeded')
      BY <3>2 DEF Honest
    <3>4. \A c \in Conn : AllHonest(toCoord[c], Succeeded)'
      BY <1>2, <2>5, <3>2, <3>3, SendUpHonest DEF Forward
    <3>5. \A u \in Task : events'[u] = IF u = t THEN Tail(events[t]) ELSE events[u]
      BY <2>5 DEF Forward, Typed, TypeOK, WorkerTypeOK
    <3>6. \A u \in Task : AllHonest(events[u], Succeeded')
      BY DEF SuccessIsHonest, ReportsAreHonest, AllHonest, Honest
    <3>. QED BY <3>2, <3>4, <3>5, <3>6
  <2>6. CASE SendExited(t)
    <3>1. verdict[t] => t \in Succeeded'
      BY <2>6 DEF SendExited, SuccessIsHonest, VerdictsAreReal, Succeeded, Typed, TypeOK,
                  WorkerTypeOK
    <3>2. TaskExited(t, verdict[t]) \in TaskMessage
      BY MessagesTyped DEF Typed, TypeOK, WorkerTypeOK
    <3>3. Honest(TaskExited(t, verdict[t]), Succeeded')
      BY <3>1 DEF Honest, TaskExited
    <3>. QED BY <2>6, <3>2, <3>3, EmitHonest, HonestFrames DEF SendExited, wireVars
  <2>. QED BY <2>1, <2>3, <2>4, <2>5, <2>6
           DEF TaskStep, ChildStep, Reap, Terminate, RemovePid, WriteLine, ChildExits, wireVars
<1>. QED BY <1>1, <1>4, HonestFrames DEF ReportsAreHonest

\* A connection is made, says that a kill went wrong, and ends.
LEMMA SessionStepHonest ==
    ASSUME Typed, SuccessIsHonest, Succeeded \subseteq Succeeded', NEW c \in Conn, NEW how,
           Connect(c) \/ ReadLoop(c) \/ Disconnect(c, how), UNCHANGED coordVars
    PROVE  ReportsAreHonest'
<1>1. UNCHANGED <<cur, sub>>
  BY DEF coordVars, handlerVars, runVars
<1>2. \A d \in Conn : toCoord[d] \in Seq(UpMessage) /\ AllHonest(toCoord[d], Succeeded)
  BY DEF Typed, TypeOK, WireTypeOK, SuccessIsHonest, ReportsAreHonest
<1>3. \A u \in Task : AllHonest(events[u], Succeeded)'
  <2>1. CASE UNCHANGED events
    BY <2>1, HonestFrames
  <2>2. CASE Disconnect(c, how)
    <3>1. \A u \in Task : AllHonest(events[u], Succeeded')
      BY DEF SuccessIsHonest, ReportsAreHonest, AllHonest, Honest
    <3>2. \A u \in Task : events'[u] = <<>> \/ events'[u] = events[u]
      BY <2>2 DEF Disconnect
    <3>3. AllHonest(<<>>, Succeeded')
      BY DEF AllHonest
    <3>. QED BY <3>1, <3>2, <3>3
  <2>. QED BY <2>1, <2>2 DEF Connect, ReadLoop, ReceiveStart, ReceiveKill, workerVars
<1>4. \A d \in Conn : AllHonest(toCoord[d], Succeeded)'
  <2>1. CASE UNCHANGED toCoord
    BY <2>1, HonestFrames
  <2>2. CASE Connect(c)
    <3>1. \A d \in Conn : toCoord'[d] = IF d = c THEN <<Register>> ELSE toCoord[d]
      BY <2>2 DEF Connect, Typed, TypeOK, WireTypeOK
    <3>2. AllHonest(<<Register>>, Succeeded')
      BY DEF AllHonest, Honest, Register
    <3>3. \A d \in Conn : AllHonest(toCoord[d], Succeeded')
      BY <1>2 DEF AllHonest, Honest
    <3>. QED BY <3>1, <3>2, <3>3
  <2>3. CASE Disconnect(c, how)
    <3>1. PICK kept \in 0..Len(toCoord[c]) :
              toCoord' = [toCoord EXCEPT ![c] = SubSeq(@, 1, kept)]
      BY <2>3 DEF Disconnect
    <3>2. AllHonest(SubSeq(toCoord[c], 1, kept), Succeeded')
      BY <1>2, HonestPieces
    <3>3. \A d \in Conn : AllHonest(toCoord[d], Succeeded')
      BY <1>2 DEF AllHonest, Honest
    <3>4. \A d \in Conn : toCoord'[d] = IF d = c THEN SubSeq(toCoord[c], 1, kept) ELSE toCoord[d]
      BY <3>1 DEF Typed, TypeOK, WireTypeOK
    <3>. QED BY <3>2, <3>3, <3>4
  <2>4. CASE ReceiveKill(c)
    <3>. DEFINE m == WorkerError(Head(toWorker[c]).task)
    <3>1. UNCHANGED toCoord \/ SendUp(c, m)
      BY <2>4 DEF ReceiveKill
    <3>2. Head(toWorker[c]).task \in Task
      BY <2>4, HeadTaken DEF ReceiveKill, DownMessage
    <3>3. m \in UpMessage /\ Honest(m, Succeeded')
      BY <3>2, MessagesTyped DEF UpMessage, Honest, WorkerError
    <3>. HIDE DEF m
    <3>. QED BY <2>1, <3>1, <3>3, SendUpHonest
  <2>. QED BY <2>1, <2>2, <2>3, <2>4 DEF ReadLoop, ReceiveStart
<1>. QED BY <1>1, <1>3, <1>4, HonestFrames DEF ReportsAreHonest

\* Every step of the system keeps successes honest.
LEMMA NextHonest ==
    Typed /\ StartedOnce /\ SuccessIsHonest /\ [Next]_vars => SuccessIsHonest'
<1>. SUFFICES ASSUME Typed, StartedOnce, SuccessIsHonest, [Next]_vars PROVE SuccessIsHonest'
  OBVIOUS
<1>1. Succeeded \subseteq Succeeded' /\ VerdictsAreReal'
  BY SuccessLasts DEF SuccessIsHonest
<1>2. SUFFICES ReportsAreHonest' /\ RowsAreHonest' /\ AnswersAreHonest'
  BY <1>1 DEF SuccessIsHonest
<1>3. UNCHANGED <<events, toCoord, cur, sub>> => ReportsAreHonest'
  BY <1>1, HonestFrames DEF ReportsAreHonest
<1>4. UNCHANGED coordVars => RowsAreHonest' /\ AnswersAreHonest'
  BY <1>1, HonestFrames DEF coordVars, storeVars, runVars
<1>5. ASSUME NEW j \in Job, KillStep(j) \/ KillCollect(j), UNCHANGED workerVars
      PROVE  ReportsAreHonest' /\ RowsAreHonest' /\ AnswersAreHonest'
  BY <1>1, <1>3, <1>5, HonestFrames
     DEF KillStep, KillCollect, KillSend, KillFails, KillAck, storeVars, handlerVars, runVars,
         wireVars, workerVars
<1>6. ASSUME NEW c \in Conn, WriterFails(c), UNCHANGED workerVars
      PROVE  ReportsAreHonest' /\ RowsAreHonest' /\ AnswersAreHonest'
  BY <1>1, <1>3, <1>6, HonestFrames DEF WriterFails, storeVars, runVars, workerVars
<1>7. ASSUME NEW l \in Lease, CreateLease(l) \/ ReleaseLease(l), UNCHANGED workerVars
      PROVE  ReportsAreHonest' /\ RowsAreHonest' /\ AnswersAreHonest'
  BY <1>1, <1>3, <1>7, HonestFrames
     DEF CreateLease, ReleaseLease, storeVars, handlerVars, runVars, wireVars, workerVars
<1>8. CASE CoordNext /\ UNCHANGED workerVars
  BY <1>1, <1>5, <1>6, <1>7, <1>8, HandlerStepHonest, RunStepHonest DEF CoordNext, ClientStep
<1>9. CASE WorkerNext /\ UNCHANGED coordVars
  BY <1>1, <1>4, <1>9, TaskStepHonest, SessionStepHonest DEF WorkerNext
<1>10. CASE UNCHANGED vars
  BY <1>3, <1>4, <1>10 DEF vars, coordVars, wireVars, handlerVars, runVars, workerVars
<1>. QED BY <1>8, <1>9, <1>10 DEF Next

------------------------------------------------------------------------------
Verdicts == Typed /\ StartedOnce /\ SuccessIsHonest

\* Nothing has succeeded, and nobody says so.
LEMMA InitVerdicts == Init => Verdicts
<1>. SUFFICES ASSUME Init PROVE Verdicts
  OBVIOUS
<1>1. StartedOnce
  BY DEF Init, WireInit, CoordInit, WorkerInit, StartedOnce, OwnTasks, UnsentIsNew, StartsAreNew
<1>2. SuccessIsHonest
  BY DEF Init, WireInit, CoordInit, WorkerInit, SuccessIsHonest, VerdictsAreReal,
         ReportsAreHonest, RowsAreHonest, AnswersAreHonest, AllHonest, Honest, NoRow, Register
<1>. QED BY <1>1, <1>2, InitTyped DEF Verdicts

\* Each step keeps what is said of successes to what happened.
LEMMA NextVerdicts == Verdicts /\ [Next]_vars => Verdicts'
BY NextTyped, NextStartsOnce, NextHonest DEF Verdicts

\* The two properties of the runs are parts of the invariant.
LEMMA VerdictsSuffice == Verdicts => SucceededIsReal /\ SuccessIsReal
BY DEF Verdicts, Typed, TypeOK, CoordTypeOK, RunTypeOK, SuccessIsHonest, RowsAreHonest,
       AnswersAreHonest, SucceededIsReal, SuccessIsReal, Succeeded

\* A row that says 'succeeded' is of a process that exited with success: no refusal, kill
\* error, timeout or lost worker is ever written down as one.
THEOREM SuccessesAreReal == Spec => []SucceededIsReal
BY InitVerdicts, NextVerdicts, VerdictsSuffice, PTL DEF Spec

\* A client that is told of success had a process for every task, and each succeeded.
THEOREM AnswersOfSuccessAreReal == Spec => []SuccessIsReal
BY InitVerdicts, NextVerdicts, VerdictsSuffice, PTL DEF Spec
=============================================================================
