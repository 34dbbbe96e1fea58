---------------------------- MODULE ReportProofs ----------------------------
(***************************************************************************)
(* What the store, the registry and the clients say of the end of a task,  *)
(* for any number of jobs, nodes and tasks and with a log of any length.   *)
(* Three inductive invariants, each on top of the one before:              *)
(*                                                                         *)
(*   ReportInv   follows what a worker says of a task from its process     *)
(*               through the executor's events and the connection to the   *)
(*               row: it has happened, comes in order, and comes once.     *)
(*               Then a row that says 'failed' has a cause, and the        *)
(*               outcome of a task nobody gave up is its own and final.    *)
(*   LedgerInv   adds that rows and registry agree on the tasks that are   *)
(*               open.  It needs Sessions = 1, each node having its first  *)
(*               connection: the run return_is_lost shows how they come    *)
(*               apart when a node returns before its loss is noticed.     *)
(*   OutcomeInv  adds, when no job may be killed, that every failure a     *)
(*               client is told is in the store first.  A failed kill      *)
(*               fails a task whose process may still succeed.             *)
(*                                                                         *)
(* The lemmas before them say of each queue and row what any step may do   *)
(* to it, so that a part of an invariant meets only the steps that can     *)
(* disturb it.                                                             *)
(***************************************************************************)
EXTENDS Refinement, VerdictProofs

------------------------------------------------------------------------------
(* Channels *)

\* u is what is left of the channel s, perhaps without its first message ...
Part(u, s) == \E d \in {0, 1} : \A i \in 1..Len(u) : i + d \in 1..Len(s) /\ u[i] = s[i + d]

\* ... or s with one more message.
More(u, s, m) ==
    \A i \in 1..Len(u) : \/ i \in 1..Len(s) /\ u[i] = s[i]
                         \/ i = Len(s) + 1 /\ u[i] = m

\* The pieces of a channel that a step may leave of it.
LEMMA Pieces ==
    ASSUME NEW M, NEW s \in Seq(M)
    PROVE  /\ Part(s, s) /\ Part(<<>>, s)
           /\ \A k \in 0..Len(s) : Part(SubSeq(s, 1, k), s)
           /\ \A m \in M : Append(s, m) \in Seq(M) /\ More(Append(s, m), s, m)
           /\ s # <<>> => /\ 1 \in 1..Len(s) /\ Head(s) = s[1] /\ s[1] \in M
                          /\ Tail(s) \in Seq(M) /\ Part(Tail(s), s)
                          /\ \A i \in 1..Len(Tail(s)) :
                                i + 1 \in 1..Len(s) /\ Tail(s)[i] = s[i + 1]
<1>1. Part(s, s) /\ Part(<<>>, s)
  BY DEF Part
<1>2. ASSUME NEW k \in 0..Len(s) PROVE Part(SubSeq(s, 1, k), s)
  BY DEF Part
<1>3. ASSUME NEW m \in M PROVE Append(s, m) \in Seq(M) /\ More(Append(s, m), s, m)
  BY DEF More
<1>4. ASSUME s # <<>>
      PROVE  /\ 1 \in 1..Len(s) /\ Head(s) = s[1] /\ s[1] \in M
             /\ Tail(s) \in Seq(M) /\ Part(Tail(s), s)
             /\ \A i \in 1..Len(Tail(s)) :
                   i + 1 \in 1..Len(s) /\ Tail(s)[i] = s[i + 1]
  BY <1>4 DEF Part
<1>. QED BY <1>1, <1>2, <1>3, <1>4

\* What becomes of the messages to the coordinator.
UpMoves(c) ==
    \/ Part(toCoord'[c], toCoord[c])
    \/ Connect(c) /\ toCoord'[c] = <<Register>>
    \/ \E t \in Task :
          /\ ConnOf(t) = c
          /\ Forward(t) /\ events[t] # <<>> /\ More(toCoord'[c], toCoord[c], events[t][1])
    \/ \E t \in Task :
          ConnOf(t) = c /\ RefuseTask(t) /\ More(toCoord'[c], toCoord[c], WorkerError(t))
    \/ /\ ReceiveKill(c) /\ toWorker[c] # <<>> /\ toWorker[c][1].type = "kill"
       /\ More(toCoord'[c], toCoord[c], WorkerError(toWorker[c][1].task))

\* A message sent to the coordinator is appended to one channel, or lost.
LEMMA UpSent ==
    ASSUME Typed, NEW c \in Conn, NEW m \in TaskMessage, SendUp(c, m)
    PROVE  /\ More(toCoord'[c], toCoord[c], m)
           /\ \A d \in Conn \ {c} : Part(toCoord'[d], toCoord[d])
<1>1. \A d \in Conn : toCoord[d] \in Seq(UpMessage) /\ Part(toCoord[d], toCoord[d])
  BY Pieces DEF Typed, TypeOK, WireTypeOK
<1>2. m \in UpMessage
  BY DEF UpMessage
<1>3. More(Append(toCoord[c], m), toCoord[c], m)
  BY <1>1, <1>2, Pieces
<1>. QED BY <1>1, <1>3 DEF SendUp, Typed, TypeOK, WireTypeOK

\* What a step does to the channel of a connection to the coordinator, and why.
LEMMA UpSteps ==
    ASSUME Typed, [Next]_vars
    PROVE  \A c \in Conn : UpMoves(c)
<1>1. \A d \in Conn : /\ toCoord[d] \in Seq(UpMessage) /\ Part(toCoord[d], toCoord[d])
                      /\ Part(<<>>, toCoord[d])
  BY Pieces DEF Typed, TypeOK, WireTypeOK
<1>2. CASE UNCHANGED toCoord
  BY <1>1, <1>2 DEF UpMoves
<1>3. ASSUME NEW c \in Conn, HandlerStep(c) PROVE \A d \in Conn : UpMoves(d)
  <2>1. CASE toCoord[c] # <<>> /\ Take(c)
    <3>1. Part(Tail(toCoord[c]), toCoord[c])
      BY <1>1, <2>1, Pieces
    <3>2. \A d \in Conn : toCoord'[d] = IF d = c THEN Tail(toCoord[c]) ELSE toCoord[d]
      BY <2>1 DEF Take, Typed, TypeOK, WireTypeOK
    <3>. QED BY <1>1, <3>1, <3>2 DEF UpMoves
  <2>. QED BY <1>2, <1>3, <2>1
     DEF HandlerStep, RegisterWorker, StoreStarted, TrackStarted, ReceiveLine, StoreExited,
         UntrackExited, UntrackFailed, StoreFailed, PublishFailed, Publish, StreamCloses,
         StreamFails, DropNode, PublishLostLine, StoreLost, PublishLost, AllLost, Incoming,
         wireVars
<1>4. ASSUME NEW c \in Conn, Connect(c) PROVE \A d \in Conn : UpMoves(d)
  <2>1. \A d \in Conn : toCoord'[d] = IF d = c THEN <<Register>> ELSE toCoord[d]
    BY <1>4 DEF Connect, Typed, TypeOK, WireTypeOK
  <2>. QED BY <1>1, <1>4, <2>1 DEF UpMoves
<1>5. ASSUME NEW c \in Conn, NEW how, Disconnect(c, how) PROVE \A d \in Conn : UpMoves(d)
  <2>1. PICK kept \in 0..Len(toCoord[c]) : toCoord' = [toCoord EXCEPT ![c] = SubSeq(@, 1, kept)]
    BY <1>5 DEF Disconnect
  <2>2. Part(SubSeq(toCoord[c], 1, kept), toCoord[c])
    BY <1>1, Pieces
  <2>3. \A d \in Conn : toCoord'[d] = IF d = c THEN SubSeq(toCoord[c], 1, kept) ELSE toCoord[d]
    BY <2>1 DEF Typed, TypeOK, WireTypeOK
  <2>. QED BY <1>1, <2>2, <2>3 DEF UpMoves
<1>6. ASSUME NEW c \in Conn, ReceiveKill(c) PROVE \A d \in Conn : UpMoves(d)
  <2>1. /\ toWorker[c] # <<>> /\ Head(toWorker[c]) = toWorker[c][1]
        /\ toWorker[c][1] \in DownMessage /\ toWorker[c][1].type = "kill"
    BY <1>6, HeadTaken DEF ReceiveKill
  <2>2. WorkerError(toWorker[c][1].task) \in TaskMessage
    BY <2>1, MessagesTyped DEF DownMessage
  <2>3. CASE SendUp(c, WorkerError(toWorker[c][1].task))
    BY <1>6, <2>1, <2>2, <2>3, UpSent DEF UpMoves
  <2>. QED BY <1>2, <1>6, <2>1, <2>3 DEF ReceiveKill
<1>7. ASSUME NEW t \in Task, RefuseTask(t) PROVE \A d \in Conn : UpMoves(d)
  <2>1. ConnOf(t) \in Conn /\ WorkerError(t) \in TaskMessage
    BY Parts, MessagesTyped
  <2>2. CASE SendUp(ConnOf(t), WorkerError(t))
    BY <1>7, <2>1, <2>2, UpSent DEF UpMoves
  <2>. QED BY <1>2, <1>7, <2>2 DEF RefuseTask
<1>8. ASSUME NEW t \in Task, Forward(t) PROVE \A d \in Conn : UpMoves(d)
  <2>1. events[t] \in Seq(TaskMessage) /\ events[t] # <<>>
    BY <1>8 DEF Forward, Typed, TypeOK, WorkerTypeOK
  <2>2. ConnOf(t) \in Conn /\ Head(events[t]) = events[t][1] /\ events[t][1] \in TaskMessage
    BY <2>1, Parts, Pieces
  <2>3. SendUp(ConnOf(t), events[t][1])
    BY <1>8, <2>2 DEF Forward
  <2>. QED BY <1>8, <2>1, <2>2, <2>3, UpSent DEF UpMoves
<1>9. CASE CoordNext
  BY <1>2, <1>3, <1>9
     DEF CoordNext, WriterFails, RunStep, KillStep, ClientStep, RunSelect, RunSelectFails,
         RunSubscribe, RunAnnounce, RunDispatch, RunDispatchFails, RunDispatched, RunReceive,
         RunLagged, RunFinish, RunClientGone, KillCollect, KillSend, KillFails, KillAck,
         CreateLease, ReleaseLease, wireVars
<1>10. CASE WorkerNext
  BY <1>2, <1>4, <1>5, <1>6, <1>7, <1>8, <1>10
     DEF WorkerNext, ReadLoop, ReceiveStart, TaskStep, ChildStep, StartChild, ReadLine, Reap,
         TimeOut, Terminate, RemovePid, SendExited, WriteLine, ChildExits, wireVars
<1>. QED BY <1>2, <1>9, <1>10 DEF Next, vars, wireVars

\* What becomes of the messages to the worker.
DownMoves(c) ==
    \/ Part(toWorker'[c], toWorker[c])
    \/ \E j \in Job : \E t \in queue[j] :
          ConnOf(t) = c /\ RunDispatch(j) /\ More(toWorker'[c], toWorker[c], StartTask(t))
    \/ \E j \in Job : \E p \in targets[j] :
          p[1] = c /\ KillSend(j) /\ More(toWorker'[c], toWorker[c], KillTask(p[2]))

\* What a step does to the channel of a connection to its worker, and why.
LEMMA DownSteps ==
    ASSUME Typed, [Next]_vars
    PROVE  \A c \in Conn : DownMoves(c)
<1>1. \A d \in Conn : /\ toWorker[d] \in Seq(DownMessage) /\ Part(toWorker[d], toWorker[d])
                      /\ Part(<<>>, toWorker[d])
  BY Pieces DEF Typed, TypeOK, WireTypeOK
<1>2. CASE UNCHANGED toWorker
  BY <1>1, <1>2 DEF DownMoves
<1>3. ASSUME NEW c \in Conn, toWorker' = [toWorker EXCEPT ![c] = <<>>]
      PROVE  \A d \in Conn : DownMoves(d)
  <2>1. \A d \in Conn : toWorker'[d] = <<>> \/ toWorker'[d] = toWorker[d]
    BY <1>3 DEF Typed, TypeOK, WireTypeOK
  <2>. QED BY <1>1, <2>1 DEF DownMoves
<1>4. ASSUME NEW c \in Conn, NEW type, Command(c, type) PROVE \A d \in Conn : DownMoves(d)
  <2>1. toWorker[c] # <<>> /\ toWorker' = [toWorker EXCEPT ![c] = Tail(@)]
    BY <1>4 DEF Command
  <2>2. Part(Tail(toWorker[c]), toWorker[c])
    BY <1>1, <2>1, Pieces
  <2>3. \A d \in Conn : toWorker'[d] = IF d = c THEN Tail(toWorker[c]) ELSE toWorker[d]
    BY <2>1 DEF Typed, TypeOK, WireTypeOK
  <2>. QED BY <1>1, <2>2, <2>3 DEF DownMoves
<1>5. ASSUME NEW c \in Conn, NEW m \in DownMessage,
             toWorker' = [toWorker EXCEPT ![c] = Append(@, m)]
      PROVE  /\ More(toWorker'[c], toWorker[c], m)
             /\ \A d \in Conn \ {c} : Part(toWorker'[d], toWorker[d])
  <2>1. More(Append(toWorker[c], m), toWorker[c], m)
    BY <1>1, Pieces
  <2>2. \A d \in Conn : toWorker'[d] = IF d = c THEN Append(toWorker[c], m) ELSE toWorker[d]
    BY <1>5 DEF Typed, TypeOK, WireTypeOK
  <2>. QED BY <1>1, <2>1, <2>2
<1>6. ASSUME NEW j \in Job, RunDispatch(j) PROVE \A d \in Conn : DownMoves(d)
  <2>1. PICK t \in queue[j] : toWorker' = [toWorker EXCEPT ![ConnOf(t)] = Append(@, StartTask(t))]
    BY <1>6 DEF RunDispatch
  <2>2. ConnOf(t) \in Conn /\ StartTask(t) \in DownMessage
    BY Parts, MessagesTyped DEF Typed, TypeOK, CoordTypeOK, RunTypeOK
  <2>. QED BY <1>5, <1>6, <2>1, <2>2 DEF DownMoves
<1>7. ASSUME NEW j \in Job, KillSend(j) PROVE \A d \in Conn : DownMoves(d)
  <2>1. PICK p \in targets[j] : toWorker' = [toWorker EXCEPT ![p[1]] = Append(@, KillTask(p[2]))]
    BY <1>7 DEF KillSend
  <2>2. p[1] \in Conn /\ p[2] \in Task
    BY DEF Typed, TypeOK, CoordTypeOK, KillTypeOK
  <2>3. KillTask(p[2]) \in DownMessage
    BY <2>2, MessagesTyped
  <2>. QED BY <1>5, <1>7, <2>1, <2>2, <2>3 DEF DownMoves
<1>8. ASSUME NEW c \in Conn, HandlerStep(c) \/ WriterFails(c) PROVE \A d \in Conn : DownMoves(d)
  BY <1>2, <1>3, <1>8
     DEF HandlerStep, RegisterWorker, StoreStarted, TrackStarted, ReceiveLine, StoreExited,
         UntrackExited, UntrackFailed, StoreFailed, PublishFailed, Publish, StreamCloses,
         StreamFails, DropNode, PublishLostLine, StoreLost, PublishLost, AllLost, Take,
         WriterFails, wireVars
<1>9. CASE CoordNext
  BY <1>2, <1>6, <1>7, <1>8, <1>9
     DEF CoordNext, RunStep, KillStep, ClientStep, RunSelect, RunSelectFails,
         RunSubscribe, RunAnnounce, RunDispatchFails, RunDispatched, RunReceive,
         RunLagged, RunFinish, RunClientGone, KillCollect, KillFails, KillAck,
         CreateLease, ReleaseLease, wireVars
<1>10. CASE WorkerNext
  BY <1>2, <1>4, <1>10
     DEF WorkerNext, ReadLoop, ReceiveStart, ReceiveKill, Connect, Disconnect, TaskStep, ChildStep,
         RefuseTask, Forward, StartChild, ReadLine, Reap, TimeOut, Terminate, RemovePid,
         SendExited, WriteLine, ChildExits, wireVars
<1>. QED BY <1>2, <1>9, <1>10 DEF Next, vars, wireVars

\* What becomes of the events of a task.
EventsMove(t) ==
    \/ Part(events'[t], events[t])
    \/ StartChild(t) /\ More(events'[t], events[t], TaskStarted(t))
    \/ ReadLine(t) /\ More(events'[t], events[t], LogLine(t))
    \/ TimeOut(t) /\ More(events'[t], events[t], SystemLine(t))
    \/ SendExited(t) /\ More(events'[t], events[t], TaskExited(t, verdict[t]))

\* What a step does to the events of a task that wait in the executor, and why.
LEMMA EventSteps ==
    ASSUME Typed, [Next]_vars
    PROVE  \A t \in Task : EventsMove(t)
<1>1. \A u \in Task : /\ events[u] \in Seq(TaskMessage) /\ Part(events[u], events[u])
                      /\ Part(<<>>, events[u])
  BY Pieces DEF Typed, TypeOK, WorkerTypeOK
<1>2. CASE UNCHANGED events
  BY <1>1, <1>2 DEF EventsMove
<1>3. ASSUME NEW t \in Task, NEW m \in TaskMessage, Emit(t, m)
      PROVE  /\ \A u \in Task \ {t} : Part(events'[u], events[u])
             /\ Part(events'[t], events[t]) \/ More(events'[t], events[t], m)
  <2>1. More(Append(events[t], m), events[t], m)
    BY <1>1, Pieces
  <2>. QED BY <1>1, <1>3, <2>1 DEF Emit, Typed, TypeOK, WorkerTypeOK
<1>4. ASSUME NEW t \in Task, StartChild(t) \/ ReadLine(t) \/ TimeOut(t) \/ SendExited(t)
      PROVE  \A u \in Task : EventsMove(u)
  <2>1. /\ TaskStarted(t) \in TaskMessage /\ LogLine(t) \in TaskMessage
        /\ SystemLine(t) \in TaskMessage /\ TaskExited(t, verdict[t]) \in TaskMessage
    BY MessagesTyped DEF Typed, TypeOK, WorkerTypeOK
  <2>2. CASE StartChild(t)
    BY <1>3, <2>1, <2>2 DEF StartChild, EventsMove
  <2>3. CASE ReadLine(t)
    BY <1>3, <2>1, <2>3 DEF ReadLine, EventsMove
  <2>4. CASE TimeOut(t)
    BY <1>3, <2>1, <2>4 DEF TimeOut, EventsMove
  <2>5. CASE SendExited(t)
    BY <1>3, <2>1, <2>5 DEF SendExited, EventsMove
  <2>. QED BY <1>4, <2>2, <2>3, <2>4, <2>5
<1>5. ASSUME NEW t \in Task, Forward(t) PROVE \A u \in Task : EventsMove(u)
  <2>1. \A u \in Task : events'[u] = IF u = t THEN Tail(events[t]) ELSE events[u]
    BY <1>5 DEF Forward, Typed, TypeOK, WorkerTypeOK
  <2>2. Part(Tail(events[t]), events[t])
    BY <1>1, <1>5, Pieces DEF Forward
  <2>. QED BY <1>1, <2>1, <2>2 DEF EventsMove
<1>6. ASSUME NEW c \in Conn, NEW how, Disconnect(c, how) PROVE \A u \in Task : EventsMove(u)
  BY <1>1, <1>6 DEF Disconnect, EventsMove
<1>7. CASE WorkerNext
  BY <1>2, <1>4, <1>5, <1>6, <1>7
     DEF WorkerNext, ReadLoop, ReceiveStart, ReceiveKill, Connect, TaskStep, ChildStep,
         RefuseTask, Reap, Terminate, RemovePid, WriteLine, ChildExits, workerVars
<1>. QED BY <1>2, <1>7 DEF Next, vars, workerVars

\* What becomes of the events a run handler has still to read.
SubMoves(j) ==
    \/ Part(sub'[j], sub[j])
    \/ \E c \in Conn : \/ (Publish(c) \/ PublishLost(c)) /\ More(sub'[j], sub[j], cur[c])
                       \/ PublishFailed(c) /\ More(sub'[j], sub[j], TaskExited(cur[c].task, FALSE))
    \/ \E t \in Task : More(sub'[j], sub[j], SystemLine(t))

\* What a step does to what a run request's subscription holds, and why.
LEMMA SubSteps ==
    ASSUME Typed, [Next]_vars
    PROVE  \A j \in Job : SubMoves(j)
<1>1. \A k \in Job : /\ sub[k] \in Seq(TaskMessage) /\ Part(sub[k], sub[k])
                     /\ Part(<<>>, sub[k])
  BY Pieces DEF Typed, TypeOK, CoordTypeOK, RunTypeOK
<1>2. CASE UNCHANGED sub
  BY <1>1, <1>2 DEF SubMoves
<1>3. ASSUME NEW e \in TaskMessage, Broadcast(e)
      PROVE  \A k \in Job : Part(sub'[k], sub[k]) \/ More(sub'[k], sub[k], e)
  <2>1. \A k \in Job : More(Append(sub[k], e), sub[k], e)
    BY <1>1, Pieces
  <2>. QED BY <1>1, <1>3, <2>1 DEF Broadcast
<1>4. ASSUME NEW c \in Conn, Publish(c) \/ PublishLost(c) \/ PublishFailed(c)
      PROVE  \A k \in Job : SubMoves(k)
  <2>1. cur[c] \in TaskMessage
    BY <1>4 DEF Publish, PublishLost, PublishFailed, Typed, HandlingTask
  <2>2. TaskExited(cur[c].task, FALSE) \in TaskMessage
    BY <2>1, MessagesTyped DEF TaskMessage
  <2>3. CASE Publish(c) \/ PublishLost(c)
    BY <1>3, <2>1, <2>3 DEF Publish, PublishLost, SubMoves
  <2>4. CASE PublishFailed(c)
    BY <1>3, <2>2, <2>4 DEF PublishFailed, SubMoves
  <2>. QED BY <1>4, <2>3, <2>4
<1>5. ASSUME NEW c \in Conn, PublishLostLine(c) PROVE \A k \in Job : SubMoves(k)
  <2>1. PICK t \in lost[c] : Broadcast(SystemLine(t))
    BY <1>5 DEF PublishLostLine
  <2>2. t \in Task /\ SystemLine(t) \in TaskMessage
    BY MessagesTyped DEF Typed, TypeOK, CoordTypeOK, HandlerTypeOK
  <2>. QED BY <1>3, <2>1, <2>2 DEF SubMoves
<1>6. ASSUME NEW j \in Job, RunReceive(j) PROVE \A k \in Job : SubMoves(k)
  <2>1. sub[j] # <<>> /\ sub' = [sub EXCEPT ![j] = Tail(@)]
    BY <1>6 DEF RunReceive
  <2>2. Part(Tail(sub[j]), sub[j])
    BY <1>1, <2>1, Pieces
  <2>3. \A k \in Job : sub'[k] = IF k = j THEN Tail(sub[j]) ELSE sub[k]
    BY <2>1 DEF Typed, TypeOK, CoordTypeOK, RunTypeOK
  <2>. QED BY <1>1, <2>2, <2>3 DEF SubMoves
<1>7. ASSUME NEW c \in Conn, HandlerStep(c) \/ WriterFails(c) PROVE \A k \in Job : SubMoves(k)
  BY <1>2, <1>4, <1>5, <1>7
     DEF HandlerStep, RegisterWorker, StoreStarted, TrackStarted, ReceiveLine, StoreExited,
         UntrackExited, UntrackFailed, StoreFailed, StreamCloses,
         StreamFails, DropNode, StoreLost, AllLost, WriterFails, runVars
<1>8. CASE CoordNext
  BY <1>2, <1>6, <1>7, <1>8
     DEF CoordNext, RunStep, KillStep, ClientStep, RunSelect, RunSelectFails,
         RunSubscribe, RunAnnounce, RunDispatch, RunDispatchFails, RunDispatched,
         RunLagged, RunFinish, RunClientGone, KillCollect, KillSend, KillFails, KillAck,
         CreateLease, ReleaseLease, runVars
<1>. QED BY <1>2, <1>8 DEF Next, vars, coordVars, runVars

------------------------------------------------------------------------------
(* Handlers, requests, rows and processes *)

\* A handler that moves takes one of its steps.
LEMMA HandlerSteps ==
    ASSUME Typed, [Next]_vars
    PROVE  \A c \in Conn : (hpc'[c] = hpc[c] /\ cur'[c] = cur[c] /\ lost'[c] = lost[c]) \/ HandlerStep(c)
<1>1. CASE UNCHANGED <<hpc, cur, lost>>
  BY <1>1
<1>2. ASSUME NEW c \in Conn, HandlerStep(c)
      PROVE  \A d \in Conn \ {c} : hpc'[d] = hpc[d] /\ cur'[d] = cur[d] /\ lost'[d] = lost[d]
  BY <1>2 DEF HandlerStep, RegisterWorker, StoreStarted, TrackStarted, ReceiveLine,
         StoreExited, UntrackExited, UntrackFailed, StoreFailed, PublishFailed, Publish,
         StreamCloses, StreamFails, DropNode, PublishLostLine, StoreLost, PublishLost, AllLost,
         Take, Goto, Typed, TypeOK, CoordTypeOK, HandlerTypeOK
<1>3. CASE CoordNext
  BY <1>1, <1>2, <1>3
     DEF CoordNext, WriterFails, RunStep, KillStep, ClientStep, RunSelect, RunSelectFails,
         RunSubscribe, RunAnnounce, RunDispatch, RunDispatchFails, RunDispatched, RunReceive,
         RunLagged, RunFinish, RunClientGone, KillCollect, KillSend, KillFails, KillAck,
         CreateLease, ReleaseLease, handlerVars
<1>. QED BY <1>1, <1>3 DEF Next, vars, coordVars, handlerVars

\* What run_process does in its critical section, whether it goes on or not.
Selected(j, nodes) ==
    /\ rpc[j] = "subscribed" /\ RecordAssignments(j, nodes)
    /\ \E pc \in {"rejected", "announce", "aborted"} :
          rpc' = [rpc EXCEPT ![j] = pc] /\ (pc = "announce" => nodes # {})
                                        /\ (pc = "rejected" => nodes = {})
    /\ UNCHANGED <<queue, pending, allOk, sub, shown, handle, leases, handlerVars, killVars,
                   wireVars>>

\* create_run selects each task once, on nodes that are connected, whether its
\* transaction is written or not.
LEMMA Selections ==
    ASSUME NEW j \in Job, RunSelect(j) \/ RunSelectFails(j)
    PROVE  \E nodes \in SUBSET Connected : Selected(j, nodes)
<1>1. CASE RunSelect(j)
  BY <1>1 DEF RunSelect, Selected, RunGoto
<1>2. CASE RunSelectFails(j)
  BY <1>2 DEF RunSelectFails, Selected, RunGoto
<1>. QED BY <1>1, <1>2

\* What becomes of the set of tasks a run request recorded.
LEMMA AssignSteps ==
    ASSUME [Next]_vars
    PROVE  \/ UNCHANGED assigned
           \/ \E j \in Job : (RunSelect(j) \/ RunSelectFails(j)) /\ UNCHANGED workerVars
<1>1. ASSUME NEW c \in Conn, HandlerStep(c) PROVE UNCHANGED assigned
  BY <1>1
     DEF HandlerStep, RegisterWorker, StoreStarted, TrackStarted, ReceiveLine, StoreExited,
         UntrackExited, UntrackFailed, StoreFailed, PublishFailed, Publish, StreamCloses,
         StreamFails, DropNode, PublishLostLine, StoreLost, PublishLost, AllLost, runVars
<1>2. CASE CoordNext /\ UNCHANGED workerVars
  BY <1>1, <1>2
     DEF CoordNext, WriterFails, RunStep, KillStep, ClientStep,
         RunSubscribe, RunAnnounce, RunDispatch, RunDispatchFails, RunDispatched, RunReceive,
         RunLagged, RunFinish, RunClientGone, KillCollect, KillSend, KillFails, KillAck,
         CreateLease, ReleaseLease, runVars
<1>. QED BY <1>2 DEF Next, vars, coordVars, runVars

\* What becomes of the row of a task.
RowMoves(t) ==
    \/ rows'[t] = rows[t]
    \/ \E j \in Job : /\ RunSelect(j) \/ RunSelectFails(j)
                      /\ t \in assigned'[j]
                      /\ rows'[t] = [rows[t] EXCEPT !.status = "queued"]
    \/ \E c \in Conn :
          /\ StoreStarted(c) /\ toCoord[c] # <<>>
          /\ toCoord[c][1].type = "started" /\ toCoord[c][1].task = t
          /\ rows'[t] = [rows[t] EXCEPT !.status = "running"]
    \/ \E c \in Conn :
          /\ StoreExited(c) /\ toCoord[c] # <<>>
          /\ toCoord[c][1].type = "exited" /\ toCoord[c][1].task = t
          /\ rows'[t] = [status |-> IF toCoord[c][1].ok THEN "succeeded" ELSE "failed",
                         exited |-> TRUE]
    \/ \E c \in Conn :
          /\ StoreFailed(c) \/ StoreLost(c)
          /\ cur[c].task = t
          /\ rows'[t] = [status |-> "failed", exited |-> TRUE]

\* What a step does to a row of the store, and which handler does it.
LEMMA RowSteps ==
    ASSUME Typed, [Next]_vars
    PROVE  \A t \in Task : RowMoves(t)
<1>1. CASE UNCHANGED rows
  BY <1>1 DEF RowMoves
<1>2. ASSUME NEW c \in Conn, Incoming(c, "started") \/ Incoming(c, "exited")
      PROVE  toCoord[c] # <<>> /\ Head(toCoord[c]) = toCoord[c][1]
  BY <1>2, Pieces DEF Incoming, Typed, TypeOK, WireTypeOK
<1>3. ASSUME NEW c \in Conn, StoreStarted(c) PROVE \A t \in Task : RowMoves(t)
  <2>1. /\ rows' = RecordTaskStarted(rows, toCoord[c][1].task)
        /\ toCoord[c] # <<>> /\ toCoord[c][1].type = "started"
    BY <1>2, <1>3 DEF StoreStarted, Incoming
  <2>2. \A t \in Task : rows'[t] = IF t = toCoord[c][1].task
                                   THEN [rows[t] EXCEPT !.status = "running"] ELSE rows[t]
    BY <2>1 DEF RecordTaskStarted, Typed, TypeOK, CoordTypeOK, StoreTypeOK
  <2>. QED BY <1>3, <2>1, <2>2 DEF RowMoves
<1>4. ASSUME NEW c \in Conn, StoreExited(c) PROVE \A t \in Task : RowMoves(t)
  <2>1. /\ rows' = RecordTaskExited(rows, toCoord[c][1].task, toCoord[c][1].ok)
        /\ toCoord[c] # <<>> /\ toCoord[c][1].type = "exited"
    BY <1>2, <1>4 DEF StoreExited, Incoming
  <2>2. \A t \in Task :
            rows'[t] = IF t = toCoord[c][1].task
                       THEN [status |-> IF toCoord[c][1].ok THEN "succeeded" ELSE "failed",
                             exited |-> TRUE] ELSE rows[t]
    BY <2>1 DEF RecordTaskExited, Typed, TypeOK, CoordTypeOK, StoreTypeOK
  <2>. QED BY <1>4, <2>1, <2>2 DEF RowMoves
<1>5. ASSUME NEW c \in Conn, StoreFailed(c) \/ StoreLost(c) PROVE \A t \in Task : RowMoves(t)
  <2>1. rows' = RecordTaskExited(rows, cur[c].task, FALSE)
    BY <1>5 DEF StoreFailed, StoreLost
  <2>2. \A t \in Task : rows'[t] = IF t = cur[c].task
                                   THEN [status |-> "failed", exited |-> TRUE] ELSE rows[t]
    BY <2>1 DEF RecordTaskExited, Typed, TypeOK, CoordTypeOK, StoreTypeOK
  <2>. QED BY <1>5, <2>2 DEF RowMoves
<1>6. ASSUME NEW j \in Job, RunSelect(j) \/ RunSelectFails(j) PROVE \A t \in Task : RowMoves(t)
  <2>1. PICK nodes : RecordAssignments(j, nodes)
    BY <1>6, Selections DEF Selected
  <2>2. assigned'[j] = TasksOf(j, nodes)
    BY <2>1 DEF RecordAssignments, Typed, TypeOK, CoordTypeOK, RunTypeOK
  <2>3. \A t \in Task : rows'[t] = IF t \in TasksOf(j, nodes)
                                   THEN [rows[t] EXCEPT !.status = "queued"] ELSE rows[t]
    BY <2>1 DEF RecordAssignments, RecordTaskDispatched, Typed, TypeOK, CoordTypeOK, StoreTypeOK
  <2>. QED BY <1>6, <2>2, <2>3 DEF RowMoves
<1>7. ASSUME NEW c \in Conn, HandlerStep(c) PROVE \A t \in Task : RowMoves(t)
  BY <1>1, <1>3, <1>4, <1>5, <1>7
     DEF HandlerStep, RegisterWorker, TrackStarted, ReceiveLine,
         UntrackExited, UntrackFailed, PublishFailed, Publish, StreamCloses,
         StreamFails, DropNode, PublishLostLine, PublishLost, AllLost, storeVars
<1>8. CASE CoordNext
  BY <1>1, <1>6, <1>7, <1>8
     DEF CoordNext, WriterFails, RunStep, KillStep, ClientStep,
         RunSubscribe, RunAnnounce, RunDispatch, RunDispatchFails, RunDispatched, RunReceive,
         RunLagged, RunFinish, RunClientGone, KillCollect, KillSend, KillFails, KillAck,
         CreateLease, ReleaseLease, storeVars
<1>. QED BY <1>1, <1>8 DEF Next, vars, coordVars, storeVars

\* What becomes of the process of a task.
ProcMoves(t) ==
    \/ proc'[t] = proc[t] /\ verdict'[t] = verdict[t]
    \/ \E c \in Conn : /\ ReceiveStart(c) /\ toWorker[c] # <<>>
                       /\ toWorker[c][1].type = "start" /\ toWorker[c][1].task = t
                       /\ proc[t] = "none" /\ proc'[t] = "received" /\ verdict'[t] = verdict[t]
    \/ RefuseTask(t) /\ proc'[t] = "refused" /\ verdict'[t] = verdict[t]
    \/ /\ proc[t] \notin {"none", "refused", "done"}
       /\ proc'[t] \notin {"none", "received", "refused"}
       /\ proc'[t] = "done" => verdict'[t] = verdict[t]

\* What a step does to the process of a task: one step of the executor's life of it.
LEMMA ProcSteps ==
    ASSUME Typed, StartedOnce, [Next]_vars
    PROVE  \A t \in Task : ProcMoves(t)
<1>. USE DEF Typed, TypeOK, WorkerTypeOK
<1>1. CASE UNCHANGED <<proc, verdict>>
  BY <1>1 DEF ProcMoves
<1>2. ASSUME NEW c \in Conn, ReceiveStart(c) PROVE \A t \in Task : ProcMoves(t)
  <2>1. /\ toWorker[c] # <<>> /\ Head(toWorker[c]) = toWorker[c][1] /\ 1 \in 1..Len(toWorker[c])
        /\ toWorker[c][1] \in DownMessage /\ toWorker[c][1].type = "start"
    BY <1>2, HeadTaken DEF ReceiveStart
  <2>2. toWorker[c][1].task \in Task /\ proc[toWorker[c][1].task] = "none"
    BY <2>1 DEF StartedOnce, StartsAreNew, DownMessage
  <2>3. proc' = [proc EXCEPT ![toWorker[c][1].task] = "received"] /\ UNCHANGED verdict
    BY <1>2, <2>1 DEF ReceiveStart
  <2>. QED BY <1>2, <2>1, <2>2, <2>3 DEF ProcMoves
<1>3. ASSUME NEW t \in Task, TaskStep(t) \/ ChildStep(t)
      PROVE  \A u \in Task : ProcMoves(u)
  <2>1. CASE RefuseTask(t)
    <3>1. \A u \in Task : verdict'[u] = verdict[u] /\ (u # t => proc'[u] = proc[u])
      BY <2>1 DEF RefuseTask
    <3>2. proc'[t] = "refused"
      BY <2>1 DEF RefuseTask
    <3>. QED BY <2>1, <3>1, <3>2 DEF ProcMoves
  <2>2. CASE TaskStep(t) \/ WriteLine(t) \/ ChildExits(t)
    <3>1. \A u \in Task \ {t} : proc'[u] = proc[u] /\ verdict'[u] = verdict[u]
      BY <2>2 DEF TaskStep, StartChild, Forward, ReadLine, Reap, TimeOut, Terminate, RemovePid,
                  SendExited, WriteLine, ChildExits
    <3>2. \/ proc'[t] = proc[t] /\ verdict'[t] = verdict[t]
          \/ /\ proc[t] \notin {"none", "refused", "done"}
             /\ proc'[t] \notin {"none", "received", "refused"}
             /\ proc'[t] = "done" => verdict'[t] = verdict[t]
      BY <2>2 DEF TaskStep, StartChild, Forward, ReadLine, Reap, TimeOut, Terminate, RemovePid,
                  SendExited, WriteLine, ChildExits
    <3>. QED BY <3>1, <3>2 DEF ProcMoves
  <2>. QED BY <1>3, <2>1, <2>2 DEF ChildStep
<1>4. CASE WorkerNext
  BY <1>1, <1>2, <1>3, <1>4
     DEF WorkerNext, ReadLoop, ReceiveKill, Connect, Disconnect, workerVars
<1>. QED BY <1>1, <1>4 DEF Next, vars, workerVars

\* A run request that moves takes one of its steps.
RunMove(j) == RunStep(j) \/ RunSubscribe(j) \/ RunSelectFails(j) \/ RunClientGone(j)

\* The fields of a run request change in the steps of its own handler only.
LEMMA RunSteps ==
    ASSUME Typed, [Next]_vars
    PROVE  \A j \in Job :
              \/ /\ rpc'[j] = rpc[j] /\ assigned'[j] = assigned[j] /\ queue'[j] = queue[j]
                 /\ pending'[j] = pending[j] /\ allOk'[j] = allOk[j]
              \/ RunMove(j)
<1>. USE DEF Typed, TypeOK, CoordTypeOK, RunTypeOK
<1>1. CASE UNCHANGED <<rpc, assigned, queue, pending, allOk>>
  BY <1>1
<1>2. ASSUME NEW j \in Job, RunMove(j)
      PROVE  \A k \in Job \ {j} :
                 /\ rpc'[k] = rpc[k] /\ assigned'[k] = assigned[k] /\ queue'[k] = queue[k]
                 /\ pending'[k] = pending[k] /\ allOk'[k] = allOk[k]
  BY <1>2 DEF RunMove, RunStep, RunSelect, RunSelectFails, RunSubscribe, RunAnnounce, RunDispatch,
              RunDispatchFails, RunDispatched, RunReceive, RunLagged, RunFinish, RunClientGone,
              RecordAssignments, RunGoto
<1>3. ASSUME NEW c \in Conn, HandlerStep(c) \/ WriterFails(c)
      PROVE  UNCHANGED <<rpc, assigned, queue, pending, allOk>>
  BY <1>3
     DEF HandlerStep, RegisterWorker, StoreStarted, TrackStarted, ReceiveLine, StoreExited,
         UntrackExited, UntrackFailed, StoreFailed, PublishFailed, Publish, StreamCloses,
         StreamFails, DropNode, PublishLostLine, StoreLost, PublishLost, AllLost, WriterFails,
         runVars
<1>4. CASE CoordNext
  BY <1>1, <1>2, <1>3, <1>4
     DEF CoordNext, RunMove, KillStep, ClientStep, KillCollect, KillSend, KillFails, KillAck,
         CreateLease, ReleaseLease, runVars
<1>. QED BY <1>1, <1>4 DEF Next, vars, coordVars, runVars

\* A kill request that moves takes one of its steps.
LEMMA KillSteps ==
    ASSUME Typed, [Next]_vars
    PROVE  \A j \in Job : (kpc'[j] = kpc[j] /\ targets'[j] = targets[j]) \/ KillStep(j) \/ KillCollect(j)
<1>. USE DEF Typed, TypeOK, CoordTypeOK, KillTypeOK
<1>1. CASE UNCHANGED <<kpc, targets>>
  BY <1>1
<1>2. ASSUME NEW j \in Job, KillStep(j) \/ KillCollect(j)
      PROVE  \A k \in Job \ {j} : kpc'[k] = kpc[k] /\ targets'[k] = targets[k]
  BY <1>2 DEF KillStep, KillCollect, KillSend, KillFails, KillAck
<1>3. ASSUME NEW c \in Conn, HandlerStep(c) \/ WriterFails(c)
      PROVE  UNCHANGED <<kpc, targets>>
  BY <1>3
     DEF HandlerStep, RegisterWorker, StoreStarted, TrackStarted, ReceiveLine, StoreExited,
         UntrackExited, UntrackFailed, StoreFailed, PublishFailed, Publish, StreamCloses,
         StreamFails, DropNode, PublishLostLine, StoreLost, PublishLost, AllLost, WriterFails,
         killVars
<1>4. CASE CoordNext
  BY <1>1, <1>2, <1>3, <1>4
     DEF CoordNext, RunStep, ClientStep, RunSelect, RunSelectFails,
         RunSubscribe, RunAnnounce, RunDispatch, RunDispatchFails, RunDispatched, RunReceive,
         RunLagged, RunFinish, RunClientGone, CreateLease, ReleaseLease, killVars
<1>. QED BY <1>1, <1>4 DEF Next, vars, coordVars, killVars

\* What becomes of a connection.
LEMMA LinkSteps ==
    ASSUME Typed, [Next]_vars
    PROVE  \A c \in Conn :
              \/ link'[c] = link[c]
              \/ link[c] = "idle" /\ link'[c] \in {"open", "deaf"}
              \/ /\ link[c] = "open" /\ link'[c] \in {"closed", "reset"}
                 /\ \A t \in Task : ConnOf(t) = c => events'[t] = <<>>
<1>. USE DEF Typed, TypeOK, WireTypeOK
<1>1. CASE UNCHANGED link
  BY <1>1
<1>2. ASSUME NEW c \in Conn, Connect(c)
      PROVE  link[c] = "idle" /\ link'[c] \in {"open", "deaf"} /\ \A d \in Conn \ {c} : link'[d] = link[d]
  BY <1>2 DEF Connect
<1>3. ASSUME NEW c \in Conn, NEW how \in Breaks \ {"deaf"}, Disconnect(c, how)
      PROVE  /\ link[c] = "open" /\ link'[c] \in {"closed", "reset"}
             /\ \A d \in Conn \ {c} : link'[d] = link[d]
             /\ \A t \in Task : ConnOf(t) = c => events'[t] = <<>>
  BY <1>3, BreaksAssumption DEF Disconnect, IsOpenLink
<1>4. ASSUME NEW c \in Conn, HandlerStep(c) \/ WriterFails(c)
      PROVE  UNCHANGED link
  BY <1>4
     DEF HandlerStep, RegisterWorker, StoreStarted, TrackStarted, ReceiveLine, StoreExited,
         UntrackExited, UntrackFailed, StoreFailed, PublishFailed, Publish, StreamCloses,
         StreamFails, DropNode, PublishLostLine, StoreLost, PublishLost, AllLost, WriterFails,
         Take, wireVars
<1>5. CASE CoordNext
  BY <1>1, <1>4, <1>5
     DEF CoordNext, RunStep, KillStep, ClientStep, RunSelect, RunSelectFails,
         RunSubscribe, RunAnnounce, RunDispatch, RunDispatchFails, RunDispatched, RunReceive,
         RunLagged, RunFinish, RunClientGone, KillCollect, KillSend, KillFails, KillAck,
         CreateLease, ReleaseLease, wireVars
<1>6. CASE WorkerNext
  BY <1>1, <1>2, <1>3, <1>6
     DEF WorkerNext, ReadLoop, ReceiveStart, ReceiveKill, TaskStep, ChildStep,
         RefuseTask, Forward, StartChild, ReadLine, Reap, TimeOut, Terminate, RemovePid,
         SendExited, WriteLine, ChildExits, wireVars
<1>. QED BY <1>1, <1>5, <1>6 DEF Next, vars, wireVars

------------------------------------------------------------------------------
(* What is said of a task is said of one that was recorded *)

\* The tasks a run request has recorded.
Known == {t \in Task : t \in assigned[JobOf(t)]}

\* A message on the channels of a node is about a task of that node.
About(m, n, tasks) == m.type # "register" => m.task \in tasks /\ NodeOf(ConnOf(m.task)) = n

KnownTasks ==
    \A t \in Task :
        /\ rows[t].status = "absent" <=> t \notin Known
        /\ t \notin Known => proc[t] = "none" /\ output[t] = "none" /\ ~rows[t].exited
        /\ \A i \in 1..Len(events[t]) :
              t \in Known /\ events[t][i].task = t /\ events[t][i].type # "error"

KnownRuns ==
    \A j \in Job :
        /\ rpc[j] \in {"idle", "subscribed"} => assigned[j] = {}
        /\ queue[j] \subseteq assigned[j] /\ pending[j] \subseteq assigned[j]

KnownRunning == \A n \in Node : \A t \in running[n] : t \in Known /\ NodeOf(ConnOf(t)) = n

KnownTargets ==
    \A j \in Job : \A p \in targets[j] :
        JobOf(p[2]) = j /\ p[2] \in Known /\ NodeOf(ConnOf(p[2])) = NodeOf(p[1])

KnownMessages ==
    \A c \in Conn :
        /\ \A t \in lost[c] : t \in Known /\ NodeOf(ConnOf(t)) = NodeOf(c)
        /\ \A i \in 1..Len(toWorker[c]) : About(toWorker[c][i], NodeOf(c), Known)
        /\ \A i \in 1..Len(toCoord[c]) : About(toCoord[c][i], NodeOf(c), Known)
        /\ About(cur[c], NodeOf(c), Known)

TasksAreKnown == KnownTasks /\ KnownRuns /\ KnownRunning /\ KnownTargets /\ KnownMessages

\* The tasks a run request selects are new, and each is of its node.
LEMMA SelectedAreNew ==
    ASSUME Typed, HandlesMatch, KnownRuns, NEW j \in Job, NEW nodes \in SUBSET Connected,
           Selected(j, nodes)
    PROVE  /\ assigned[j] = {} /\ assigned'[j] = TasksOf(j, nodes)
           /\ \A k \in Job \ {j} : assigned'[k] = assigned[k]
           /\ \A t \in TasksOf(j, nodes) : t \in Task /\ JobOf(t) = j /\ t \notin Known /\ t \in Known'
           /\ \A n \in nodes : \A t \in TasksOf(j, {n}) : t \in TasksOf(j, nodes) /\ NodeOf(ConnOf(t)) = n
           /\ \A t \in Task : rows'[t] = IF t \in TasksOf(j, nodes)
                                         THEN [rows[t] EXCEPT !.status = "queued"] ELSE rows[t]
<1>. USE DEF Typed, TypeOK, CoordTypeOK, RunTypeOK
<1>1. assigned[j] = {} /\ assigned' = [assigned EXCEPT ![j] = TasksOf(j, nodes)]
  BY DEF Selected, KnownRuns, RecordAssignments
<1>2. \A t \in TasksOf(j, nodes) : t \in Task /\ JobOf(t) = j
  BY DEF TasksOf, Task, JobOf, Connected, RegistryTypeOK
<1>3. \A t \in TasksOf(j, nodes) : t \notin Known /\ t \in Known'
  BY <1>1, <1>2 DEF Known
<1>4. \A n \in nodes : \A t \in TasksOf(j, {n}) : t \in TasksOf(j, nodes) /\ NodeOf(ConnOf(t)) = n
  BY DEF TasksOf, ConnOf, HandlesMatch, Connected
<1>5. \A t \in Task : rows'[t] = IF t \in TasksOf(j, nodes)
                                 THEN [rows[t] EXCEPT !.status = "queued"] ELSE rows[t]
  BY DEF Selected, RecordAssignments, RecordTaskDispatched, StoreTypeOK
<1>. QED BY <1>1, <1>2, <1>3, <1>4, <1>5

\* A task that is recorded stays so, and what was said of it stays true.
LEMMA KnownLasts ==
    ASSUME Typed, KnownRuns, [Next]_vars
    PROVE  /\ \A j \in Job : assigned[j] \subseteq assigned'[j]
           /\ \A t \in Task : t \in Known => t \in Known'
           /\ \A m \in UpMessage \cup DownMessage, n \in Node : About(m, n, Known) => About(m, n, Known')
<1>1. \A j \in Job : assigned[j] \subseteq assigned'[j]
  <2>1. ASSUME NEW j \in Job, RunSelect(j) \/ RunSelectFails(j)
        PROVE  \A k \in Job : assigned[k] \subseteq assigned'[k]
    <3>1. PICK nodes : Selected(j, nodes)
      BY <2>1, Selections
    <3>. QED BY <3>1 DEF Selected, RecordAssignments, KnownRuns, Typed, TypeOK, CoordTypeOK, RunTypeOK
  <2>. QED BY <2>1, AssignSteps
<1>2. \A t \in Task : t \in Known => t \in Known'
  BY <1>1, Parts DEF Known
<1>3. \A m \in UpMessage \cup DownMessage : m.type # "register" => m.task \in Task
  BY DEF UpMessage, DownMessage, TaskMessage, Register
<1>. QED BY <1>1, <1>2, <1>3 DEF About

\* A request that has not selected yet has no tasks, and selects none twice.
LEMMA NextKnownRuns ==
    ASSUME Typed, HandlesMatch, KnownRuns, [Next]_vars
    PROVE  KnownRuns'
<1>. USE DEF Typed, TypeOK, CoordTypeOK, RunTypeOK
<1>. SUFFICES ASSUME NEW j \in Job
              PROVE  /\ rpc'[j] \in {"idle", "subscribed"} => assigned'[j] = {}
                     /\ queue'[j] \subseteq assigned'[j] /\ pending'[j] \subseteq assigned'[j]
  BY DEF KnownRuns
<1>1. CASE RunSelect(j) \/ RunSelectFails(j)
  <2>1. PICK nodes \in SUBSET Connected : Selected(j, nodes)
    BY <1>1, Selections
  <2>. QED BY <2>1, SelectedAreNew DEF Selected, KnownRuns
<1>2. CASE RunMove(j) /\ ~(RunSelect(j) \/ RunSelectFails(j))
  BY <1>2 DEF RunMove, RunStep, RunSubscribe, RunAnnounce, RunDispatch,
              RunDispatchFails, RunDispatched, RunReceive, RunLagged, RunFinish, RunClientGone,
              RunGoto, KnownRuns
<1>. QED BY <1>1, <1>2, RunSteps DEF KnownRuns

\* A task is in the store once it is selected, and not before.
LEMMA NextKnownTasks ==
    ASSUME Typed, StartedOnce, HandlesMatch, TasksAreKnown, [Next]_vars
    PROVE  KnownTasks'
<1>. USE DEF Typed, TypeOK, CoordTypeOK
<1>. SUFFICES ASSUME NEW t \in Task
              PROVE  /\ rows'[t].status = "absent" <=> t \notin Known'
                     /\ t \notin Known' => proc'[t] = "none" /\ output'[t] = "none" /\ ~rows'[t].exited
                     /\ \A i \in 1..Len(events'[t]) :
                           t \in Known' /\ events'[t][i].task = t /\ events'[t][i].type # "error"
  BY DEF KnownTasks
<1>1. t \in Known => t \in Known'
  BY KnownLasts DEF TasksAreKnown
<1>2. proc'[t] # proc[t] => t \in Known
  <2>1. CASE \E c \in Conn : /\ ReceiveStart(c) /\ toWorker[c] # <<>>
                             /\ toWorker[c][1].type = "start" /\ toWorker[c][1].task = t
    <3>1. PICK c \in Conn : /\ toWorker[c] # <<>>
                            /\ toWorker[c][1].type = "start" /\ toWorker[c][1].task = t
      BY <2>1
    <3>2. 1 \in 1..Len(toWorker[c])
      BY <3>1, Pieces DEF WireTypeOK
    <3>. QED BY <3>1, <3>2 DEF TasksAreKnown, KnownMessages, About
  <2>2. CASE proc[t] # "none"
    BY <2>2 DEF TasksAreKnown, KnownTasks
  <2>3. CASE RefuseTask(t)
    BY <2>2, <2>3 DEF RefuseTask
  <2>. QED BY <2>1, <2>2, <2>3, ProcSteps DEF ProcMoves
<1>3. /\ rows'[t].status = "absent" <=> t \notin Known'
      /\ t \notin Known' => ~rows'[t].exited
  <2>1. ASSUME NEW j \in Job, RunSelect(j) \/ RunSelectFails(j)
        PROVE  /\ rows'[t].status = "absent" <=> t \notin Known'
               /\ t \notin Known' => ~rows'[t].exited
    <3>1. PICK nodes \in SUBSET Connected : Selected(j, nodes)
      BY <2>1, Selections
    <3>2. CASE t \in TasksOf(j, nodes)
      <4>1. rows[t] \in Row /\ rows'[t] = [rows[t] EXCEPT !.status = "queued"] /\ t \in Known'
        BY <3>1, <3>2, SelectedAreNew DEF TasksAreKnown, StoreTypeOK
      <4>. QED BY <4>1 DEF Row
    <3>3. CASE t \notin TasksOf(j, nodes)
      <4>1. /\ assigned[j] = {} /\ assigned'[j] = TasksOf(j, nodes)
            /\ \A k \in Job \ {j} : assigned'[k] = assigned[k]
            /\ rows'[t] = rows[t]
        BY <3>1, <3>3, SelectedAreNew DEF TasksAreKnown
      <4>2. t \in Known' <=> t \in Known
        BY <3>3, <4>1, Parts DEF Known
      <4>. QED BY <4>1, <4>2 DEF TasksAreKnown, KnownTasks
    <3>. QED BY <3>2, <3>3
  <2>2. CASE UNCHANGED assigned
    <3>1. t \in Known' <=> t \in Known
      BY <2>2 DEF Known
    <3>2. rows[t] \in Row
      BY DEF StoreTypeOK
    <3>3. ASSUME NEW c \in Conn, toCoord[c] # <<>>, toCoord[c][1].type \in {"started", "exited"},
                 toCoord[c][1].task = t
          PROVE  t \in Known
      <4>1. 1 \in 1..Len(toCoord[c])
        BY <3>3, Pieces DEF WireTypeOK
      <4>. QED BY <3>3, <4>1 DEF TasksAreKnown, KnownMessages, About
    <3>4. ASSUME NEW c \in Conn, StoreFailed(c) \/ StoreLost(c), cur[c].task = t
          PROVE  t \in Known
      <4>1. cur[c] \in TaskMessage
        BY <3>4 DEF StoreFailed, StoreLost, HandlingTask
      <4>. QED BY <3>4, <4>1 DEF TasksAreKnown, KnownMessages, About, TaskMessage
    <3>5. rows'[t] = rows[t] \/ (t \in Known /\ rows'[t].status # "absent")
      <4>1. CASE rows'[t] = rows[t]
        BY <4>1
      <4>2. ASSUME NEW j \in Job, RunSelect(j) \/ RunSelectFails(j), t \in assigned'[j] PROVE FALSE
        BY <2>1, <2>2, <4>2, <3>1, Selections DEF Selected, TasksAreKnown, KnownRuns
      <4>3. CASE \E c \in Conn :
                    /\ StoreStarted(c) /\ toCoord[c] # <<>>
                    /\ toCoord[c][1].type = "started" /\ toCoord[c][1].task = t
                    /\ rows'[t] = [rows[t] EXCEPT !.status = "running"]
        BY <3>2, <3>3, <4>3 DEF Row
      <4>4. CASE \E c \in Conn :
                    /\ StoreExited(c) /\ toCoord[c] # <<>>
                    /\ toCoord[c][1].type = "exited" /\ toCoord[c][1].task = t
                    /\ rows'[t] = [status |-> IF toCoord[c][1].ok THEN "succeeded" ELSE "failed",
                                   exited |-> TRUE]
        BY <3>3, <4>4
      <4>5. CASE \E c \in Conn :
                    /\ StoreFailed(c) \/ StoreLost(c)
                    /\ cur[c].task = t
                    /\ rows'[t] = [status |-> "failed", exited |-> TRUE]
        BY <3>4, <4>5
      <4>. QED BY <4>1, <4>2, <4>3, <4>4, <4>5, RowSteps DEF RowMoves
    <3>. QED BY <3>1, <3>5 DEF TasksAreKnown, KnownTasks
  <2>. QED BY <2>1, <2>2, AssignSteps
<1>4. t \notin Known' => proc'[t] = "none" /\ output'[t] = "none"
  <2>1. output'[t] # output[t] => proc[t] # "none" \/ output[t] # "none"
    <3>1. CASE UNCHANGED output
      BY <3>1
    <3>2. ASSUME NEW u \in Task, WriteLine(u) \/ ReadLine(u)
          PROVE  output'[t] # output[t] => proc[t] # "none" \/ output[t] # "none"
      BY <3>2 DEF WriteLine, ReadLine, WorkerTypeOK
    <3>3. CASE WorkerNext
      BY <3>1, <3>2, <3>3
         DEF WorkerNext, ReadLoop, ReceiveStart, ReceiveKill, Connect, Disconnect, TaskStep,
             ChildStep, RefuseTask, Forward, StartChild, Reap, TimeOut, Terminate, RemovePid,
             SendExited, ChildExits, workerVars
    <3>. QED BY <3>1, <3>3 DEF Next, vars, workerVars
  <2>. QED BY <1>1, <1>2, <2>1 DEF TasksAreKnown, KnownTasks
<1>5. \A i \in 1..Len(events'[t]) :
          t \in Known' /\ events'[t][i].task = t /\ events'[t][i].type # "error"
  <2>1. CASE Part(events'[t], events[t])
    BY <1>1, <2>1 DEF TasksAreKnown, KnownTasks, Part
  <2>2. ASSUME NEW m, More(events'[t], events[t], m), m.task = t, m.type # "error",
               proc[t] # "none" \/ output[t] # "none"
        PROVE  \A i \in 1..Len(events'[t]) :
                  t \in Known' /\ events'[t][i].task = t /\ events'[t][i].type # "error"
    BY <1>1, <2>2 DEF TasksAreKnown, KnownTasks, More
  <2>3. CASE StartChild(t) /\ More(events'[t], events[t], TaskStarted(t))
    BY <2>2, <2>3 DEF StartChild, TaskStarted
  <2>4. CASE ReadLine(t) /\ More(events'[t], events[t], LogLine(t))
    BY <2>2, <2>4 DEF ReadLine, LogLine
  <2>5. CASE TimeOut(t) /\ More(events'[t], events[t], SystemLine(t))
    BY <2>2, <2>5 DEF TimeOut, SystemLine
  <2>6. CASE SendExited(t) /\ More(events'[t], events[t], TaskExited(t, verdict[t]))
    BY <2>2, <2>6 DEF SendExited, TaskExited
  <2>. QED BY <2>1, <2>3, <2>4, <2>5, <2>6, EventSteps DEF EventsMove
<1>. QED BY <1>3, <1>4, <1>5

\* The registry counts tasks that were selected, under their own node.
LEMMA NextKnownRunning ==
    ASSUME Typed, HandlesMatch, TasksAreKnown, [Next]_vars
    PROVE  KnownRunning'
<1>. USE DEF Typed, TypeOK, CoordTypeOK, RegistryTypeOK
<1>1. \A n \in Node : \A t \in running[n] : t \in Known' /\ NodeOf(ConnOf(t)) = n
  BY KnownLasts DEF TasksAreKnown, KnownRunning
<1>2. CASE UNCHANGED running
  BY <1>1, <1>2 DEF KnownRunning
<1>3. ASSUME NEW j \in Job, RunSelect(j) \/ RunSelectFails(j) PROVE KnownRunning'
  <2>1. PICK nodes \in SUBSET Connected : Selected(j, nodes)
    BY <1>3, Selections
  <2>2. /\ \A t \in TasksOf(j, nodes) : t \in Known'
        /\ \A n \in nodes : \A t \in TasksOf(j, {n}) : t \in TasksOf(j, nodes) /\ NodeOf(ConnOf(t)) = n
    BY <2>1, SelectedAreNew DEF TasksAreKnown
  <2>3. \A n \in Node : running'[n] = IF n \in nodes THEN running[n] \cup TasksOf(j, {n}) ELSE running[n]
    BY <2>1 DEF Selected, RecordAssignments
  <2>. QED BY <1>1, <2>2, <2>3 DEF KnownRunning
<1>4. ASSUME NEW c \in Conn, TrackStarted(c) PROVE KnownRunning'
  <2>1. cur[c] \in TaskMessage /\ cur[c].task \in Known /\ NodeOf(ConnOf(cur[c].task)) = NodeOf(c)
    BY <1>4 DEF TrackStarted, HandlingTask, TasksAreKnown, KnownMessages, About, TaskMessage
  <2>2. cur[c].task \in Known'
    BY <2>1, KnownLasts DEF TasksAreKnown, TaskMessage
  <2>3. \A n \in Node : running'[n] = running[n] \/ (n = NodeOf(c) /\ running'[n] = running[n] \cup {cur[c].task})
    BY <1>4 DEF TrackStarted, Track
  <2>. QED BY <1>1, <2>1, <2>2, <2>3 DEF KnownRunning
<1>5. ASSUME NEW c \in Conn, RegisterWorker(c) \/ UntrackExited(c) \/ UntrackFailed(c) \/ DropNode(c)
      PROVE  KnownRunning'
  <2>1. \A n \in Node : running'[n] \subseteq running[n]
    BY <1>5 DEF RegisterWorker, UntrackExited, UntrackFailed, DropNode, Untrack
  <2>. QED BY <1>1, <2>1 DEF KnownRunning
<1>6. ASSUME NEW c \in Conn, HandlerStep(c) \/ WriterFails(c) PROVE KnownRunning'
  BY <1>2, <1>4, <1>5, <1>6
     DEF HandlerStep, StoreStarted, ReceiveLine, StoreExited, StoreFailed, PublishFailed, Publish,
         StreamCloses, StreamFails, PublishLostLine, StoreLost, PublishLost, AllLost, WriterFails,
         registryVars
<1>7. CASE CoordNext
  BY <1>2, <1>3, <1>6, <1>7
     DEF CoordNext, RunStep, KillStep, ClientStep, RunSubscribe, RunAnnounce, RunDispatch,
         RunDispatchFails, RunDispatched, RunReceive, RunLagged, RunFinish, RunClientGone,
         KillCollect, KillSend, KillFails, KillAck, CreateLease, ReleaseLease, registryVars
<1>. QED BY <1>2, <1>7 DEF Next, vars, coordVars, registryVars

\* A kill request names tasks of its job, on connections of their node.
LEMMA NextKnownTargets ==
    ASSUME Typed, HandlesMatch, TasksAreKnown, [Next]_vars
    PROVE  KnownTargets'
<1>. USE DEF Typed, TypeOK, CoordTypeOK, RegistryTypeOK, KillTypeOK
<1>. SUFFICES ASSUME NEW j \in Job, NEW p \in targets'[j]
              PROVE  JobOf(p[2]) = j /\ p[2] \in Known' /\ NodeOf(ConnOf(p[2])) = NodeOf(p[1])
  BY DEF KnownTargets
<1>1. CASE p \in targets[j]
  <2>1. p[2] \in Task
    BY <1>1
  <2>. QED BY <1>1, <2>1, KnownLasts DEF TasksAreKnown, KnownTargets
<1>2. CASE KillCollect(j)
  <2>1. /\ p \in Conn \X Task /\ handle[NodeOf(p[1])] = p[1]
        /\ p[2] \in running[NodeOf(p[1])] /\ JobOf(p[2]) = j
    BY <1>2 DEF KillCollect
  <2>2. p[1] \in Conn /\ p[2] \in Task
    BY <2>1
  <2>3. p[2] \in Known /\ NodeOf(ConnOf(p[2])) = NodeOf(p[1])
    BY <2>1, <2>2, Parts DEF TasksAreKnown, KnownRunning
  <2>. QED BY <2>1, <2>2, <2>3, KnownLasts DEF TasksAreKnown
<1>3. CASE KillStep(j)
  BY <1>1, <1>3 DEF KillStep, KillSend, KillFails, KillAck
<1>. QED BY <1>1, <1>2, <1>3, KillSteps

\* Whatever a message is about was selected, and for that node.
LEMMA NextKnownMessages ==
    ASSUME Typed, StartedOnce, HandlesMatch, TasksAreKnown, [Next]_vars
    PROVE  KnownMessages'
<1>. USE DEF Typed, TypeOK, CoordTypeOK, WireTypeOK, HandlerTypeOK
<1>. SUFFICES ASSUME NEW c \in Conn
              PROVE  /\ \A t \in lost'[c] : t \in Known' /\ NodeOf(ConnOf(t)) = NodeOf(c)
                     /\ \A i \in 1..Len(toWorker'[c]) : About(toWorker'[c][i], NodeOf(c), Known')
                     /\ \A i \in 1..Len(toCoord'[c]) : About(toCoord'[c][i], NodeOf(c), Known')
                     /\ About(cur'[c], NodeOf(c), Known')
  BY DEF KnownMessages
<1>1. NodeOf(c) \in Node
  BY Parts
<1>2. /\ \A t \in Task : t \in Known => t \in Known'
      /\ \A m \in UpMessage \cup DownMessage : About(m, NodeOf(c), Known) => About(m, NodeOf(c), Known')
  BY <1>1, KnownLasts DEF TasksAreKnown
<1>3. /\ \A i \in 1..Len(toWorker[c]) : About(toWorker[c][i], NodeOf(c), Known')
      /\ \A i \in 1..Len(toCoord[c]) : About(toCoord[c][i], NodeOf(c), Known')
      /\ About(cur[c], NodeOf(c), Known')
  BY <1>2 DEF TasksAreKnown, KnownMessages
<1>4. \A t \in lost[c] : t \in Known' /\ NodeOf(ConnOf(t)) = NodeOf(c)
  BY <1>2 DEF TasksAreKnown, KnownMessages
<1>5. \A i \in 1..Len(toWorker'[c]) : About(toWorker'[c][i], NodeOf(c), Known')
  <2>1. ASSUME NEW m, More(toWorker'[c], toWorker[c], m), About(m, NodeOf(c), Known')
        PROVE  \A i \in 1..Len(toWorker'[c]) : About(toWorker'[c][i], NodeOf(c), Known')
    BY <1>3, <2>1 DEF More
  <2>2. CASE Part(toWorker'[c], toWorker[c])
    BY <1>3, <2>2 DEF Part
  <2>3. ASSUME NEW j \in Job, NEW t \in queue[j], ConnOf(t) = c PROVE About(StartTask(t), NodeOf(c), Known')
    <3>1. t \in Task /\ JobOf(t) = j /\ t \in assigned[j]
      BY <2>3 DEF RunTypeOK, StartedOnce, OwnTasks, TasksAreKnown, KnownRuns
    <3>. QED BY <1>2, <2>3, <3>1 DEF About, StartTask, Known
  <2>4. ASSUME NEW j \in Job, NEW p \in targets[j], p[1] = c PROVE About(KillTask(p[2]), NodeOf(c), Known')
    <3>1. p[2] \in Task /\ p[2] \in Known /\ NodeOf(ConnOf(p[2])) = NodeOf(c)
      BY <2>4 DEF KillTypeOK, TasksAreKnown, KnownTargets
    <3>. QED BY <1>2, <3>1 DEF About, KillTask
  <2>. QED BY <2>1, <2>2, <2>3, <2>4, DownSteps DEF DownMoves
<1>6. \A i \in 1..Len(toCoord'[c]) : About(toCoord'[c][i], NodeOf(c), Known')
  <2>1. ASSUME NEW m, More(toCoord'[c], toCoord[c], m), About(m, NodeOf(c), Known')
        PROVE  \A i \in 1..Len(toCoord'[c]) : About(toCoord'[c][i], NodeOf(c), Known')
    BY <1>3, <2>1 DEF More
  <2>2. CASE Part(toCoord'[c], toCoord[c])
    BY <1>3, <2>2 DEF Part
  <2>3. CASE toCoord'[c] = <<Register>>
    BY <2>3 DEF About, Register
  <2>4. ASSUME NEW t \in Task, ConnOf(t) = c, Forward(t), events[t] # <<>>
        PROVE  About(events[t][1], NodeOf(c), Known')
    <3>1. 1 \in 1..Len(events[t])
      BY <2>4, Pieces DEF WorkerTypeOK
    <3>. QED BY <1>2, <2>4, <3>1 DEF About, TasksAreKnown, KnownTasks
  <2>5. ASSUME NEW t \in Task, ConnOf(t) = c, RefuseTask(t) PROVE About(WorkerError(t), NodeOf(c), Known')
    BY <1>2, <2>5 DEF RefuseTask, About, WorkerError, TasksAreKnown, KnownTasks
  <2>6. ASSUME toWorker[c] # <<>>, toWorker[c][1].type = "kill"
        PROVE  About(WorkerError(toWorker[c][1].task), NodeOf(c), Known')
    <3>1. 1 \in 1..Len(toWorker[c])
      BY <2>6, Pieces
    <3>. QED BY <1>3, <2>6, <3>1 DEF About, WorkerError
  <2>. QED BY <2>1, <2>2, <2>3, <2>4, <2>5, <2>6, UpSteps DEF UpMoves
<1>7. /\ \A t \in lost'[c] : t \in Known' /\ NodeOf(ConnOf(t)) = NodeOf(c)
      /\ About(cur'[c], NodeOf(c), Known')
  <2>1. CASE Take(c) /\ toCoord[c] # <<>> /\ UNCHANGED lost
    <3>1. cur'[c] = toCoord[c][1] /\ 1 \in 1..Len(toCoord[c])
      BY <2>1, Pieces DEF Take
    <3>. QED BY <1>3, <1>4, <2>1, <3>1
  <2>2. CASE DropNode(c)
    BY <1>1, <1>2, <1>3, <2>2 DEF DropNode, TasksAreKnown, KnownRunning, RegistryTypeOK
  <2>3. CASE PublishLostLine(c)
    <3>1. PICK t \in lost[c] : cur' = [cur EXCEPT ![c] = TaskExited(t, FALSE)] /\ lost' = [lost EXCEPT ![c] = @ \ {t}]
      BY <2>3 DEF PublishLostLine
    <3>. QED BY <1>4, <3>1 DEF About, TaskExited
  <2>4. CASE cur'[c] = cur[c] /\ lost'[c] = lost[c]
    BY <1>3, <1>4, <2>4
  <2>5. CASE HandlerStep(c)
    BY <2>1, <2>2, <2>3, <2>4, <2>5
       DEF HandlerStep, RegisterWorker, StoreStarted, TrackStarted, ReceiveLine, StoreExited,
           UntrackExited, UntrackFailed, StoreFailed, PublishFailed, Publish, StreamCloses,
           StreamFails, StoreLost, PublishLost, AllLost, Incoming
  <2>. QED BY <2>4, <2>5, HandlerSteps
<1>. QED BY <1>5, <1>6, <1>7

\* No step makes up a task.
LEMMA NextKnown ==
    ASSUME Typed, StartedOnce, HandlesMatch, TasksAreKnown, [Next]_vars
    PROVE  TasksAreKnown'
BY NextKnownRuns, NextKnownTasks, NextKnownRunning, NextKnownTargets, NextKnownMessages
   DEF TasksAreKnown

------------------------------------------------------------------------------
(* Tasks that were given up: the outcome of every other task is its worker's *)

\* Whoever gives a task up has a reason.
EndsAreKnown ==
    /\ \A j \in Job : targets[j] # {} => j \in Killed
    /\ \A c \in Conn :
        /\ \A i \in 1..Len(toWorker[c]) :
              toWorker[c][i].type = "kill" => JobOf(toWorker[c][i].task) \in Killed
        /\ hpc[c] \in {"drop", "lost", "lostStore", "lostExit"} => link[c] = "closed"
        /\ hpc[c] \in {"lostStore", "lostExit"} => cur[c].type = "exited" /\ ~cur[c].ok

\* What is given up stays so.
LEMMA GivenUpLasts ==
    ASSUME Typed, [Next]_vars
    PROVE  Killed \subseteq Killed' /\ Dropped \subseteq Dropped' /\ GivenUp \subseteq GivenUp'
<1>. USE DEF Typed, TypeOK, CoordTypeOK, HandlerTypeOK, KillTypeOK
<1>1. Killed \subseteq Killed'
  BY KillSteps DEF Killed, KillStep, KillCollect, KillSend, KillFails, KillAck
<1>2. Dropped \subseteq Dropped'
  <2>. SUFFICES ASSUME NEW c \in Dropped PROVE c \in Dropped'
    OBVIOUS
  <2>1. link[c] = "closed" /\ link'[c] = "closed" /\ c \in Conn
    BY LinkSteps DEF Dropped
  <2>2. hpc'[c] \in {"lost", "lostStore", "lostExit", "gone"}
    <3>1. CASE HandlerStep(c)
      BY <3>1
         DEF Dropped, HandlerStep, RegisterWorker, StoreStarted, TrackStarted, ReceiveLine, StoreExited,
             UntrackExited, UntrackFailed, StoreFailed, PublishFailed, Publish, StreamCloses,
             StreamFails, DropNode, PublishLostLine, StoreLost, PublishLost, AllLost, Incoming, Goto
    <3>. QED BY <3>1, HandlerSteps DEF Dropped
  <2>. QED BY <2>1, <2>2 DEF Dropped
<1>. QED BY <1>1, <1>2 DEF GivenUp

\* A task whose kill was not asked for, and whose node was never lost, is neither on its
\* way to be failed for the one nor for the other.
LEMMA NextEnds ==
    ASSUME Typed, TasksAreKnown, EndsAreKnown, [Next]_vars
    PROVE  EndsAreKnown'
<1>. USE DEF Typed, TypeOK, CoordTypeOK, HandlerTypeOK, KillTypeOK, WireTypeOK
<1>1. ASSUME NEW j \in Job, targets'[j] # {} PROVE j \in Killed'
  BY <1>1, KillSteps DEF Killed, KillStep, KillCollect, KillSend, KillFails, KillAck, EndsAreKnown
<1>2. ASSUME NEW c \in Conn
      PROVE  \A i \in 1..Len(toWorker'[c]) :
                toWorker'[c][i].type = "kill" => JobOf(toWorker'[c][i].task) \in Killed'
  <2>1. Killed \subseteq Killed'
    BY GivenUpLasts
  <2>2. \A i \in 1..Len(toWorker[c]) :
            toWorker[c][i].type = "kill" => JobOf(toWorker[c][i].task) \in Killed'
    BY <2>1 DEF EndsAreKnown
  <2>3. ASSUME NEW m, More(toWorker'[c], toWorker[c], m), m.type = "kill" => JobOf(m.task) \in Killed
        PROVE  \A i \in 1..Len(toWorker'[c]) :
                  toWorker'[c][i].type = "kill" => JobOf(toWorker'[c][i].task) \in Killed'
    BY <2>1, <2>2, <2>3 DEF More
  <2>4. CASE Part(toWorker'[c], toWorker[c])
    BY <2>2, <2>4 DEF Part
  <2>5. ASSUME NEW t, More(toWorker'[c], toWorker[c], StartTask(t))
        PROVE  \A i \in 1..Len(toWorker'[c]) :
                  toWorker'[c][i].type = "kill" => JobOf(toWorker'[c][i].task) \in Killed'
    BY <2>3, <2>5 DEF StartTask
  <2>6. ASSUME NEW j \in Job, NEW p \in targets[j], More(toWorker'[c], toWorker[c], KillTask(p[2]))
        PROVE  \A i \in 1..Len(toWorker'[c]) :
                  toWorker'[c][i].type = "kill" => JobOf(toWorker'[c][i].task) \in Killed'
    <3>1. JobOf(p[2]) = j /\ j \in Killed
      BY <2>6 DEF TasksAreKnown, KnownTargets, EndsAreKnown
    <3>. QED BY <2>3, <2>6, <3>1 DEF KillTask
  <2>7. \/ Part(toWorker'[c], toWorker[c])
        \/ \E t : More(toWorker'[c], toWorker[c], StartTask(t))
        \/ \E j \in Job : \E p \in targets[j] : More(toWorker'[c], toWorker[c], KillTask(p[2]))
    BY DownSteps DEF DownMoves
  <2>. QED BY <2>4, <2>5, <2>6, <2>7
<1>3. ASSUME NEW c \in Conn
      PROVE  /\ hpc'[c] \in {"drop", "lost", "lostStore", "lostExit"} => link'[c] = "closed"
             /\ hpc'[c] \in {"lostStore", "lostExit"} => cur'[c].type = "exited" /\ ~cur'[c].ok
  <2>1. link[c] = "closed" => link'[c] = "closed"
    BY LinkSteps
  <2>2. CASE hpc'[c] = hpc[c] /\ cur'[c] = cur[c]
    BY <2>1, <2>2 DEF EndsAreKnown
  <2>3. CASE StreamCloses(c) \/ DropNode(c) \/ StoreLost(c) \/ PublishLost(c)
    BY <2>1, <2>3 DEF StreamCloses, DropNode, StoreLost, PublishLost, Goto, EndsAreKnown
  <2>4. CASE PublishLostLine(c)
    BY <2>1, <2>4 DEF PublishLostLine, Goto, EndsAreKnown, TaskExited
  <2>5. CASE HandlerStep(c) /\ ~(StreamCloses(c) \/ DropNode(c) \/ StoreLost(c) \/ PublishLost(c) \/ PublishLostLine(c))
    BY <2>5
       DEF HandlerStep, RegisterWorker, StoreStarted, TrackStarted, ReceiveLine, StoreExited,
           UntrackExited, UntrackFailed, StoreFailed, PublishFailed, Publish,
           StreamFails, AllLost, Goto
  <2>. QED BY <2>2, <2>3, <2>4, <2>5, HandlerSteps
<1>. QED BY <1>1, <1>2, <1>3 DEF EndsAreKnown

------------------------------------------------------------------------------
(* The reports of a task come in order, and the store hears of each end once *)

\* The tasks whose process was started, and the outcomes its waiter has reported.
Begun == {t \in Task : proc[t] \notin {"none", "received", "refused"}}
Ended == {e \in Task \X BOOLEAN : proc[e[1]] = "done" /\ verdict[e[1]] = e[2]}

\* A report of the start or the exit of a task.
Reports(m, t) == m.type \in {"started", "exited"} /\ m.task = t
Silent(s, t) == \A i \in 1..Len(s) : ~Reports(s[i], t)
ExitsLast(s) == \A i, k \in 1..Len(s) : s[i].type = "exited" /\ i < k => ~Reports(s[k], s[i].task)

Genuine(m, begun, ended) ==
    /\ m.type \in {"started", "exited"} => m.task \in begun
    /\ m.type = "exited" => <<m.task, m.ok>> \in ended

\* What is reported has happened, and is reported on the task's own connection ...
ReportsAreGenuine ==
    /\ \A t \in Task : \A i \in 1..Len(events[t]) : Genuine(events[t][i], Begun, Ended)
    /\ \A c \in Conn : \A i \in 1..Len(toCoord[c]) :
          /\ Genuine(toCoord[c][i], Begun, Ended)
          /\ toCoord[c][i].type \in {"started", "exited"} => ConnOf(toCoord[c][i].task) = c

\* ... a task's exit is the last that is heard of it ...
ReportsAreOrdered ==
    /\ \A t \in Task : ExitsLast(events[t])
    /\ \A c \in Conn :
        /\ ExitsLast(toCoord[c])
        /\ \A i \in 1..Len(toCoord[c]) : toCoord[c][i].type = "exited" =>
              Silent(events[toCoord[c][i].task], toCoord[c][i].task)

\* ... so that no report is on its way of a task whose outcome was recorded ...
Closed == {t \in Task : rows[t].status = "succeeded" \/ (rows[t].exited /\ t \notin GivenUp)}
ClosedIsSilent == \A t \in Closed : Silent(events[t], t) /\ Silent(toCoord[ConnOf(t)], t)

\* ... a refused task is refused once ...
Refusal(m, t) == m.type = "error" /\ m.task = t
RefusalsAreOnce ==
    \A c \in Conn, t \in Task \ GivenUp :
        /\ \A i \in 1..Len(toCoord[c]) : Refusal(toCoord[c][i], t) =>
              /\ proc[t] = "refused" /\ ConnOf(t) = c /\ ~rows[t].exited
              /\ \A k \in 1..Len(toCoord[c]) : Refusal(toCoord[c][k], t) => k = i
        /\ hpc[c] = "errorStore" /\ cur[c].task = t =>
              /\ proc[t] = "refused" /\ ConnOf(t) = c /\ ~rows[t].exited
              /\ \A k \in 1..Len(toCoord[c]) : ~Refusal(toCoord[c][k], t)

\* ... and what the store says of a task that was not given up is its own outcome.
OutcomesAreOwn ==
    \A t \in Task \ GivenUp :
        /\ rows[t].exited <=> IsSettled(rows[t])
        /\ rows[t].status = "failed" => proc[t] = "refused" \/ (proc[t] = "done" /\ ~verdict[t])

Ground == Verdicts /\ HandlesMatch /\ TasksAreKnown /\ EndsAreKnown
Reporting ==
    ReportsAreGenuine /\ ReportsAreOrdered /\ ClosedIsSilent /\ RefusalsAreOnce /\ OutcomesAreOwn

\* How silence and order pass from a channel to what becomes of it.
LEMMA SilentPieces ==
    ASSUME NEW M, NEW s \in Seq(M), NEW u
    PROVE  /\ Part(u, s) => \A t : Silent(s, t) => Silent(u, t)
           /\ \A m, t : More(u, s, m) /\ Silent(s, t) /\ ~Reports(m, t) => Silent(u, t)
           /\ Part(u, s) /\ ExitsLast(s) => ExitsLast(u)
           /\ \A m : /\ More(u, s, m) /\ ExitsLast(s)
                     /\ \A i \in 1..Len(s) : s[i].type = "exited" => ~Reports(m, s[i].task)
                     => ExitsLast(u)
<1>0. Len(s) \in Nat
  OBVIOUS
<1>1. Part(u, s) => \A t : Silent(s, t) => Silent(u, t)
  BY DEF Part, Silent
<1>2. \A m, t : More(u, s, m) /\ Silent(s, t) /\ ~Reports(m, t) => Silent(u, t)
  BY DEF More, Silent
<1>3. ASSUME Part(u, s), ExitsLast(s) PROVE ExitsLast(u)
  <2>1. PICK d \in {0, 1} : \A i \in 1..Len(u) : i + d \in 1..Len(s) /\ u[i] = s[i + d]
    BY <1>3 DEF Part
  <2>2. ASSUME NEW i \in 1..Len(u), NEW k \in 1..Len(u), u[i].type = "exited", i < k
        PROVE  ~Reports(u[k], u[i].task)
    <3>1. i + d \in 1..Len(s) /\ k + d \in 1..Len(s) /\ i + d < k + d
      BY <2>1, <2>2
    <3>. QED BY <1>3, <2>1, <2>2, <3>1 DEF ExitsLast
  <2>. QED BY <2>2 DEF ExitsLast
<1>4. ASSUME NEW m, More(u, s, m), ExitsLast(s),
             \A i \in 1..Len(s) : s[i].type = "exited" => ~Reports(m, s[i].task)
      PROVE  ExitsLast(u)
  <2>. SUFFICES ASSUME NEW i \in 1..Len(u), NEW k \in 1..Len(u), u[i].type = "exited", i < k
                PROVE  ~Reports(u[k], u[i].task)
    BY DEF ExitsLast
  <2>1. i \in 1..Len(s) /\ u[i] = s[i]
    BY <1>0, <1>4 DEF More
  <2>2. CASE k \in 1..Len(s) /\ u[k] = s[k]
    BY <1>4, <2>1, <2>2 DEF ExitsLast
  <2>3. CASE u[k] = m
    BY <1>4, <2>1, <2>3
  <2>. QED BY <1>4, <2>2, <2>3 DEF More
<1>. QED BY <1>1, <1>2, <1>3, <1>4

\* What has happened to a process has.
LEMMA ProcsLast ==
    ASSUME Typed, StartedOnce, [Next]_vars
    PROVE  /\ Begun \subseteq Begun' /\ Ended \subseteq Ended'
           /\ \A t \in Task : proc[t] = "refused" => proc'[t] = "refused"
<1>1. ASSUME NEW t \in Task
      PROVE  /\ t \in Begun => t \in Begun'
             /\ proc[t] = "done" => proc'[t] = "done" /\ verdict'[t] = verdict[t]
             /\ proc[t] = "refused" => proc'[t] = "refused"
  BY ProcSteps DEF ProcMoves, RefuseTask, Begun
<1>. QED BY <1>1 DEF Begun, Ended

\* What a report says stays true: a process that began has begun, one that ended stays so.
LEMMA GenuineLasts ==
    ASSUME Typed, StartedOnce, [Next]_vars, NEW m, Genuine(m, Begun, Ended)
    PROVE  Genuine(m, Begun', Ended')
BY ProcsLast DEF Genuine

\* Reports tell of processes that began and of the verdicts they ended with.
LEMMA NextGenuine ==
    ASSUME Typed, StartedOnce, TasksAreKnown, ReportsAreGenuine, [Next]_vars
    PROVE  ReportsAreGenuine'
<1>1. ASSUME NEW t \in Task PROVE \A i \in 1..Len(events'[t]) : Genuine(events'[t][i], Begun', Ended')
  <2>1. \A i \in 1..Len(events[t]) : Genuine(events[t][i], Begun', Ended')
    BY GenuineLasts DEF ReportsAreGenuine
  <2>2. ASSUME NEW m, More(events'[t], events[t], m), Genuine(m, Begun', Ended')
        PROVE  \A i \in 1..Len(events'[t]) : Genuine(events'[t][i], Begun', Ended')
    BY <2>1, <2>2 DEF More
  <2>3. CASE Part(events'[t], events[t])
    BY <2>1, <2>3 DEF Part
  <2>4. CASE StartChild(t) /\ More(events'[t], events[t], TaskStarted(t))
    <3>1. t \in Begun'
      BY <2>4 DEF StartChild, Begun, Typed, TypeOK, WorkerTypeOK
    <3>. QED BY <2>2, <2>4, <3>1 DEF Genuine, TaskStarted
  <2>5. CASE SendExited(t) /\ More(events'[t], events[t], TaskExited(t, verdict[t]))
    <3>1. t \in Begun' /\ <<t, verdict[t]>> \in Ended'
      BY <2>5 DEF SendExited, Begun, Ended, Typed, TypeOK, WorkerTypeOK
    <3>. QED BY <2>2, <2>5, <3>1 DEF Genuine, TaskExited
  <2>6. Genuine(LogLine(t), Begun', Ended') /\ Genuine(SystemLine(t), Begun', Ended')
    BY DEF Genuine, LogLine, SystemLine
  <2>. QED BY <2>2, <2>3, <2>4, <2>5, <2>6, EventSteps DEF EventsMove
<1>2. ASSUME NEW c \in Conn
      PROVE  \A i \in 1..Len(toCoord'[c]) :
                /\ Genuine(toCoord'[c][i], Begun', Ended')
                /\ toCoord'[c][i].type \in {"started", "exited"} => ConnOf(toCoord'[c][i].task) = c
  <2>1. \A i \in 1..Len(toCoord[c]) :
            /\ Genuine(toCoord[c][i], Begun', Ended')
            /\ toCoord[c][i].type \in {"started", "exited"} => ConnOf(toCoord[c][i].task) = c
    BY GenuineLasts DEF ReportsAreGenuine
  <2>2. ASSUME NEW m, More(toCoord'[c], toCoord[c], m), Genuine(m, Begun', Ended'),
               m.type \in {"started", "exited"} => ConnOf(m.task) = c
        PROVE  \A i \in 1..Len(toCoord'[c]) :
                  /\ Genuine(toCoord'[c][i], Begun', Ended')
                  /\ toCoord'[c][i].type \in {"started", "exited"} => ConnOf(toCoord'[c][i].task) = c
    BY <2>1, <2>2 DEF More
  <2>3. CASE Part(toCoord'[c], toCoord[c])
    BY <2>1, <2>3 DEF Part
  <2>4. CASE toCoord'[c] = <<Register>>
    BY <2>4 DEF Genuine, Register
  <2>5. ASSUME NEW t \in Task, ConnOf(t) = c, events[t] # <<>>, More(toCoord'[c], toCoord[c], events[t][1])
        PROVE  \A i \in 1..Len(toCoord'[c]) :
                  /\ Genuine(toCoord'[c][i], Begun', Ended')
                  /\ toCoord'[c][i].type \in {"started", "exited"} => ConnOf(toCoord'[c][i].task) = c
    <3>1. 1 \in 1..Len(events[t])
      BY <2>5, Pieces DEF Typed, TypeOK, WorkerTypeOK
    <3>2. Genuine(events[t][1], Begun', Ended') /\ events[t][1].task = t
      BY <3>1, GenuineLasts DEF ReportsAreGenuine, TasksAreKnown, KnownTasks
    <3>. QED BY <2>2, <2>5, <3>2
  <2>6. ASSUME NEW t, More(toCoord'[c], toCoord[c], WorkerError(t))
        PROVE  \A i \in 1..Len(toCoord'[c]) :
                  /\ Genuine(toCoord'[c][i], Begun', Ended')
                  /\ toCoord'[c][i].type \in {"started", "exited"} => ConnOf(toCoord'[c][i].task) = c
    BY <2>2, <2>6 DEF Genuine, WorkerError
  <2>. QED BY <2>3, <2>4, <2>5, <2>6, UpSteps DEF UpMoves
<1>. QED BY <1>1, <1>2 DEF ReportsAreGenuine

\* Of a process that has ended, or was refused, nothing more is reported.
LEMMA SilenceLasts ==
    ASSUME Typed, TasksAreKnown, [Next]_vars, NEW t \in Task, t \in Known,
           proc[t] \in {"refused", "done"}, Silent(events[t], t)
    PROVE  /\ Silent(events'[t], t)
           /\ Silent(toCoord[ConnOf(t)], t) => Silent(toCoord'[ConnOf(t)], t)
<1>. DEFINE c == ConnOf(t)
<1>1. events[t] \in Seq(TaskMessage) /\ toCoord[c] \in Seq(UpMessage) /\ c \in Conn
  BY Parts DEF Typed, TypeOK, WireTypeOK, WorkerTypeOK
<1>2. Silent(events'[t], t)
  <2>1. ~Reports(LogLine(t), t) /\ ~Reports(SystemLine(t), t)
    BY DEF Reports, LogLine, SystemLine
  <2>2. ~StartChild(t) /\ ~SendExited(t)
    BY DEF StartChild, SendExited
  <2>. QED BY <1>1, <2>1, <2>2, SilentPieces, EventSteps DEF EventsMove
<1>3. ASSUME Silent(toCoord[c], t) PROVE Silent(toCoord'[c], t)
  <2>1. CASE Part(toCoord'[c], toCoord[c])
    BY <1>1, <1>3, <2>1, SilentPieces
  <2>2. CASE toCoord'[c] = <<Register>>
    BY <2>2 DEF Silent, Reports, Register
  <2>3. ASSUME NEW m, More(toCoord'[c], toCoord[c], m), ~Reports(m, t)
        PROVE  Silent(toCoord'[c], t)
    BY <1>1, <1>3, <2>3, SilentPieces
  <2>4. ASSUME NEW u \in Task, events[u] # <<>>, More(toCoord'[c], toCoord[c], events[u][1])
        PROVE  Silent(toCoord'[c], t)
    <3>1. 1 \in 1..Len(events[u])
      BY <2>4, Pieces DEF Typed, TypeOK, WorkerTypeOK
    <3>2. events[u][1].task = u
      BY <3>1 DEF TasksAreKnown, KnownTasks
    <3>3. ~Reports(events[u][1], t)
      BY <3>1, <3>2 DEF Reports, Silent
    <3>. QED BY <2>3, <2>4, <3>3
  <2>5. ASSUME NEW u, More(toCoord'[c], toCoord[c], WorkerError(u))
        PROVE  Silent(toCoord'[c], t)
    BY <2>3, <2>5 DEF Reports, WorkerError
  <2>6. UpMoves(c)
    BY <1>1, UpSteps
  <2>. HIDE DEF c
  <2>. QED BY <2>1, <2>2, <2>4, <2>5, <2>6 DEF UpMoves
<1>. QED BY <1>2, <1>3

\* A task's exit comes after its start, and after it nothing but refusals of kills.
LEMMA NextOrdered ==
    ASSUME Typed, StartedOnce, TasksAreKnown, ReportsAreGenuine, ReportsAreOrdered, [Next]_vars
    PROVE  ReportsAreOrdered'
<1>1. ASSUME NEW t \in Task PROVE ExitsLast(events'[t])
  <2>1. events[t] \in Seq(TaskMessage) /\ ExitsLast(events[t])
    BY DEF Typed, TypeOK, WorkerTypeOK, ReportsAreOrdered
  <2>2. CASE Part(events'[t], events[t])
    BY <2>1, <2>2, SilentPieces
  <2>3. ASSUME NEW m, More(events'[t], events[t], m), proc[t] # "done" \/ m.type \notin {"started", "exited"}
        PROVE  ExitsLast(events'[t])
    <3>1. ASSUME NEW i \in 1..Len(events[t]), events[t][i].type = "exited"
          PROVE  ~Reports(m, events[t][i].task)
      <4>1. events[t][i].task = t /\ Genuine(events[t][i], Begun, Ended)
        BY DEF TasksAreKnown, KnownTasks, ReportsAreGenuine
      <4>2. proc[t] = "done"
        BY <3>1, <4>1 DEF Genuine, Ended
      <4>. QED BY <2>3, <4>2 DEF Reports
    <3>. QED BY <2>1, <2>3, <3>1, SilentPieces
  <2>4. /\ StartChild(t) => proc[t] # "done"
        /\ SendExited(t) => proc[t] # "done"
        /\ LogLine(t).type \notin {"started", "exited"}
        /\ SystemLine(t).type \notin {"started", "exited"}
    BY DEF StartChild, SendExited, LogLine, SystemLine
  <2>. QED BY <2>2, <2>3, <2>4, EventSteps DEF EventsMove
<1>2. ASSUME NEW c \in Conn PROVE ExitsLast(toCoord'[c])
  <2>1. toCoord[c] \in Seq(UpMessage) /\ ExitsLast(toCoord[c])
    BY DEF Typed, TypeOK, WireTypeOK, ReportsAreOrdered
  <2>2. CASE Part(toCoord'[c], toCoord[c])
    BY <2>1, <2>2, SilentPieces
  <2>3. CASE toCoord'[c] = <<Register>>
    BY <2>3 DEF ExitsLast, Register
  <2>4. ASSUME NEW t \in Task, events[t] # <<>>, More(toCoord'[c], toCoord[c], events[t][1])
        PROVE  ExitsLast(toCoord'[c])
    <3>1. 1 \in 1..Len(events[t])
      BY <2>4, Pieces DEF Typed, TypeOK, WorkerTypeOK
    <3>2. events[t][1].task = t
      BY <3>1 DEF TasksAreKnown, KnownTasks
    <3>3. ASSUME NEW i \in 1..Len(toCoord[c]), toCoord[c][i].type = "exited"
          PROVE  ~Reports(events[t][1], toCoord[c][i].task)
      <4>1. Silent(events[toCoord[c][i].task], toCoord[c][i].task)
        BY <3>3 DEF ReportsAreOrdered
      <4>. QED BY <3>1, <3>2, <4>1 DEF Silent, Reports
    <3>. QED BY <2>1, <2>4, <3>3, SilentPieces
  <2>5. ASSUME NEW t, More(toCoord'[c], toCoord[c], WorkerError(t))
        PROVE  ExitsLast(toCoord'[c])
    <3>1. \A u : ~Reports(WorkerError(t), u)
      BY DEF Reports, WorkerError
    <3>. QED BY <2>1, <2>5, <3>1, SilentPieces
  <2>. QED BY <2>2, <2>3, <2>4, <2>5, UpSteps DEF UpMoves
<1>3. ASSUME NEW c \in Conn, NEW i \in 1..Len(toCoord'[c]), toCoord'[c][i].type = "exited"
      PROVE  Silent(events'[toCoord'[c][i].task], toCoord'[c][i].task)
  <2>1. ASSUME NEW k \in 1..Len(toCoord[c]), toCoord'[c][i] = toCoord[c][k]
        PROVE  Silent(events'[toCoord'[c][i].task], toCoord'[c][i].task)
    <3>. DEFINE t == toCoord[c][k].task
    <3>1. toCoord[c][k].type = "exited"
      BY <1>3, <2>1
    <3>2. t \in Task /\ proc[t] = "done"
      BY <3>1 DEF ReportsAreGenuine, Genuine, Ended
    <3>3. t \in Known
      BY <3>2 DEF TasksAreKnown, KnownTasks
    <3>4. Silent(events[t], t)
      BY <3>1 DEF ReportsAreOrdered
    <3>5. Silent(events'[t], t)
      BY <3>2, <3>3, <3>4, SilenceLasts
    <3>. QED BY <2>1, <3>5
  <2>2. CASE Part(toCoord'[c], toCoord[c])
    BY <2>1, <2>2 DEF Part
  <2>3. CASE toCoord'[c] = <<Register>>
    BY <1>3, <2>3 DEF Register
  <2>4. ASSUME NEW t \in Task, Forward(t), events[t] # <<>>, More(toCoord'[c], toCoord[c], events[t][1]),
               i \notin 1..Len(toCoord[c])
        PROVE  Silent(events'[toCoord'[c][i].task], toCoord'[c][i].task)
    <3>1. toCoord'[c][i] = events[t][1]
      BY <2>4 DEF More
    <3>2. events[t] \in Seq(TaskMessage) /\ ExitsLast(events[t]) /\ events'[t] = Tail(events[t])
      BY <2>4 DEF Forward, Typed, TypeOK, WorkerTypeOK, ReportsAreOrdered
    <3>3. /\ 1 \in 1..Len(events[t])
          /\ \A k \in 1..Len(events'[t]) : k + 1 \in 1..Len(events[t]) /\ events'[t][k] = events[t][k + 1]
      BY <2>4, <3>2, Pieces
    <3>4. events[t][1].task = t
      BY <3>3 DEF TasksAreKnown, KnownTasks
    <3>5. \A k \in 1..Len(events'[t]) : ~Reports(events[t][k + 1], t)
      <4>1. ASSUME NEW k \in 1..Len(events'[t]) PROVE ~Reports(events[t][k + 1], t)
        <5>1. k + 1 \in 1..Len(events[t]) /\ 1 < k + 1
          BY <3>3
        <5>. QED BY <1>3, <3>1, <3>2, <3>3, <3>4, <5>1 DEF ExitsLast
      <4>. QED BY <4>1
    <3>. QED BY <3>1, <3>3, <3>4, <3>5 DEF Silent
  <2>5. ASSUME NEW m, More(toCoord'[c], toCoord[c], m)
        PROVE  \/ \E k \in 1..Len(toCoord[c]) : toCoord'[c][i] = toCoord[c][k]
               \/ i \notin 1..Len(toCoord[c]) /\ toCoord'[c][i] = m
    <3>1. toCoord[c] \in Seq(UpMessage)
      BY DEF Typed, TypeOK, WireTypeOK
    <3>. QED BY <2>5, <3>1 DEF More
  <2>6. ASSUME NEW t, More(toCoord'[c], toCoord[c], WorkerError(t))
        PROVE  Silent(events'[toCoord'[c][i].task], toCoord'[c][i].task)
    BY <1>3, <2>1, <2>5, <2>6 DEF WorkerError
  <2>7. ASSUME NEW t \in Task, Forward(t), events[t] # <<>>, More(toCoord'[c], toCoord[c], events[t][1])
        PROVE  Silent(events'[toCoord'[c][i].task], toCoord'[c][i].task)
    BY <2>1, <2>4, <2>5, <2>7
  <2>. QED BY <2>2, <2>1, <2>3, <2>6, <2>7, UpSteps DEF UpMoves
<1>. QED BY <1>1, <1>2, <1>3 DEF ReportsAreOrdered

\* The handler of a closed connection fails only tasks it has given up.
LEMMA LossesAreGivenUp ==
    ASSUME Typed, TasksAreKnown, EndsAreKnown, NEW c \in Conn, hpc[c] \in {"lostStore", "lostExit"}
    PROVE  cur[c].task \in GivenUp
<1>1. link[c] = "closed" /\ cur[c] \in TaskMessage
  BY DEF EndsAreKnown, Typed, HandlingTask
<1>2. c \in Dropped /\ cur[c].task \in Task /\ NodeOf(ConnOf(cur[c].task)) = NodeOf(c)
  BY <1>1 DEF Dropped, TasksAreKnown, KnownMessages, About, TaskMessage
<1>. QED BY <1>2 DEF GivenUp

\* The task that set_lost fails is one whose connection has ended.
LEMMA LostAreGivenUp ==
    ASSUME Typed, TasksAreKnown, EndsAreKnown, NEW c \in Conn, StoreLost(c)
    PROVE  cur[c].task \in GivenUp
BY LossesAreGivenUp DEF StoreLost

\* The first report on a connection, when the store takes it.
LEMMA FirstReport ==
    ASSUME Typed, ReportsAreGenuine, NEW c \in Conn, toCoord[c] # <<>>,
           toCoord[c][1].type \in {"started", "exited"}
    PROVE  /\ toCoord[c][1].task \in Begun /\ ConnOf(toCoord[c][1].task) = c
           /\ toCoord[c][1].type = "exited" => <<toCoord[c][1].task, toCoord[c][1].ok>> \in Ended
           /\ ~Silent(toCoord[c], toCoord[c][1].task)
<1>1. 1 \in 1..Len(toCoord[c])
  BY Pieces DEF Typed, TypeOK, WireTypeOK
<1>. QED BY <1>1 DEF ReportsAreGenuine, Genuine, Silent, Reports

\* Once the store has taken an exit that was reported, no report of the task is left.
LEMMA NextClosed ==
    ASSUME Ground, Reporting, [Next]_vars
    PROVE  ClosedIsSilent'
<1>. USE DEF Ground, Reporting, Verdicts
<1>. SUFFICES ASSUME NEW t \in Closed'
              PROVE  Silent(events'[t], t) /\ Silent(toCoord'[ConnOf(t)], t)
  BY DEF ClosedIsSilent
<1>1. t \in Task /\ rows[t] \in Row /\ (t \in GivenUp => t \in GivenUp')
  BY GivenUpLasts DEF Closed, Typed, TypeOK, CoordTypeOK, StoreTypeOK
<1>2. ASSUME t \in Known, proc[t] \in {"refused", "done"}, Silent(events[t], t),
             Silent(toCoord[ConnOf(t)], t)
      PROVE  Silent(events'[t], t) /\ Silent(toCoord'[ConnOf(t)], t)
  BY <1>1, <1>2, SilenceLasts
<1>3. CASE t \in Closed
  <2>1. proc[t] \in {"refused", "done"}
    BY <1>3 DEF Closed, OutcomesAreOwn, IsSettled, SuccessIsHonest, RowsAreHonest, Succeeded
  <2>2. t \in Known
    BY <1>1, <2>1 DEF TasksAreKnown, KnownTasks
  <2>. QED BY <1>2, <1>3, <2>1, <2>2 DEF ClosedIsSilent
<1>4. ASSUME NEW c \in Conn, StoreExited(c), toCoord[c] # <<>>,
             toCoord[c][1].type = "exited", toCoord[c][1].task = t
      PROVE  Silent(events'[t], t) /\ Silent(toCoord'[ConnOf(t)], t)
  <2>1. ConnOf(t) = c /\ proc[t] = "done"
    BY <1>4, FirstReport DEF Ended
  <2>2. toCoord[c] \in Seq(UpMessage) /\ ExitsLast(toCoord[c]) /\ toCoord'[c] = Tail(toCoord[c])
    BY <1>4 DEF StoreExited, Take, Typed, TypeOK, WireTypeOK, ReportsAreOrdered
  <2>3. /\ 1 \in 1..Len(toCoord[c])
        /\ \A k \in 1..Len(toCoord'[c]) : k + 1 \in 1..Len(toCoord[c]) /\ toCoord'[c][k] = toCoord[c][k + 1]
    BY <1>4, <2>2, Pieces
  <2>4. Silent(events[t], t)
    BY <1>4, <2>3 DEF ReportsAreOrdered
  <2>5. t \in Known
    BY <1>1, <2>1 DEF TasksAreKnown, KnownTasks
  <2>6. Silent(events'[t], t)
    BY <1>1, <2>1, <2>4, <2>5, SilenceLasts
  <2>7. \A k \in 1..Len(toCoord'[c]) : ~Reports(toCoord'[c][k], t)
    <3>1. ASSUME NEW k \in 1..Len(toCoord'[c]) PROVE ~Reports(toCoord'[c][k], t)
      <4>1. k + 1 \in 1..Len(toCoord[c]) /\ 1 < k + 1
        BY <2>3
      <4>. QED BY <1>4, <2>2, <2>3, <4>1 DEF ExitsLast
    <3>. QED BY <3>1
  <2>. QED BY <2>1, <2>6, <2>7 DEF Silent
<1>5. ASSUME NEW c \in Conn, StoreFailed(c), cur[c].task = t, t \notin GivenUp
      PROVE  Silent(events'[t], t) /\ Silent(toCoord'[ConnOf(t)], t)
  <2>1. proc[t] = "refused" /\ ConnOf(t) = c
    BY <1>1, <1>5 DEF StoreFailed, RefusalsAreOnce
  <2>2. t \notin Begun /\ t \in Known
    BY <1>1, <2>1 DEF Begun, TasksAreKnown, KnownTasks
  <2>3. Silent(events[t], t) /\ Silent(toCoord[c], t)
    BY <1>1, <2>2 DEF Silent, Reports, ReportsAreGenuine, Genuine
  <2>. QED BY <1>2, <2>1, <2>2, <2>3
<1>6. rows'[t].status = "succeeded" \/ (rows'[t].exited /\ t \notin GivenUp')
  BY DEF Closed
<1>7. CASE rows'[t] = rows[t]
  BY <1>1, <1>3, <1>6, <1>7 DEF Closed
<1>8. CASE \E j \in Job : /\ RunSelect(j) \/ RunSelectFails(j)
                          /\ t \in assigned'[j]
                          /\ rows'[t] = [rows[t] EXCEPT !.status = "queued"]
  BY <1>1, <1>3, <1>6, <1>8 DEF Closed, Row
<1>9. CASE \E c \in Conn :
              /\ StoreStarted(c) /\ toCoord[c] # <<>>
              /\ toCoord[c][1].type = "started" /\ toCoord[c][1].task = t
              /\ rows'[t] = [rows[t] EXCEPT !.status = "running"]
  BY <1>1, <1>3, <1>6, <1>9 DEF Closed, Row
<1>10. CASE \E c \in Conn :
              /\ StoreFailed(c) \/ StoreLost(c)
              /\ cur[c].task = t
              /\ rows'[t] = [status |-> "failed", exited |-> TRUE]
  BY <1>1, <1>5, <1>6, <1>10, LostAreGivenUp
<1>11. RowMoves(t)
  BY <1>1, RowSteps
<1>. QED BY <1>4, <1>7, <1>8, <1>9, <1>10, <1>11 DEF RowMoves

\* The exit of a refused task, or of one to be refused, is recorded by the handler that
\* has its refusal.
LEMMA RefusedExit ==
    ASSUME Ground, Reporting, [Next]_vars, NEW t \in Task, t \notin GivenUp, ~rows[t].exited,
           proc[t] \in {"received", "refused"}, rows'[t].exited
    PROVE  \E c \in Conn : StoreFailed(c) /\ cur[c].task = t /\ hpc[c] = "errorStore"
<1>. USE DEF Ground, Reporting, Verdicts
<1>1. rows[t] \in Row /\ t \notin Begun
  BY DEF Typed, TypeOK, CoordTypeOK, StoreTypeOK, Begun
<1>2. RowMoves(t)
  BY RowSteps
<1>. QED BY <1>1, <1>2, FirstReport, LostAreGivenUp DEF RowMoves, Row, StoreFailed

\* A refusal is of a task that never ran, and there is one of it.
LEMMA NextRefusals ==
    ASSUME Ground, Reporting, [Next]_vars
    PROVE  RefusalsAreOnce'
<1>. USE DEF Ground, Reporting, Verdicts
<1>. SUFFICES ASSUME NEW c \in Conn, NEW t \in Task, t \notin GivenUp'
              PROVE
        /\ \A i \in 1..Len(toCoord'[c]) : Refusal(toCoord'[c][i], t) =>
              /\ proc'[t] = "refused" /\ ConnOf(t) = c /\ ~rows'[t].exited
              /\ \A k \in 1..Len(toCoord'[c]) : Refusal(toCoord'[c][k], t) => k = i
        /\ hpc'[c] = "errorStore" /\ cur'[c].task = t =>
              /\ proc'[t] = "refused" /\ ConnOf(t) = c /\ ~rows'[t].exited
              /\ \A k \in 1..Len(toCoord'[c]) : ~Refusal(toCoord'[c][k], t)
  BY DEF RefusalsAreOnce
<1>1. t \notin GivenUp
  BY GivenUpLasts
<1>2. toCoord[c] \in Seq(UpMessage) /\ Len(toCoord[c]) \in Nat
  BY DEF Typed, TypeOK, WireTypeOK
<1>3. /\ \A i \in 1..Len(toCoord[c]) : Refusal(toCoord[c][i], t) =>
            /\ proc[t] = "refused" /\ ConnOf(t) = c /\ ~rows[t].exited
            /\ \A k \in 1..Len(toCoord[c]) : Refusal(toCoord[c][k], t) => k = i
      /\ hpc[c] = "errorStore" /\ cur[c].task = t =>
            /\ proc[t] = "refused" /\ ConnOf(t) = c /\ ~rows[t].exited
            /\ \A k \in 1..Len(toCoord[c]) : ~Refusal(toCoord[c][k], t)
  BY <1>1 DEF RefusalsAreOnce
<1>4. proc[t] = "refused" => proc'[t] = "refused"
  BY ProcsLast
\* While a refusal is on its way, nobody records the exit of its task.
<1>5. ASSUME NEW i \in 1..Len(toCoord[c]), Refusal(toCoord[c][i], t) PROVE ~rows'[t].exited
  <2>1. proc[t] = "refused" /\ ConnOf(t) = c /\ ~rows[t].exited
    BY <1>3, <1>5
  <2>2. ASSUME NEW d \in Conn, hpc[d] = "errorStore", cur[d].task = t PROVE FALSE
    BY <1>1, <1>5, <2>1, <2>2 DEF RefusalsAreOnce
  <2>. QED BY <1>1, <2>1, <2>2, RefusedExit
\* Where a new refusal comes from.
<1>6. ASSUME NEW i \in 1..Len(toCoord'[c]), Refusal(toCoord'[c][i], t)
      PROVE  \/ \E k \in 1..Len(toCoord[c]) : Refusal(toCoord[c][k], t)
             \/ RefuseTask(t) /\ ConnOf(t) = c /\ More(toCoord'[c], toCoord[c], WorkerError(t))
  <2>1. CASE Part(toCoord'[c], toCoord[c])
    BY <1>6, <2>1 DEF Part
  <2>2. CASE toCoord'[c] = <<Register>>
    BY <1>6, <2>2 DEF Refusal, Register
  <2>3. ASSUME NEW m, More(toCoord'[c], toCoord[c], m)
        PROVE  Refusal(m, t) \/ \E k \in 1..Len(toCoord[c]) : Refusal(toCoord[c][k], t)
    BY <1>6, <2>3 DEF More
  <2>4. ASSUME NEW u \in Task, events[u] # <<>> PROVE ~Refusal(events[u][1], t)
    <3>1. 1 \in 1..Len(events[u])
      BY <2>4, Pieces DEF Typed, TypeOK, WorkerTypeOK
    <3>. QED BY <3>1 DEF TasksAreKnown, KnownTasks, Refusal
  <2>5. ASSUME toWorker[c] # <<>>, toWorker[c][1].type = "kill"
        PROVE  ~Refusal(WorkerError(toWorker[c][1].task), t)
    <3>1. 1 \in 1..Len(toWorker[c])
      BY <2>5, Pieces DEF Typed, TypeOK, WireTypeOK
    <3>2. JobOf(toWorker[c][1].task) \in Killed
      BY <2>5, <3>1 DEF EndsAreKnown
    <3>. QED BY <1>1, <3>2 DEF Refusal, WorkerError, GivenUp
  <2>6. ASSUME NEW u, Refusal(WorkerError(u), t) PROVE u = t
    BY <2>6 DEF Refusal, WorkerError
  <2>7. UpMoves(c)
    BY UpSteps
  <2>. QED BY <2>1, <2>2, <2>3, <2>4, <2>5, <2>6, <2>7 DEF UpMoves
<1>7. ASSUME RefuseTask(t), ConnOf(t) = c
      PROVE  /\ proc'[t] = "refused" /\ ~rows'[t].exited
             /\ \A k \in 1..Len(toCoord[c]) : ~Refusal(toCoord[c][k], t)
             /\ ~(hpc[c] = "errorStore" /\ cur[c].task = t)
  <2>1. proc[t] = "received" /\ proc'[t] = "refused"
    BY <1>7 DEF RefuseTask, Typed, TypeOK, WorkerTypeOK
  <2>2. ~rows[t].exited
    BY <1>1, <2>1 DEF OutcomesAreOwn, IsSettled, SuccessIsHonest, RowsAreHonest, Succeeded
  <2>3. ASSUME NEW d \in Conn, hpc[d] = "errorStore", cur[d].task = t PROVE FALSE
    BY <1>1, <2>1, <2>3 DEF RefusalsAreOnce
  <2>4. ~rows'[t].exited
    BY <1>1, <2>1, <2>2, <2>3, RefusedExit
  <2>. QED BY <1>3, <2>1, <2>3, <2>4
<1>8. ASSUME NEW i \in 1..Len(toCoord'[c]), Refusal(toCoord'[c][i], t)
      PROVE  /\ proc'[t] = "refused" /\ ConnOf(t) = c /\ ~rows'[t].exited
             /\ \A k \in 1..Len(toCoord'[c]) : Refusal(toCoord'[c][k], t) => k = i
  <2>1. proc'[t] = "refused" /\ ConnOf(t) = c /\ ~rows'[t].exited
    BY <1>3, <1>4, <1>5, <1>6, <1>7, <1>8
  <2>2. ASSUME NEW k \in 1..Len(toCoord'[c]), Refusal(toCoord'[c][k], t) PROVE k = i
    <3>1. CASE RefuseTask(t) /\ More(toCoord'[c], toCoord[c], WorkerError(t))
      BY <1>2, <1>7, <1>8, <2>1, <2>2, <3>1 DEF More
    <3>2. CASE Part(toCoord'[c], toCoord[c])
      <4>1. PICK d \in {0, 1} : \A x \in 1..Len(toCoord'[c]) :
                x + d \in 1..Len(toCoord[c]) /\ toCoord'[c][x] = toCoord[c][x + d]
        BY <3>2 DEF Part
      <4>2. k + d = i + d
        BY <1>3, <1>8, <2>2, <4>1
      <4>. QED BY <4>2
    <3>3. ASSUME NEW m, More(toCoord'[c], toCoord[c], m), ~Refusal(m, t) PROVE k = i
      BY <1>3, <1>8, <2>2, <3>3 DEF More
    <3>4. CASE toCoord'[c] = <<Register>>
      BY <1>8, <3>4 DEF Refusal, Register
    <3>5. ASSUME NEW u \in Task, events[u] # <<>> PROVE ~Refusal(events[u][1], t)
      <4>1. 1 \in 1..Len(events[u])
        BY <3>5, Pieces DEF Typed, TypeOK, WorkerTypeOK
      <4>. QED BY <4>1 DEF TasksAreKnown, KnownTasks, Refusal
    <3>6. ASSUME toWorker[c] # <<>>, toWorker[c][1].type = "kill"
          PROVE  ~Refusal(WorkerError(toWorker[c][1].task), t)
      <4>1. 1 \in 1..Len(toWorker[c])
        BY <3>6, Pieces DEF Typed, TypeOK, WireTypeOK
      <4>2. JobOf(toWorker[c][1].task) \in Killed
        BY <3>6, <4>1 DEF EndsAreKnown
      <4>. QED BY <1>1, <4>2 DEF Refusal, WorkerError, GivenUp
    <3>7. ASSUME NEW u, Refusal(WorkerError(u), t) PROVE u = t
      BY <3>7 DEF Refusal, WorkerError
    <3>8. UpMoves(c)
      BY UpSteps
    <3>. QED BY <3>1, <3>2, <3>3, <3>4, <3>5, <3>6, <3>7, <3>8 DEF UpMoves
  <2>. QED BY <2>1, <2>2
<1>9. ASSUME hpc'[c] = "errorStore", cur'[c].task = t
      PROVE  /\ proc'[t] = "refused" /\ ConnOf(t) = c /\ ~rows'[t].exited
             /\ \A k \in 1..Len(toCoord'[c]) : ~Refusal(toCoord'[c][k], t)
  <2>1. CASE hpc[c] = "errorStore" /\ cur[c].task = t
    <3>1. /\ proc[t] = "refused" /\ ConnOf(t) = c /\ ~rows[t].exited
          /\ \A k \in 1..Len(toCoord[c]) : ~Refusal(toCoord[c][k], t)
      BY <1>3, <2>1
    <3>2. ~StoreFailed(c)
      BY <1>9 DEF StoreFailed, Goto, Typed, TypeOK, CoordTypeOK, HandlerTypeOK
    <3>3. ~rows'[t].exited
      <4>1. ASSUME NEW d \in Conn, hpc[d] = "errorStore", cur[d].task = t PROVE d = c
        BY <1>1, <3>1, <4>1 DEF RefusalsAreOnce
      <4>. QED BY <1>1, <3>1, <3>2, <4>1, RefusedExit
    <3>. QED BY <1>4, <1>6, <1>7, <2>1, <3>1, <3>3
  <2>2. CASE UntrackFailed(c)
    <3>1. /\ toCoord[c] # <<>> /\ cur'[c] = toCoord[c][1] /\ toCoord[c][1].type = "error"
          /\ toCoord'[c] = Tail(toCoord[c]) /\ 1 \in 1..Len(toCoord[c])
          /\ \A k \in 1..Len(Tail(toCoord[c])) :
                k + 1 \in 1..Len(toCoord[c]) /\ Tail(toCoord[c])[k] = toCoord[c][k + 1]
      BY <2>2, <1>2, Pieces
         DEF UntrackFailed, Incoming, Take, Typed, TypeOK, WireTypeOK, CoordTypeOK, HandlerTypeOK
    <3>2. Refusal(toCoord[c][1], t)
      BY <1>9, <3>1 DEF Refusal
    <3>3. \A k \in 1..Len(toCoord'[c]) : ~Refusal(toCoord'[c][k], t)
      BY <1>3, <3>1, <3>2
    <3>. QED BY <1>3, <1>4, <1>5, <3>1, <3>2, <3>3
  <2>3. CASE HandlerStep(c) /\ ~UntrackFailed(c)
    BY <1>9, <2>3
       DEF HandlerStep, RegisterWorker, StoreStarted, TrackStarted, ReceiveLine, StoreExited,
           UntrackExited, StoreFailed, PublishFailed, Publish, StreamCloses,
           StreamFails, DropNode, PublishLostLine, StoreLost, PublishLost, AllLost, Goto,
           Typed, TypeOK, CoordTypeOK, HandlerTypeOK
  <2>. QED BY <1>9, <2>1, <2>2, <2>3, HandlerSteps
<1>. QED BY <1>8, <1>9

\* A row has the outcome its own process reported, unless the task was given up.
LEMMA NextOutcomes ==
    ASSUME Ground, Reporting, [Next]_vars
    PROVE  OutcomesAreOwn'
<1>. USE DEF Ground, Reporting, Verdicts
<1>. SUFFICES ASSUME NEW t \in Task, t \notin GivenUp'
              PROVE  /\ rows'[t].exited <=> IsSettled(rows'[t])
                     /\ rows'[t].status = "failed" =>
                            proc'[t] = "refused" \/ (proc'[t] = "done" /\ ~verdict'[t])
  BY DEF OutcomesAreOwn
<1>1. t \notin GivenUp /\ rows[t] \in Row
  BY GivenUpLasts DEF Typed, TypeOK, CoordTypeOK, StoreTypeOK
<1>2. /\ rows[t].exited <=> IsSettled(rows[t])
      /\ rows[t].status = "failed" => proc[t] = "refused" \/ (proc[t] = "done" /\ ~verdict[t])
  BY <1>1 DEF OutcomesAreOwn
<1>3. /\ proc[t] = "refused" => proc'[t] = "refused"
      /\ proc[t] = "done" => proc'[t] = "done" /\ verdict'[t] = verdict[t]
  BY ProcSteps DEF ProcMoves, RefuseTask
<1>4. CASE rows'[t] = rows[t]
  BY <1>2, <1>3, <1>4
<1>5. CASE \E j \in Job : /\ RunSelect(j) \/ RunSelectFails(j)
                          /\ t \in assigned'[j]
                          /\ rows'[t] = [rows[t] EXCEPT !.status = "queued"]
  <2>1. PICK j \in Job : (RunSelect(j) \/ RunSelectFails(j)) /\ t \in assigned'[j]
    BY <1>5
  <2>2. PICK nodes \in SUBSET Connected : Selected(j, nodes)
    BY <2>1, Selections
  <2>3. t \notin Known
    BY <2>1, <2>2, SelectedAreNew DEF TasksAreKnown
  <2>4. ~rows[t].exited
    BY <2>3 DEF TasksAreKnown, KnownTasks
  <2>. QED BY <1>1, <1>5, <2>4 DEF Row, IsSettled
<1>6. CASE \E c \in Conn :
              /\ StoreStarted(c) /\ toCoord[c] # <<>>
              /\ toCoord[c][1].type = "started" /\ toCoord[c][1].task = t
              /\ rows'[t] = [rows[t] EXCEPT !.status = "running"]
  <2>1. ~rows[t].exited
    BY <1>1, <1>6, FirstReport DEF ClosedIsSilent, Closed
  <2>. QED BY <1>1, <1>6, <2>1 DEF Row, IsSettled
<1>7. CASE \E c \in Conn :
              /\ StoreExited(c) /\ toCoord[c] # <<>>
              /\ toCoord[c][1].type = "exited" /\ toCoord[c][1].task = t
              /\ rows'[t] = [status |-> IF toCoord[c][1].ok THEN "succeeded" ELSE "failed",
                             exited |-> TRUE]
  <2>1. PICK c \in Conn :
              /\ toCoord[c] # <<>>
              /\ toCoord[c][1].type = "exited" /\ toCoord[c][1].task = t
              /\ rows'[t] = [status |-> IF toCoord[c][1].ok THEN "succeeded" ELSE "failed",
                             exited |-> TRUE]
    BY <1>7
  <2>2. <<t, toCoord[c][1].ok>> \in Ended
    BY <2>1, FirstReport
  <2>3. proc[t] = "done" /\ verdict[t] = toCoord[c][1].ok
    BY <2>2 DEF Ended
  <2>. QED BY <1>3, <2>1, <2>3 DEF IsSettled
<1>8. CASE \E c \in Conn :
              /\ StoreFailed(c) \/ StoreLost(c)
              /\ cur[c].task = t
              /\ rows'[t] = [status |-> "failed", exited |-> TRUE]
  <2>1. PICK c \in Conn : /\ StoreFailed(c) \/ StoreLost(c)
                          /\ cur[c].task = t
                          /\ rows'[t] = [status |-> "failed", exited |-> TRUE]
    BY <1>8
  <2>2. StoreFailed(c) /\ hpc[c] = "errorStore"
    BY <1>1, <2>1, LostAreGivenUp DEF StoreFailed
  <2>3. proc[t] = "refused"
    BY <1>1, <2>1, <2>2 DEF RefusalsAreOnce
  <2>. QED BY <1>3, <2>1, <2>3 DEF IsSettled
<1>9. RowMoves(t)
  BY RowSteps
<1>. QED BY <1>4, <1>5, <1>6, <1>7, <1>8, <1>9 DEF RowMoves

------------------------------------------------------------------------------
(* An outcome stays, and what the client is told of a failure is in the store *)

\* Of a task whose outcome was recorded, only an error or a lost connection is written down.
LEMMA ClosedStays ==
    ASSUME Ground, Reporting, [Next]_vars, NEW t \in Closed
    PROVE  \/ rows'[t] = rows[t]
           \/ \E c \in Conn : (StoreFailed(c) \/ StoreLost(c)) /\ cur[c].task = t
<1>. USE DEF Ground, Reporting, Verdicts
<1>1. t \in Task /\ t \in Known /\ Silent(toCoord[ConnOf(t)], t)
  BY DEF TasksAreKnown, KnownTasks, ClosedIsSilent, Closed
<1>2. ASSUME NEW j \in Job, RunSelect(j) \/ RunSelectFails(j), t \in assigned'[j] PROVE FALSE
  <2>1. PICK nodes \in SUBSET Connected : Selected(j, nodes)
    BY <1>2, Selections
  <2>. QED BY <1>1, <1>2, <2>1, SelectedAreNew DEF TasksAreKnown
<1>3. ASSUME NEW c \in Conn, toCoord[c] # <<>>, toCoord[c][1].type \in {"started", "exited"},
             toCoord[c][1].task = t
      PROVE  FALSE
  BY <1>1, <1>3, FirstReport
<1>4. RowMoves(t)
  BY <1>1, RowSteps
<1>. QED BY <1>2, <1>3, <1>4 DEF RowMoves

\* What is in the store of a task that was not given up is its outcome for good.
LEMMA OutcomeStays ==
    ASSUME Ground, Reporting, [Next]_vars, NEW t \in Task, t \notin GivenUp, IsSettled(rows[t])
    PROVE  rows'[t] = rows[t]
<1>. USE DEF Ground, Reporting, Verdicts
<1>1. rows[t].exited /\ t \in Closed
  BY DEF OutcomesAreOwn, Closed
<1>2. ASSUME NEW c \in Conn, StoreFailed(c) \/ StoreLost(c), cur[c].task = t PROVE FALSE
  <2>1. CASE StoreLost(c)
    BY <1>2, <2>1, LostAreGivenUp
  <2>2. CASE StoreFailed(c)
    BY <1>1, <1>2, <2>2 DEF StoreFailed, RefusalsAreOnce
  <2>. QED BY <1>2, <2>1, <2>2
<1>. QED BY <1>1, <1>2, ClosedStays

\* The tasks a client may be told of as failures.
Failing == {t \in Task : t \in GivenUp \/ rows[t].status = "failed"}

\* A report of failure is of one of them.
Told(m, failing) == m.type = "exited" /\ ~m.ok => m.task \in failing

\* A failure is in the store before anybody is told of it, unless its task was given up.
FailuresIn(failing) ==
    /\ \A c \in Conn :
        /\ hpc[c] \in {"untrack", "publish"} => Told(cur[c], failing)
        /\ hpc[c] = "errorExit" => cur[c].task \in failing
    /\ \A j \in Job :
        /\ \A i \in 1..Len(sub[j]) : Told(sub[j][i], failing)
        /\ ~allOk[j] => \E t \in assigned[j] : t \in failing

FailuresAreTold == FailuresIn(Failing)

\* A task that is failing stays so.
LEMMA FailingLasts ==
    ASSUME Ground, Reporting, [Next]_vars
    PROVE  /\ Failing \subseteq Failing'
           /\ \A m : Told(m, Failing) => Told(m, Failing')
<1>1. ASSUME NEW t \in Failing PROVE t \in Failing'
  <2>1. CASE t \in GivenUp'
    BY <1>1, <2>1 DEF Failing
  <2>2. CASE t \notin GivenUp'
    <3>1. t \in Task /\ t \notin GivenUp /\ rows[t].status = "failed"
      BY <1>1, <2>2, GivenUpLasts DEF Failing, Ground, Verdicts
    <3>2. rows'[t] = rows[t]
      BY <3>1, OutcomeStays DEF IsSettled
    <3>. QED BY <3>1, <3>2 DEF Failing
  <2>. QED BY <2>1, <2>2
<1>. QED BY <1>1 DEF Told

\* A report of failure keeps to a set that every recorded failure enters and none leaves.
LEMMA FailuresPass ==
    ASSUME Ground, [Next]_vars, NEW S, NEW T, S \subseteq T, FailuresIn(S),
           \A t \in Task : rows'[t].status = "failed" => t \in T,
           \A c \in Conn : hpc[c] = "lostExit" => cur[c].task \in S
    PROVE  /\ \A c \in Conn :
                /\ hpc'[c] \in {"untrack", "publish"} => Told(cur'[c], T)
                /\ hpc'[c] = "errorExit" => cur'[c].task \in T
           /\ \A j \in Job :
                /\ \A i \in 1..Len(sub'[j]) : Told(sub'[j][i], T)
                /\ ~allOk'[j] => \E t \in assigned'[j] : t \in T
<1>. USE DEF Ground, Verdicts
<1>1. \A m : Told(m, S) => Told(m, T)
  BY DEF Told
<1>2. ASSUME NEW c \in Conn
      PROVE  /\ hpc'[c] \in {"untrack", "publish"} => Told(cur'[c], T)
             /\ hpc'[c] = "errorExit" => cur'[c].task \in T
  <2>. USE DEF Typed, TypeOK, CoordTypeOK, HandlerTypeOK
  <2>1. CASE hpc'[c] = hpc[c] /\ cur'[c] = cur[c]
    BY <1>1, <2>1 DEF FailuresIn
  <2>2. CASE StoreExited(c)
    <3>1. cur'[c] = Head(toCoord[c]) /\ hpc'[c] = "untrack" /\ Head(toCoord[c]) \in UpMessage
      BY <2>2, Pieces DEF StoreExited, Incoming, Take, Goto, WireTypeOK
    <3>2. cur'[c].type = "exited" /\ cur'[c] \in TaskMessage
      BY <2>2, <3>1 DEF StoreExited, Incoming, UpMessage, Register
    <3>3. rows' = RecordTaskExited(rows, cur'[c].task, cur'[c].ok)
      BY <2>2, <3>1 DEF StoreExited
    <3>4. ~cur'[c].ok => rows'[cur'[c].task].status = "failed"
      BY <3>2, <3>3 DEF RecordTaskExited, StoreTypeOK, TaskMessage
    <3>5. ~cur'[c].ok => cur'[c].task \in T
      BY <3>2, <3>4 DEF TaskMessage
    <3>. QED BY <3>1, <3>5 DEF Told
  <2>3. CASE StoreFailed(c)
    <3>1. /\ cur'[c] = cur[c] /\ cur[c].task \in Task /\ hpc'[c] = "errorExit"
          /\ rows' = RecordTaskExited(rows, cur[c].task, FALSE)
      BY <2>3 DEF StoreFailed, Goto, HandlingTask, TaskMessage
    <3>2. rows'[cur[c].task].status = "failed"
      BY <3>1 DEF RecordTaskExited, StoreTypeOK
    <3>. QED BY <3>1, <3>2
  <2>4. CASE UntrackFailed(c) \/ ReceiveLine(c)
    <3>1. cur'[c] = Head(toCoord[c]) /\ Head(toCoord[c]).type # "exited" /\ hpc'[c] # "errorExit"
      BY <2>4 DEF UntrackFailed, ReceiveLine, Incoming, Take, Goto
    <3>. QED BY <3>1 DEF Told
  <2>5. CASE TrackStarted(c) \/ PublishFailed(c)
    <3>1. cur'[c] = cur[c] /\ cur[c].type # "exited" /\ hpc'[c] # "errorExit"
      BY <2>5 DEF TrackStarted, PublishFailed, Goto, HandlingTask
    <3>. QED BY <3>1 DEF Told
  <2>6. CASE UntrackExited(c)
    BY <1>1, <2>6 DEF UntrackExited, Goto, FailuresIn
  <2>7. CASE HandlerStep(c) /\ hpc'[c] \notin {"untrack", "publish", "errorExit"}
    BY <2>7
  <2>8. CASE \/ RegisterWorker(c) \/ StoreStarted(c) \/ Publish(c) \/ StreamCloses(c)
             \/ StreamFails(c) \/ DropNode(c) \/ PublishLostLine(c) \/ StoreLost(c)
             \/ PublishLost(c) \/ AllLost(c)
    BY <2>8 DEF RegisterWorker, StoreStarted, Publish, StreamCloses, StreamFails, DropNode,
                PublishLostLine, StoreLost, PublishLost, AllLost, Goto
  <2>. QED BY <2>1, <2>2, <2>3, <2>4, <2>5, <2>6, <2>8, HandlerSteps DEF HandlerStep
<1>3. ASSUME NEW j \in Job
      PROVE  \A i \in 1..Len(sub'[j]) : Told(sub'[j][i], T)
  <2>1. \A i \in 1..Len(sub[j]) : Told(sub[j][i], T)
    BY <1>1 DEF FailuresIn
  <2>2. ASSUME NEW m, More(sub'[j], sub[j], m), Told(m, T)
        PROVE  \A i \in 1..Len(sub'[j]) : Told(sub'[j][i], T)
    BY <2>1, <2>2 DEF More
  <2>3. CASE Part(sub'[j], sub[j])
    BY <2>1, <2>3 DEF Part
  <2>4. ASSUME NEW c \in Conn, Publish(c) PROVE Told(cur[c], T)
    BY <1>1, <2>4 DEF Publish, FailuresIn
  <2>5. ASSUME NEW c \in Conn, PublishLost(c) PROVE Told(cur[c], T)
    BY <2>5 DEF PublishLost, Told
  <2>6. ASSUME NEW c \in Conn, PublishFailed(c)
        PROVE  Told(TaskExited(cur[c].task, FALSE), T)
    BY <1>1, <2>6 DEF PublishFailed, FailuresIn, Told, TaskExited
  <2>7. \A t : Told(SystemLine(t), T)
    BY DEF Told, SystemLine
  <2>. QED BY <2>2, <2>3, <2>4, <2>5, <2>6, <2>7, SubSteps DEF SubMoves
<1>4. ASSUME NEW j \in Job, ~allOk'[j]
      PROVE  \E t \in assigned'[j] : t \in T
  <2>. USE DEF Typed, TypeOK, CoordTypeOK, RunTypeOK
  <2>1. CASE ~allOk[j]
    <3>1. assigned[j] \subseteq assigned'[j]
      BY KnownLasts DEF TasksAreKnown
    <3>. QED BY <1>1, <2>1, <3>1 DEF FailuresIn
  <2>2. CASE RunReceive(j) /\ allOk[j]
    <3>. DEFINE e == Head(sub[j])
    <3>1. sub[j] \in Seq(TaskMessage) /\ sub[j] # <<>>
      BY <2>2 DEF RunReceive
    <3>2. e = sub[j][1] /\ 1 \in 1..Len(sub[j]) /\ e \in TaskMessage
      BY <3>1, Pieces
    <3>3. e.type = "exited" /\ e.task \in pending[j] /\ ~e.ok /\ assigned'[j] = assigned[j]
      BY <1>4, <2>2 DEF RunReceive
    <3>4. e.task \in S
      BY <3>2, <3>3 DEF FailuresIn, Told
    <3>. QED BY <1>1, <3>3, <3>4 DEF TasksAreKnown, KnownRuns
  <2>3. CASE RunMove(j) /\ ~RunReceive(j) /\ allOk[j]
    BY <1>4, <2>3
       DEF RunMove, RunStep, RunSelect, RunSelectFails, RunSubscribe, RunAnnounce, RunDispatch,
           RunDispatchFails, RunDispatched, RunLagged, RunFinish, RunClientGone
  <2>. QED BY <1>4, <2>1, <2>2, <2>3, RunSteps
<1>. QED BY <1>2, <1>3, <1>4

\* Who is told of a failure is told of one that is written down, or will be.
LEMMA NextFailures ==
    ASSUME Ground, Reporting, FailuresAreTold, [Next]_vars
    PROVE  FailuresAreTold'
<1>1. Failing \subseteq Failing'
  BY FailingLasts
<1>2. FailuresIn(Failing) /\ \A t \in Task : rows'[t].status = "failed" => t \in Failing'
  BY DEF FailuresAreTold, Failing
<1>3. ASSUME NEW c \in Conn, hpc[c] = "lostExit" PROVE cur[c].task \in Failing
  BY <1>3, LossesAreGivenUp DEF Ground, Verdicts, Failing, GivenUp
<1>. QED BY <1>1, <1>2, <1>3, FailuresPass DEF FailuresAreTold, FailuresIn

------------------------------------------------------------------------------
(* The reports of a run *)

\* The inductive invariant of the reports.
ReportInv == Ground /\ Reporting /\ FailuresAreTold

\* Nothing is selected, sent or given up at first.
LEMMA InitGround == Init => Ground
<1>. SUFFICES ASSUME Init PROVE Ground
  OBVIOUS
<1>. USE DEF Init, WireInit, CoordInit, WorkerInit
<1>1. TasksAreKnown
  <2>1. Known = {}
    BY Parts DEF Known
  <2>2. KnownTasks
    BY <2>1 DEF KnownTasks, NoRow
  <2>3. KnownRuns /\ KnownRunning /\ KnownTargets
    BY DEF KnownRuns, KnownRunning, KnownTargets
  <2>4. KnownMessages
    BY DEF KnownMessages, About, Register
  <2>. QED BY <2>2, <2>3, <2>4 DEF TasksAreKnown
<1>2. EndsAreKnown
  BY DEF EndsAreKnown
<1>3. HandlesMatch
  BY DEF HandlesMatch
<1>. QED BY <1>1, <1>2, <1>3, InitVerdicts DEF Ground

\* Nothing is reported at first.
LEMMA InitReporting == Init => Reporting /\ FailuresAreTold
<1>. SUFFICES ASSUME Init PROVE Reporting /\ FailuresAreTold
  OBVIOUS
<1>. USE DEF Init, WireInit, CoordInit, WorkerInit, NoRow
<1>1. ReportsAreGenuine /\ ReportsAreOrdered /\ ClosedIsSilent
  BY DEF ReportsAreGenuine, ReportsAreOrdered, ExitsLast, ClosedIsSilent, Closed
<1>2. RefusalsAreOnce /\ OutcomesAreOwn
  BY DEF RefusalsAreOnce, OutcomesAreOwn, IsSettled
<1>3. FailuresAreTold
  BY DEF FailuresAreTold, FailuresIn
<1>. QED BY <1>1, <1>2, <1>3 DEF Reporting

\* Each step keeps to known tasks and known ends.
LEMMA NextGround ==
    ASSUME Ground, [Next]_vars
    PROVE  Ground'
BY NextVerdicts, HandlesStayMatched, NextKnown, NextEnds DEF Ground, Verdicts

\* Each step keeps the reports genuine and in order.
LEMMA NextReporting ==
    ASSUME Ground, Reporting, [Next]_vars
    PROVE  Reporting'
<1>1. ReportsAreGenuine' /\ ReportsAreOrdered'
  BY NextGenuine, NextOrdered DEF Ground, Verdicts, Reporting
<1>. QED BY <1>1, NextClosed, NextRefusals, NextOutcomes DEF Reporting

\* The invariant holds at first ...
LEMMA ReportInit == Init => ReportInv
BY InitGround, InitReporting DEF ReportInv

\* ... and each step keeps it.
LEMMA ReportInductive == ReportInv /\ [Next]_vars => ReportInv'
BY NextGround, NextReporting, NextFailures DEF ReportInv

\* Every failure in the store has a cause: the worker refused the task, its process was
\* reported a failure, its job was asked to be killed, or a connection of its node ended
\* in order.  In particular no request about one job fails a task of another.
FailuresAreCaused ==
    \A t \in Task : rows[t].status = "failed" =>
        \/ proc[t] = "refused"
        \/ proc[t] = "done" /\ ~verdict[t]
        \/ kpc[JobOf(t)] # "idle"
        \/ \E c \in Conn : NodeOf(c) = NodeOf(ConnOf(t)) /\ link[c] = "closed"

\* The causes are read off the invariant.
LEMMA CausesKnown == ReportInv => FailuresAreCaused
BY DEF ReportInv, Reporting, OutcomesAreOwn, FailuresAreCaused, GivenUp, Killed, Dropped

\* So it is at any time, with any number of connections of each node.
THEOREM FailuresHaveCauses == Spec => []FailuresAreCaused
BY CausesKnown, ReportInit, ReportInductive, PTL DEF Spec

\* As long as each node has its first connection, two connections of a node are one.
LEMMA OneSession ==
    ASSUME Sessions = 1, NEW c \in Conn, NEW d \in Conn, NodeOf(c) = NodeOf(d)
    PROVE  c = d
<1>1. 1..Sessions = {1}
  OBVIOUS
<1>. QED BY <1>1 DEF Conn, NodeOf

\* Then a failure without a refusal, a failed process or a kill request is that of a task
\* whose own connection has ended.
THEOREM FailuresAreExplained ==
    ASSUME Sessions = 1
    PROVE  Spec => []FailureIsExplained
<1>1. ReportInv => FailureIsExplained
  <2>. SUFFICES ASSUME ReportInv, NEW t \in Task, rows[t].status = "failed"
                PROVE  \/ proc[t] = "refused"
                       \/ proc[t] = "done" /\ ~verdict[t]
                       \/ ~IsOpenLink(ConnOf(t))
                       \/ kpc[JobOf(t)] # "idle"
    BY DEF FailureIsExplained
  <2>1. CASE t \notin GivenUp
    BY <2>1 DEF ReportInv, Reporting, OutcomesAreOwn
  <2>2. CASE JobOf(t) \in Killed
    BY <2>2 DEF Killed
  <2>3. ASSUME NEW c \in Dropped, NodeOf(c) = NodeOf(ConnOf(t)) PROVE ~IsOpenLink(ConnOf(t))
    <3>1. c = ConnOf(t)
      BY <2>3, OneSession, Parts DEF Dropped
    <3>. QED BY <3>1 DEF Dropped, IsOpenLink
  <2>. QED BY <2>1, <2>2, <2>3 DEF GivenUp
<1>. QED BY <1>1, ReportInit, ReportInductive, PTL DEF Spec

\* No interleaving of handlers, readers and requests takes such an outcome back.
THEOREM OwnOutcomesAreFinal == Spec => OwnOutcomeIsFinal
<1>1. ReportInv /\ [Next]_vars =>
          [\A t \in Task \ GivenUp : IsSettled(rows[t]) => rows'[t] = rows[t]]_vars
  BY OutcomeStays DEF ReportInv
<1>. QED BY <1>1, ReportInit, ReportInductive, PTL DEF Spec, OwnOutcomeIsFinal

------------------------------------------------------------------------------
(* The registry against the store, while each node has its first connection *)

\* The handler of a connection is in its loop.
Handling(c) ==
    hpc[c] \in {"read", "track", "untrack", "publish", "errorStore", "errorExit", "drop"}

\* The handler of c has taken the task off the registry and is about to fail it.
InLimbo(c, t) ==
    \/ hpc[c] \in {"errorStore", "lostStore"} /\ cur[c].task = t
    \/ t \in lost[c]

\* A node's handle is that of its connection for as long as its handler is in the loop ...
HandlersAreRegistered ==
    \A c \in Conn :
        /\ Handling(c) => handle[NodeOf(c)] = c
        /\ hpc[c] = "new" => handle[NodeOf(c)] = NoHandle /\ running[NodeOf(c)] = {}

\* ... what mark_node_lost has still to fail is failed once ...
LossesAreOnce ==
    \A c \in Conn :
        /\ lost[c] # {} => hpc[c] \in {"lost", "lostStore", "lostExit"}
        /\ hpc[c] = "lostStore" => cur[c].task \notin lost[c]

\* ... and a task is in the registry or in limbo, never in both, as long as the store calls
\* it open, but for the steps between the write to the one and the write to the other.
Matches(c, t) ==
    /\ t \in running[NodeOf(c)] => ~InLimbo(c, t)
    /\ IF hpc[c] = "track" /\ cur[c].task = t THEN IsOpen(rows[t])
       ELSE IF hpc[c] = "untrack" /\ cur[c].task = t THEN IsSettled(rows[t])
       ELSE t \in running[NodeOf(c)] \/ InLimbo(c, t) <=> IsOpen(rows[t])

LedgerKept ==
    HandlersAreRegistered /\ LossesAreOnce /\ \A t \in Task : Matches(ConnOf(t), t)

\* Where the handle and the running tasks of a node change.
LEMMA RegistrySteps ==
    ASSUME Typed, [Next]_vars
    PROVE  \/ UNCHANGED <<handle, running>>
           \/ \E c \in Conn : /\ HandlerStep(c)
                              /\ \A n \in Node \ {NodeOf(c)} :
                                    handle'[n] = handle[n] /\ running'[n] = running[n]
           \/ UNCHANGED handle /\ \E j \in Job : RunSelect(j) \/ RunSelectFails(j)
<1>. USE DEF Typed, TypeOK, CoordTypeOK, RegistryTypeOK
<1>1. ASSUME NEW c \in Conn, HandlerStep(c)
      PROVE  \A n \in Node \ {NodeOf(c)} : handle'[n] = handle[n] /\ running'[n] = running[n]
  BY <1>1
     DEF HandlerStep, RegisterWorker, StoreStarted, TrackStarted, ReceiveLine, StoreExited,
         UntrackExited, UntrackFailed, StoreFailed, PublishFailed, Publish, StreamCloses,
         StreamFails, DropNode, PublishLostLine, StoreLost, PublishLost, AllLost, registryVars,
         Track, Untrack
<1>2. ASSUME NEW j \in Job, RunSelect(j) \/ RunSelectFails(j) PROVE UNCHANGED handle
  BY <1>2 DEF RunSelect, RunSelectFails
<1>3. CASE CoordNext
  BY <1>1, <1>2, <1>3
     DEF CoordNext, WriterFails, RunStep, KillStep, ClientStep,
         RunSubscribe, RunAnnounce, RunDispatch, RunDispatchFails, RunDispatched, RunReceive,
         RunLagged, RunFinish, RunClientGone, KillCollect, KillSend, KillFails, KillAck,
         CreateLease, ReleaseLease, registryVars
<1>. QED BY <1>3 DEF Next, vars, coordVars, registryVars

\* What is kept of a task and its node changes in the critical section of a run request, or
\* by the handler of the task's own connection.
LEMMA OwnHandler ==
    ASSUME Sessions = 1, Ground, [Next]_vars, NEW t \in Task, NEW c \in Conn, c = ConnOf(t),
           ~HandlerStep(c), \A j \in Job : ~(RunSelect(j) \/ RunSelectFails(j))
    PROVE  /\ hpc'[c] = hpc[c] /\ cur'[c] = cur[c] /\ lost'[c] = lost[c]
           /\ handle'[NodeOf(c)] = handle[NodeOf(c)] /\ running'[NodeOf(c)] = running[NodeOf(c)]
           /\ rows'[t] = rows[t]
<1>. USE DEF Ground, Verdicts
<1>1. \A d \in Conn : NodeOf(d) = NodeOf(c) => d = c
  BY OneSession
<1>2. hpc'[c] = hpc[c] /\ cur'[c] = cur[c] /\ lost'[c] = lost[c]
  BY HandlerSteps
<1>3. handle'[NodeOf(c)] = handle[NodeOf(c)] /\ running'[NodeOf(c)] = running[NodeOf(c)]
  BY <1>1, RegistrySteps, Parts
<1>4. ASSUME NEW d \in Conn, toCoord[d] # <<>>, toCoord[d][1].type # "register",
             toCoord[d][1].task = t
      PROVE  d = c
  <2>1. 1 \in 1..Len(toCoord[d])
    BY <1>4, Pieces DEF Typed, TypeOK, WireTypeOK
  <2>. QED BY <1>1, <1>4, <2>1 DEF TasksAreKnown, KnownMessages, About
<1>5. ASSUME NEW d \in Conn, StoreFailed(d) \/ StoreLost(d), cur[d].task = t
      PROVE  d = c
  <2>1. cur[d].type # "register"
    BY <1>5 DEF StoreFailed, StoreLost, Typed, HandlingTask, TaskMessage
  <2>. QED BY <1>1, <1>5, <2>1 DEF TasksAreKnown, KnownMessages, About
<1>6. RowMoves(t)
  BY RowSteps
<1>7. rows'[t] = rows[t]
  BY <1>4, <1>5, <1>6 DEF RowMoves, HandlerStep
<1>. QED BY <1>2, <1>3, <1>7

\* A handler's step moves the row and the registry's count of a task together, except
\* between the two writes of one message.
LEMMA HandlerKeepsMatch ==
    ASSUME Ground, LedgerKept, NEW t \in Task, NEW c \in Conn, c = ConnOf(t), HandlerStep(c)
    PROVE  Matches(c, t)'
<1>. USE DEF Ground, Verdicts, Typed, TypeOK, CoordTypeOK, RegistryTypeOK, StoreTypeOK, HandlerTypeOK
<1>1. /\ Handling(c) => handle[NodeOf(c)] = c
      /\ hpc[c] = "new" => running[NodeOf(c)] = {}
      /\ lost[c] # {} => hpc[c] \in {"lost", "lostStore", "lostExit"}
      /\ hpc[c] = "lostStore" => cur[c].task \notin lost[c]
      /\ Matches(c, t) /\ NodeOf(c) \in Node
  BY Parts DEF LedgerKept, HandlersAreRegistered, LossesAreOnce
<1>2. rows[t] \in Row /\ rows \in [Task -> Row]
  OBVIOUS
<1>3. CASE StoreStarted(c) \/ StoreExited(c) \/ UntrackFailed(c) \/ ReceiveLine(c)
  <2>0. toCoord[c] # <<>> /\ hpc[c] = "read" /\ Take(c)
    BY <1>3 DEF StoreStarted, StoreExited, UntrackFailed, ReceiveLine, Incoming
  <2>1. cur'[c] = toCoord[c][1] /\ cur'[c] = Head(toCoord[c])
    BY <2>0, Pieces DEF Take, WireTypeOK
  <2>2. ASSUME NEW s, Incoming(c, s), s # "register" PROVE cur'[c].task \in Task
    BY <2>0, <2>1, <2>2, Pieces DEF Incoming, WireTypeOK, UpMessage, TaskMessage, Register
  <2>3. CASE StoreStarted(c)
    <3>1. /\ hpc'[c] = "track" /\ UNCHANGED <<lost, running>> /\ cur'[c].task \in Task
          /\ rows' = RecordTaskStarted(rows, cur'[c].task)
      BY <2>1, <2>2, <2>3 DEF StoreStarted, Goto, registryVars
    <3>2. rows'[t] = IF cur'[c].task = t THEN [rows[t] EXCEPT !.status = "running"] ELSE rows[t]
      BY <1>2, <3>1 DEF RecordTaskStarted
    <3>. QED BY <1>1, <1>2, <2>0, <3>1, <3>2 DEF Matches, InLimbo, IsOpen, Row
  <2>4. CASE StoreExited(c)
    <3>1. /\ hpc'[c] = "untrack" /\ UNCHANGED <<lost, running>> /\ cur'[c].task \in Task
          /\ rows' = RecordTaskExited(rows, cur'[c].task, cur'[c].ok)
      BY <2>1, <2>2, <2>4 DEF StoreExited, Goto, registryVars
    <3>2. rows'[t] = IF cur'[c].task = t
                     THEN [status |-> IF cur'[c].ok THEN "succeeded" ELSE "failed", exited |-> TRUE]
                     ELSE rows[t]
      BY <1>2, <3>1 DEF RecordTaskExited
    <3>. QED BY <1>1, <2>0, <3>1, <3>2 DEF Matches, InLimbo, IsOpen, IsSettled
  <2>5. CASE UntrackFailed(c)
    <3>1. /\ hpc'[c] = IF cur'[c].task \in running[NodeOf(c)] THEN "errorStore" ELSE "publish"
          /\ UNCHANGED <<lost, rows>> /\ running'[NodeOf(c)] = running[NodeOf(c)] \ {cur'[c].task}
      BY <1>1, <2>1, <2>5 DEF UntrackFailed, Goto, Untrack, storeVars
    <3>. QED BY <1>1, <2>0, <3>1 DEF Matches, InLimbo, IsOpen
  <2>6. CASE ReceiveLine(c)
    <3>1. hpc'[c] = "publish" /\ UNCHANGED <<lost, rows, running>>
      BY <2>6 DEF ReceiveLine, Goto, storeVars, registryVars
    <3>. QED BY <1>1, <2>0, <3>1 DEF Matches, InLimbo
  <2>. QED BY <1>3, <2>3, <2>4, <2>5, <2>6
<1>4. CASE RegisterWorker(c)
  <2>1. /\ hpc[c] = "new" /\ hpc'[c] = "read" /\ UNCHANGED <<lost, rows>>
        /\ running'[NodeOf(c)] = {}
    BY <1>1, <1>4 DEF RegisterWorker, Goto, storeVars
  <2>. QED BY <1>1, <2>1 DEF Matches, InLimbo
<1>5. CASE TrackStarted(c)
  <2>1. /\ hpc[c] = "track" /\ hpc'[c] = "publish" /\ UNCHANGED <<lost, rows, cur>>
        /\ running'[NodeOf(c)] = running[NodeOf(c)] \cup {cur[c].task}
    BY <1>1, <1>5, NoHandleAssumption DEF TrackStarted, Goto, Track, Connected, Handling, storeVars
  <2>. QED BY <1>1, <2>1 DEF Matches, InLimbo
<1>6. CASE UntrackExited(c)
  <2>1. /\ hpc[c] = "untrack" /\ hpc'[c] = "publish" /\ UNCHANGED <<lost, rows, cur>>
        /\ running'[NodeOf(c)] = running[NodeOf(c)] \ {cur[c].task}
    BY <1>1, <1>6 DEF UntrackExited, Goto, Untrack, storeVars
  <2>. QED BY <1>1, <2>1 DEF Matches, InLimbo, IsOpen, IsSettled
<1>7. CASE StoreFailed(c) \/ StoreLost(c)
  <2>1. /\ hpc[c] \in {"errorStore", "lostStore"} /\ hpc'[c] \in {"errorExit", "lostExit"}
        /\ UNCHANGED <<lost, running, cur>>
        /\ rows' = RecordTaskExited(rows, cur[c].task, FALSE)
    BY <1>7 DEF StoreFailed, StoreLost, Goto, registryVars
  <2>2. rows'[t] = IF cur[c].task = t THEN [status |-> "failed", exited |-> TRUE] ELSE rows[t]
    BY <1>2, <2>1 DEF RecordTaskExited
  <2>3. CASE cur[c].task = t
    <3>1. t \notin running[NodeOf(c)] /\ t \notin lost[c]
      BY <1>1, <2>1, <2>3 DEF Matches, InLimbo
    <3>2. rows'[t].status \notin {"queued", "running"}
      BY <2>2, <2>3
    <3>3. t \notin running'[NodeOf(c)] /\ t \notin lost'[c]
      BY <2>1, <3>1
    <3>. QED BY <2>1, <3>2, <3>3 DEF Matches, InLimbo, IsOpen
  <2>4. CASE cur[c].task # t
    BY <1>1, <2>1, <2>2, <2>4 DEF Matches, InLimbo
  <2>. QED BY <2>3, <2>4
<1>8. CASE PublishFailed(c) \/ Publish(c) \/ PublishLost(c)
  <2>1. /\ hpc[c] \in {"errorExit", "publish", "lostExit"} /\ hpc'[c] \in {"publish", "read", "lost"}
        /\ UNCHANGED <<lost, running, cur, rows>>
    BY <1>8 DEF PublishFailed, Publish, PublishLost, Goto, registryVars, storeVars
  <2>. QED BY <1>1, <2>1 DEF Matches, InLimbo
<1>9. CASE StreamCloses(c) \/ StreamFails(c) \/ AllLost(c)
  <2>1. hpc[c] \in {"read", "lost"} /\ hpc'[c] \in {"drop", "gone"} /\ UNCHANGED <<lost, running, cur, rows>>
    BY <1>9 DEF StreamCloses, StreamFails, AllLost, Goto, registryVars, storeVars
  <2>. QED BY <1>1, <2>1 DEF Matches, InLimbo
<1>10. CASE DropNode(c)
  <2>1. /\ hpc[c] = "drop" /\ hpc'[c] = "lost" /\ UNCHANGED <<cur, rows>>
        /\ lost'[c] = running[NodeOf(c)] /\ running'[NodeOf(c)] = {}
    BY <1>1, <1>10 DEF DropNode, Goto, storeVars
  <2>. QED BY <1>1, <2>1 DEF Matches, InLimbo
<1>11. CASE PublishLostLine(c)
  <2>1. PICK u \in lost[c] : /\ cur' = [cur EXCEPT ![c] = TaskExited(u, FALSE)]
                             /\ lost' = [lost EXCEPT ![c] = @ \ {u}]
    BY <1>11 DEF PublishLostLine
  <2>2. /\ hpc[c] = "lost" /\ hpc'[c] = "lostStore" /\ UNCHANGED <<running, rows>>
        /\ cur'[c].task = u /\ lost'[c] = lost[c] \ {u}
    BY <1>11, <2>1 DEF PublishLostLine, Goto, storeVars, registryVars, TaskExited
  <2>. QED BY <1>1, <2>1, <2>2 DEF Matches, InLimbo
<1>. QED BY <1>3, <1>4, <1>5, <1>6, <1>7, <1>8, <1>9, <1>10, <1>11 DEF HandlerStep

\* create_run writes the rows and counts the tasks in one critical section.
LEMMA SelectionKeepsMatch ==
    ASSUME Ground, LedgerKept, NEW t \in Task, NEW c \in Conn, c = ConnOf(t), NEW j \in Job,
           RunSelect(j) \/ RunSelectFails(j)
    PROVE  Matches(c, t)'
<1>. USE DEF Ground, Verdicts
<1>1. PICK nodes \in SUBSET Connected : Selected(j, nodes)
  BY Selections
<1>2. /\ UNCHANGED <<hpc, cur, lost>>
      /\ running' = [n \in Node |-> IF n \in nodes THEN running[n] \cup TasksOf(j, {n}) ELSE running[n]]
  BY <1>1 DEF Selected, RecordAssignments, handlerVars
<1>3. /\ \A u \in TasksOf(j, nodes) : u \notin Known
      /\ \A n \in nodes : \A u \in TasksOf(j, {n}) : u \in TasksOf(j, nodes) /\ NodeOf(ConnOf(u)) = n
      /\ rows'[t] = IF t \in TasksOf(j, nodes) THEN [rows[t] EXCEPT !.status = "queued"] ELSE rows[t]
  BY <1>1, SelectedAreNew DEF TasksAreKnown
<1>4. Matches(c, t) /\ NodeOf(c) \in Node /\ rows[t] \in Row
  BY Parts DEF LedgerKept, Typed, TypeOK, CoordTypeOK, StoreTypeOK
<1>5. CASE t \in TasksOf(j, nodes)
  <2>1. PICK n \in nodes : t = <<j, handle[n]>>
    BY <1>5 DEF TasksOf
  <2>2. t \in TasksOf(j, {n})
    BY <2>1 DEF TasksOf
  <2>3. n \in Node /\ n = NodeOf(c)
    BY <1>3, <2>2 DEF Connected
  <2>4. t \in running'[NodeOf(c)]
    BY <1>2, <2>2, <2>3
  <2>5. t \notin lost[c]
    BY <1>3, <1>5 DEF TasksAreKnown, KnownMessages
  <2>6. hpc[c] \in {"track", "untrack", "errorStore", "lostStore"} => cur[c].task # t
    <3>1. hpc[c] \in {"track", "untrack", "errorStore", "lostStore"} => cur[c].type # "register"
      BY DEF Typed, HandlingTask, TaskMessage
    <3>. QED BY <1>3, <1>5, <3>1 DEF TasksAreKnown, KnownMessages, About
  <2>7. rows'[t].status = "queued"
    BY <1>3, <1>4, <1>5 DEF Row
  <2>. QED BY <1>2, <2>4, <2>5, <2>6, <2>7 DEF Matches, InLimbo, IsOpen
<1>6. CASE t \notin TasksOf(j, nodes)
  <2>1. t \in running'[NodeOf(c)] <=> t \in running[NodeOf(c)]
    BY <1>2, <1>3, <1>4, <1>6
  <2>. QED BY <1>2, <1>3, <1>4, <1>6, <2>1 DEF Matches, InLimbo
<1>. QED BY <1>5, <1>6

\* The rows of the store and the running tasks of the registry stay in step.
LEMMA NextLedger ==
    ASSUME Sessions = 1, Ground, LedgerKept, [Next]_vars
    PROVE  LedgerKept'
<1>. USE DEF Ground, Verdicts
<1>1. ASSUME NEW t \in Task, NEW c \in Conn, c = ConnOf(t) PROVE Matches(c, t)'
  <2>1. CASE HandlerStep(c)
    BY <1>1, <2>1, HandlerKeepsMatch
  <2>2. CASE \E j \in Job : RunSelect(j) \/ RunSelectFails(j)
    BY <1>1, <2>2, SelectionKeepsMatch
  <2>3. CASE ~HandlerStep(c) /\ \A j \in Job : ~(RunSelect(j) \/ RunSelectFails(j))
    <3>1. /\ hpc'[c] = hpc[c] /\ cur'[c] = cur[c] /\ lost'[c] = lost[c]
          /\ running'[NodeOf(c)] = running[NodeOf(c)] /\ rows'[t] = rows[t]
      BY <1>1, <2>3, OwnHandler
    <3>2. Matches(c, t)
      BY <1>1 DEF LedgerKept
    <3>. QED BY <3>1, <3>2 DEF Matches, InLimbo
  <2>. QED BY <2>1, <2>2, <2>3
<1>2. ASSUME NEW c \in Conn
      PROVE  /\ lost'[c] # {} => hpc'[c] \in {"lost", "lostStore", "lostExit"}
             /\ hpc'[c] = "lostStore" => cur'[c].task \notin lost'[c]
  <2>. USE DEF Typed, TypeOK, CoordTypeOK, HandlerTypeOK
  <2>1. /\ lost[c] # {} => hpc[c] \in {"lost", "lostStore", "lostExit"}
        /\ hpc[c] = "lostStore" => cur[c].task \notin lost[c]
    BY DEF LedgerKept, LossesAreOnce
  <2>2. CASE PublishLostLine(c)
    <3>1. PICK u \in lost[c] : /\ cur' = [cur EXCEPT ![c] = TaskExited(u, FALSE)]
                               /\ lost' = [lost EXCEPT ![c] = @ \ {u}]
      BY <2>2 DEF PublishLostLine
    <3>2. hpc'[c] = "lostStore" /\ cur'[c].task = u /\ lost'[c] = lost[c] \ {u}
      BY <2>2, <3>1 DEF PublishLostLine, Goto, TaskExited
    <3>. QED BY <3>2
  <2>3. CASE HandlerStep(c) /\ ~PublishLostLine(c)
    BY <2>1, <2>3
       DEF HandlerStep, RegisterWorker, StoreStarted, TrackStarted, ReceiveLine, StoreExited,
           UntrackExited, UntrackFailed, StoreFailed, PublishFailed, Publish, StreamCloses,
           StreamFails, DropNode, StoreLost, PublishLost, AllLost, Incoming, Goto
  <2>. QED BY <2>1, <2>2, <2>3, HandlerSteps
<1>3. ASSUME NEW c \in Conn
      PROVE  /\ Handling(c)' => handle'[NodeOf(c)] = c
             /\ hpc'[c] = "new" => handle'[NodeOf(c)] = NoHandle /\ running'[NodeOf(c)] = {}
  <2>. USE DEF Typed, TypeOK, CoordTypeOK, HandlerTypeOK, RegistryTypeOK
  <2>1. /\ Handling(c) => handle[NodeOf(c)] = c
        /\ hpc[c] = "new" => handle[NodeOf(c)] = NoHandle /\ running[NodeOf(c)] = {}
        /\ NodeOf(c) \in Node
    BY Parts DEF LedgerKept, HandlersAreRegistered
  <2>2. CASE HandlerStep(c)
    <3>1. CASE RegisterWorker(c) \/ DropNode(c)
      BY <2>1, <3>1 DEF RegisterWorker, DropNode, Goto, Handling
    <3>2. CASE UNCHANGED handle /\ hpc'[c] # "new" /\ (Handling(c)' => Handling(c))
      BY <2>1, <3>2
    <3>3. CASE ~RegisterWorker(c) /\ ~DropNode(c)
      BY <2>2, <3>2, <3>3
         DEF HandlerStep, StoreStarted, TrackStarted, ReceiveLine, StoreExited,
             UntrackExited, UntrackFailed, StoreFailed, PublishFailed, Publish, StreamCloses,
             StreamFails, PublishLostLine, StoreLost, PublishLost, AllLost, Incoming, Goto,
             Handling, registryVars
    <3>. QED BY <3>1, <3>3
  <2>3. CASE ~HandlerStep(c)
    <3>1. hpc'[c] = hpc[c]
      BY <2>3, HandlerSteps
    <3>2. \/ handle'[NodeOf(c)] = handle[NodeOf(c)] /\ running'[NodeOf(c)] = running[NodeOf(c)]
          \/ UNCHANGED handle /\ \E j \in Job : RunSelect(j) \/ RunSelectFails(j)
      BY <2>1, <2>3, OneSession, RegistrySteps
    <3>3. ASSUME NEW j \in Job, RunSelect(j) \/ RunSelectFails(j), handle[NodeOf(c)] = NoHandle
          PROVE  running'[NodeOf(c)] = running[NodeOf(c)]
      <4>1. PICK nodes \in SUBSET Connected : Selected(j, nodes)
        BY <3>3, Selections
      <4>2. NodeOf(c) \notin nodes
        BY <3>3, <4>1 DEF Connected
      <4>. QED BY <2>1, <4>1, <4>2 DEF Selected, RecordAssignments
    <3>. QED BY <2>1, <3>1, <3>2, <3>3 DEF Handling
  <2>. QED BY <2>2, <2>3
<1>4. \A t \in Task : Matches(ConnOf(t), t)'
  BY <1>1, Parts
<1>5. HandlersAreRegistered' /\ LossesAreOnce'
  BY <1>2, <1>3 DEF HandlersAreRegistered, LossesAreOnce
<1>. QED BY <1>4, <1>5 DEF LedgerKept

\* A connection whose handler writes down a failure for a task is the task's own.
LEMMA FailsItsOwn ==
    ASSUME Sessions = 1, Ground, NEW c \in Conn, StoreFailed(c) \/ StoreLost(c),
           NEW t \in Task, cur[c].task = t
    PROVE  c = ConnOf(t) /\ hpc[c] \in {"errorStore", "lostStore"}
<1>1. hpc[c] \in {"errorStore", "lostStore"}
  BY DEF StoreFailed, StoreLost
<1>2. cur[c].type # "register"
  BY <1>1 DEF Ground, Verdicts, Typed, HandlingTask, TaskMessage
<1>3. NodeOf(c) = NodeOf(ConnOf(t))
  BY <1>2 DEF Ground, TasksAreKnown, KnownMessages, About
<1>. QED BY <1>1, <1>3, OneSession, Parts

\* The tasks the store calls a success.
Stored == {t \in Task : rows[t].status = "succeeded"}

\* A late error finds its task off the registry, and so does a lost worker.
LEMMA SuccessStays ==
    ASSUME Sessions = 1, Ground, Reporting, LedgerKept, [Next]_vars
    PROVE  /\ \A t \in Stored : rows'[t] = rows[t]
           /\ Stored \subseteq Stored'
<1>1. ASSUME NEW t \in Stored PROVE rows'[t] = rows[t]
  <2>1. t \in Task /\ t \in Closed /\ rows[t].status = "succeeded"
    BY DEF Stored, Closed
  <2>2. ASSUME NEW c \in Conn, StoreFailed(c) \/ StoreLost(c), cur[c].task = t PROVE FALSE
    <3>1. c = ConnOf(t) /\ hpc[c] \in {"errorStore", "lostStore"}
      BY <2>1, <2>2, FailsItsOwn
    <3>2. IsOpen(rows[t])
      BY <2>1, <2>2, <3>1 DEF LedgerKept, Matches, InLimbo
    <3>. QED BY <2>1, <3>2 DEF IsOpen
  <2>. QED BY <2>1, <2>2, ClosedStays
<1>. QED BY <1>1 DEF Stored

\* A success is in the store before anybody is told of it.
SuccessesAreTold ==
    /\ \A c \in Conn : hpc[c] \in {"untrack", "publish"} => Honest(cur[c], Stored)
    /\ \A j \in Job :
        /\ \A i \in 1..Len(sub[j]) : Honest(sub[j][i], Stored)
        /\ rpc[j] = "waiting" /\ allOk[j] => assigned[j] \subseteq pending[j] \cup Stored
        /\ rpc[j] = "ok" => assigned[j] \subseteq Stored

\* A success is told of a row that says so, for good.
LEMMA NextSuccesses ==
    ASSUME Sessions = 1, Ground, Reporting, LedgerKept, SuccessesAreTold, [Next]_vars
    PROVE  SuccessesAreTold'
<1>. USE DEF Ground, Reporting, Verdicts
<1>1. Stored \subseteq Stored' /\ \A m : Honest(m, Stored) => Honest(m, Stored')
  BY SuccessStays DEF Honest
<1>2. ASSUME NEW c \in Conn, hpc'[c] \in {"untrack", "publish"} PROVE Honest(cur'[c], Stored')
  <2>. USE DEF Typed, TypeOK, CoordTypeOK, HandlerTypeOK
  <2>1. CASE hpc'[c] = hpc[c] /\ cur'[c] = cur[c]
    BY <1>1, <1>2, <2>1 DEF SuccessesAreTold
  <2>2. CASE StoreExited(c)
    <3>1. cur'[c] = Head(toCoord[c]) /\ Head(toCoord[c]) \in UpMessage
      BY <2>2, Pieces DEF StoreExited, Incoming, Take, WireTypeOK
    <3>2. cur'[c].type = "exited" /\ cur'[c] \in TaskMessage
      BY <2>2, <3>1 DEF StoreExited, Incoming, UpMessage, Register
    <3>3. rows' = RecordTaskExited(rows, cur'[c].task, cur'[c].ok)
      BY <2>2, <3>1 DEF StoreExited
    <3>4. cur'[c].ok => rows'[cur'[c].task].status = "succeeded"
      BY <3>2, <3>3 DEF RecordTaskExited, StoreTypeOK, TaskMessage
    <3>. QED BY <3>2, <3>4 DEF Stored, Honest, TaskMessage
  <2>3. CASE UntrackFailed(c) \/ ReceiveLine(c)
    <3>1. cur'[c] = Head(toCoord[c]) /\ Head(toCoord[c]).type # "exited"
      BY <2>3 DEF UntrackFailed, ReceiveLine, Incoming, Take
    <3>. QED BY <3>1 DEF Honest
  <2>4. CASE TrackStarted(c) \/ PublishFailed(c)
    <3>1. cur'[c] = cur[c] /\ cur[c].type # "exited"
      BY <2>4 DEF TrackStarted, PublishFailed, HandlingTask
    <3>. QED BY <3>1 DEF Honest
  <2>5. CASE UntrackExited(c)
    BY <1>1, <2>5 DEF UntrackExited, SuccessesAreTold
  <2>6. CASE \/ RegisterWorker(c) \/ StoreStarted(c) \/ Publish(c) \/ StreamCloses(c)
             \/ StreamFails(c) \/ DropNode(c) \/ PublishLostLine(c) \/ StoreLost(c)
             \/ PublishLost(c) \/ AllLost(c) \/ StoreFailed(c)
    BY <1>2, <2>6 DEF RegisterWorker, StoreStarted, Publish, StreamCloses, StreamFails, DropNode,
                PublishLostLine, StoreLost, PublishLost, AllLost, StoreFailed, Goto
  <2>. QED BY <2>1, <2>2, <2>3, <2>4, <2>5, <2>6, HandlerSteps DEF HandlerStep
<1>3. ASSUME NEW j \in Job
      PROVE  \A i \in 1..Len(sub'[j]) : Honest(sub'[j][i], Stored')
  <2>1. \A i \in 1..Len(sub[j]) : Honest(sub[j][i], Stored')
    BY <1>1 DEF SuccessesAreTold
  <2>2. ASSUME NEW m, More(sub'[j], sub[j], m), Honest(m, Stored')
        PROVE  \A i \in 1..Len(sub'[j]) : Honest(sub'[j][i], Stored')
    BY <2>1, <2>2 DEF More
  <2>3. CASE Part(sub'[j], sub[j])
    BY <2>1, <2>3 DEF Part
  <2>4. ASSUME NEW c \in Conn, Publish(c) PROVE Honest(cur[c], Stored')
    BY <1>1, <2>4 DEF Publish, SuccessesAreTold
  <2>5. ASSUME NEW c \in Conn, PublishLost(c) PROVE Honest(cur[c], Stored')
    BY <2>5 DEF PublishLost, EndsAreKnown, Honest
  <2>6. \A t : Honest(TaskExited(t, FALSE), Stored') /\ Honest(SystemLine(t), Stored')
    BY DEF Honest, TaskExited, SystemLine
  <2>. QED BY <2>2, <2>3, <2>4, <2>5, <2>6, SubSteps DEF SubMoves
<1>4. ASSUME NEW j \in Job
      PROVE  /\ rpc'[j] = "waiting" /\ allOk'[j] => assigned'[j] \subseteq pending'[j] \cup Stored'
             /\ rpc'[j] = "ok" => assigned'[j] \subseteq Stored'
  <2>. USE DEF Typed, TypeOK, CoordTypeOK, RunTypeOK
  <2>1. /\ rpc[j] = "waiting" /\ allOk[j] => assigned[j] \subseteq pending[j] \cup Stored'
        /\ rpc[j] = "ok" => assigned[j] \subseteq Stored'
    BY <1>1 DEF SuccessesAreTold
  <2>2. CASE /\ rpc'[j] = rpc[j] /\ assigned'[j] = assigned[j]
             /\ pending'[j] = pending[j] /\ allOk'[j] = allOk[j]
    BY <2>1, <2>2
  <2>3. CASE RunReceive(j)
    <3>. DEFINE e == Head(sub[j])
    <3>1. sub[j] \in Seq(TaskMessage) /\ sub[j] # <<>>
      BY <2>3 DEF RunReceive
    <3>2. e = sub[j][1] /\ 1 \in 1..Len(sub[j])
      BY <3>1, Pieces
    <3>3. Honest(e, Stored')
      BY <1>1, <3>2 DEF SuccessesAreTold
    <3>4. /\ rpc[j] = "waiting" /\ rpc'[j] = rpc[j] /\ assigned'[j] = assigned[j]
          /\ allOk'[j] => allOk[j]
          /\ \/ pending'[j] = pending[j]
             \/ e.type = "exited" /\ pending'[j] = pending[j] \ {e.task} /\ (allOk'[j] => e.ok)
      BY <2>3 DEF RunReceive
    <3>. QED BY <2>1, <3>3, <3>4 DEF Honest
  <2>4. CASE RunFinish(j)
    BY <2>1, <2>4 DEF RunFinish, RunGoto
  <2>5. CASE RunDispatched(j)
    BY <2>5 DEF RunDispatched, RunGoto
  <2>6. CASE RunMove(j) /\ ~RunReceive(j) /\ ~RunFinish(j) /\ ~RunDispatched(j)
    BY <2>6
       DEF RunMove, RunStep, RunSelect, RunSelectFails, RunSubscribe, RunAnnounce, RunDispatch,
           RunDispatchFails, RunLagged, RunClientGone, RunGoto
  <2>. QED BY <2>2, <2>3, <2>4, <2>5, <2>6, RunSteps
<1>. QED BY <1>2, <1>3, <1>4 DEF SuccessesAreTold

\* The inductive invariant of the ledger.
LedgerInv == ReportInv /\ LedgerKept /\ SuccessesAreTold

\* No row is open and no task is counted at first ...
LEMMA LedgerInit == Init => LedgerInv
<1>. SUFFICES ASSUME Init PROVE LedgerInv
  OBVIOUS
<1>. USE DEF Init, WireInit, CoordInit, WorkerInit
<1>1. HandlersAreRegistered /\ LossesAreOnce
  BY Parts DEF HandlersAreRegistered, LossesAreOnce, Handling
<1>2. \A t \in Task : Matches(ConnOf(t), t)
  BY Parts DEF Matches, InLimbo, IsOpen, NoRow
<1>3. SuccessesAreTold
  BY DEF SuccessesAreTold
<1>. QED BY <1>1, <1>2, <1>3, ReportInit DEF LedgerInv, LedgerKept

\* ... and as long as each node has its first connection, each step keeps them in step.
LEMMA LedgerInductive ==
    ASSUME Sessions = 1
    PROVE  LedgerInv /\ [Next]_vars => LedgerInv'
BY ReportInductive, NextLedger, NextSuccesses DEF LedgerInv, ReportInv

\* Between two messages of a node's connection, kill_job finds a task of that node exactly
\* when job_status calls it queued or running, as long as the node has its first connection.
THEOREM LedgersAgree ==
    ASSUME Sessions = 1
    PROVE  Spec => []LedgerAgrees
<1>1. LedgerInv => LedgerAgrees
  <2>. SUFFICES ASSUME LedgerInv, NEW t \in Task, Between(ConnOf(t))
                PROVE  t \in running[NodeOf(ConnOf(t))] <=> IsOpen(rows[t])
    BY DEF LedgerAgrees
  <2>1. hpc[ConnOf(t)] \in {"new", "read", "gone"} /\ lost[ConnOf(t)] = {}
    BY Parts DEF Between, LedgerInv, LedgerKept, LossesAreOnce
  <2>. QED BY <2>1 DEF LedgerInv, LedgerKept, Matches, InLimbo
<1>. QED BY <1>1, LedgerInit, LedgerInductive, PTL DEF Spec

\* A recorded success is never taken back, not even by a late error or a lost worker.
THEOREM SuccessesAreFinal ==
    ASSUME Sessions = 1
    PROVE  Spec => SuccessIsFinal
<1>1. LedgerInv /\ [Next]_vars =>
          [\A t \in Task : rows[t].status = "succeeded" => rows'[t] = rows[t]]_vars
  BY SuccessStays DEF LedgerInv, ReportInv, Stored
<1>. QED BY <1>1, LedgerInit, LedgerInductive, PTL DEF Spec, SuccessIsFinal

\* A job reported to its client as a success is one in the store, then and from then on,
\* whatever is killed, lost or cut off.
THEOREM SuccessesAgree ==
    ASSUME Sessions = 1
    PROVE  Spec => []SuccessAgrees
<1>1. LedgerInv => SuccessAgrees
  BY DEF LedgerInv, SuccessesAreTold, Stored, SuccessAgrees, JobStatus, IsOpen
<1>. QED BY <1>1, LedgerInit, LedgerInductive, PTL DEF Spec

------------------------------------------------------------------------------
(* Failures, while each node has its first connection and nothing is killed *)

\* Only what a client may ask to kill is killed.
LEMMA NextKilled ==
    ASSUME Typed, Killed \subseteq Killable, [Next]_vars
    PROVE  Killed' \subseteq Killable
<1>. SUFFICES ASSUME NEW j \in Job, kpc'[j] # "idle" PROVE j \in Killable
  BY DEF Killed
<1>1. CASE KillCollect(j)
  BY <1>1 DEF KillCollect
<1>2. CASE KillStep(j)
  BY <1>2 DEF KillStep, KillSend, KillFails, KillAck, Killed
<1>. QED BY <1>1, <1>2, KillSteps DEF Killed

\* Then every outcome in the store is final: a report of a task whose connection ended is
\* read before the task is given up, and one the registry does not know is not given up.
LEMMA SettledStays ==
    ASSUME Sessions = 1, Killed = {}, Ground, Reporting, LedgerKept, [Next]_vars,
           NEW t \in Task, IsSettled(rows[t])
    PROVE  rows'[t] = rows[t]
<1>. USE DEF Ground, Verdicts
<1>1. CASE t \notin GivenUp
  BY <1>1, OutcomeStays
<1>2. CASE t \in GivenUp
  <2>1. ConnOf(t) \in Dropped
    <3>1. PICK d \in Dropped : NodeOf(d) = NodeOf(ConnOf(t))
      BY <1>2 DEF GivenUp
    <3>. QED BY <3>1, OneSession, Parts DEF Dropped
  <2>2. t \in Known
    BY DEF TasksAreKnown, KnownTasks, IsSettled
  <2>3. ASSUME NEW j \in Job, RunSelect(j) \/ RunSelectFails(j), t \in assigned'[j] PROVE FALSE
    <3>1. PICK nodes \in SUBSET Connected : Selected(j, nodes)
      BY <2>3, Selections
    <3>. QED BY <2>2, <2>3, <3>1, SelectedAreNew DEF TasksAreKnown
  <2>4. ASSUME NEW c \in Conn, StoreStarted(c) \/ StoreExited(c), toCoord[c] # <<>>,
               toCoord[c][1].type \in {"started", "exited"}, toCoord[c][1].task = t
        PROVE  FALSE
    <3>1. c = ConnOf(t)
      BY <2>4, FirstReport DEF Reporting
    <3>2. hpc[c] = "read"
      BY <2>4 DEF StoreStarted, StoreExited, Incoming
    <3>. QED BY <2>1, <3>1, <3>2 DEF Dropped
  <2>5. ASSUME NEW c \in Conn, StoreFailed(c) \/ StoreLost(c), cur[c].task = t PROVE FALSE
    <3>1. c = ConnOf(t) /\ hpc[c] \in {"errorStore", "lostStore"}
      BY <2>5, FailsItsOwn
    <3>2. IsOpen(rows[t])
      BY <2>5, <3>1 DEF LedgerKept, Matches, InLimbo
    <3>. QED BY <3>2 DEF IsOpen, IsSettled
  <2>6. RowMoves(t)
    BY RowSteps
  <2>. QED BY <2>3, <2>4, <2>5, <2>6 DEF RowMoves
<1>. QED BY <1>1, <1>2

\* An exit is in the store with its outcome ...
ExitsAreSettled == \A t \in Task : rows[t].exited => IsSettled(rows[t])

\* A row that has an exit has an outcome.
LEMMA NextSettled ==
    ASSUME Sessions = 1, Killed = {}, Ground, Reporting, LedgerKept, ExitsAreSettled, [Next]_vars
    PROVE  ExitsAreSettled'
<1>. SUFFICES ASSUME NEW t \in Task, rows'[t].exited PROVE IsSettled(rows'[t])
  BY DEF ExitsAreSettled
<1>1. CASE IsSettled(rows[t])
  BY <1>1, SettledStays
<1>2. CASE ~IsSettled(rows[t])
  <2>1. ~rows[t].exited /\ rows[t] \in Row
    BY <1>2 DEF ExitsAreSettled, Ground, Verdicts, Typed, TypeOK, CoordTypeOK, StoreTypeOK
  <2>2. rows'[t] # rows[t] /\ \A s : rows'[t] # [rows[t] EXCEPT !.status = s]
    BY <2>1 DEF Row
  <2>3. \E success \in BOOLEAN :
            rows'[t] = [status |-> IF success THEN "succeeded" ELSE "failed", exited |-> TRUE]
    <3>1. RowMoves(t)
      BY RowSteps DEF Ground, Verdicts
    <3>2. CASE \E c \in Conn : StoreExited(c) /\ toCoord[c] # <<>>
                 /\ toCoord[c][1].type = "exited" /\ toCoord[c][1].task = t
                 /\ rows'[t] = [status |-> IF toCoord[c][1].ok THEN "succeeded" ELSE "failed",
                                exited |-> TRUE]
      BY <3>2
    <3>. QED BY <2>2, <3>1, <3>2 DEF RowMoves
  <2>. QED BY <2>3 DEF IsSettled
<1>. QED BY <1>1, <1>2

\* ... a failure is in the store before anybody is told of it ...
Failed == {t \in Task : rows[t].status = "failed"}
FailuresAreStored ==
    /\ FailuresIn(Failed)
    /\ \A c \in Conn : hpc[c] = "lostExit" => cur[c].task \in Failed

\* Without kills, a failure that was told is written down already.
LEMMA NextStored ==
    ASSUME Sessions = 1, Killed = {}, Ground, Reporting, LedgerKept, FailuresAreStored, [Next]_vars
    PROVE  FailuresAreStored'
<1>1. Failed \subseteq Failed'
  BY SettledStays DEF Failed, IsSettled
<1>2. \A t \in Task : rows'[t].status = "failed" => t \in Failed'
  BY DEF Failed
<1>3. FailuresIn(Failed)'
  BY <1>1, <1>2, FailuresPass DEF FailuresAreStored, FailuresIn
<1>4. ASSUME NEW c \in Conn, hpc'[c] = "lostExit" PROVE cur'[c].task \in Failed'
  <2>. USE DEF Ground, Verdicts, Typed, TypeOK, CoordTypeOK, HandlerTypeOK
  <2>1. CASE hpc'[c] = hpc[c] /\ cur'[c] = cur[c]
    BY <1>1, <1>4, <2>1 DEF FailuresAreStored
  <2>2. CASE StoreLost(c)
    <3>1. /\ cur'[c] = cur[c] /\ cur[c].task \in Task
          /\ rows' = RecordTaskExited(rows, cur[c].task, FALSE)
      BY <2>2 DEF StoreLost, HandlingTask, TaskMessage
    <3>. QED BY <3>1 DEF RecordTaskExited, StoreTypeOK, Failed
  <2>3. CASE HandlerStep(c) /\ ~StoreLost(c)
    BY <1>4, <2>3
       DEF HandlerStep, RegisterWorker, StoreStarted, TrackStarted, ReceiveLine, StoreExited,
           UntrackExited, UntrackFailed, StoreFailed, PublishFailed, Publish, StreamCloses,
           StreamFails, DropNode, PublishLostLine, PublishLost, AllLost, Goto
  <2>. QED BY <2>1, <2>2, <2>3, HandlerSteps
<1>. QED BY <1>3, <1>4 DEF FailuresAreStored

\* ... and a job is reported a failure for one of its tasks.
FailedIsNotOk == \A j \in Job : rpc[j] = "failed" => ~allOk[j]

\* A request that answers with a failure has seen one.
LEMMA NextNotOk ==
    ASSUME Typed, FailedIsNotOk, [Next]_vars
    PROVE  FailedIsNotOk'
<1>. SUFFICES ASSUME NEW j \in Job, rpc'[j] = "failed" PROVE ~allOk'[j]
  BY DEF FailedIsNotOk
<1>. USE DEF Typed, TypeOK, CoordTypeOK, RunTypeOK
<1>1. CASE rpc'[j] = rpc[j] /\ allOk'[j] = allOk[j]
  BY <1>1 DEF FailedIsNotOk
<1>2. CASE RunMove(j)
  BY <1>2
     DEF RunMove, RunStep, RunSelect, RunSelectFails, RunSubscribe, RunAnnounce, RunDispatch,
         RunDispatchFails, RunDispatched, RunReceive, RunLagged, RunFinish, RunClientGone, RunGoto
<1>. QED BY <1>1, <1>2, RunSteps

\* The inductive invariant of the outcomes.
OutcomeInv ==
    /\ LedgerInv /\ ExitsAreRecorded
    /\ Killed \subseteq Killable /\ ExitsAreSettled /\ FailuresAreStored /\ FailedIsNotOk

\* No outcome is known at first ...
LEMMA OutcomeInit == Init => OutcomeInv
<1>. SUFFICES ASSUME Init PROVE OutcomeInv
  OBVIOUS
<1>. USE DEF Init, WireInit, CoordInit, WorkerInit
<1>1. Killed \subseteq Killable /\ ExitsAreSettled /\ FailuresAreStored /\ FailedIsNotOk
  BY DEF Killed, ExitsAreSettled, NoRow, FailuresAreStored, FailuresIn, FailedIsNotOk
<1>. QED BY <1>1, LedgerInit, InitRecords DEF OutcomeInv

\* ... and without kills, and with one connection of each node, none changes.
LEMMA OutcomeInductive ==
    ASSUME Sessions = 1, Killable = {}
    PROVE  OutcomeInv /\ [Next]_vars => OutcomeInv'
<1>. SUFFICES ASSUME OutcomeInv, [Next]_vars PROVE OutcomeInv'
  OBVIOUS
<1>1. Ground /\ Reporting /\ LedgerKept /\ Typed /\ Killed = {}
  BY DEF OutcomeInv, LedgerInv, ReportInv, Ground, Verdicts
<1>2. LedgerInv'
  BY LedgerInductive DEF OutcomeInv
<1>3. ExitsAreRecorded' /\ Killed' \subseteq Killable /\ FailedIsNotOk'
  BY <1>1, NextRecords, NextKilled, NextNotOk DEF OutcomeInv
<1>4. ExitsAreSettled' /\ FailuresAreStored'
  BY <1>1, NextSettled, NextStored DEF OutcomeInv
<1>. QED BY <1>2, <1>3, <1>4 DEF OutcomeInv

\* Without kill requests, no outcome in the store ever changes, as long as each node has
\* its first connection.
THEOREM OutcomesAreFinal ==
    ASSUME Sessions = 1, Killable = {}
    PROVE  Spec => OutcomeIsFinal
<1>1. OutcomeInv /\ [Next]_vars => [\A t \in Task : IsSettled(rows[t]) => rows'[t] = rows[t]]_vars
  <2>1. OutcomeInv => Ground /\ Reporting /\ LedgerKept /\ Killed = {}
    BY DEF OutcomeInv, LedgerInv, ReportInv
  <2>. QED BY <2>1, SettledStays
<1>. QED BY <1>1, OutcomeInit, OutcomeInductive, PTL DEF Spec, OutcomeIsFinal

\* And then what JobFinished said is what job_status says from then on, of failures too.
THEOREM ReportsAgree ==
    ASSUME Sessions = 1, Killable = {}
    PROVE  Spec => []ReportAgrees
<1>1. OutcomeInv => ReportAgrees
  <2>. SUFFICES ASSUME OutcomeInv, NEW j \in Job
                PROVE  /\ rpc[j] = "ok" => JobStatus(rows, assigned[j]) = "succeeded"
                       /\ rpc[j] = "failed" => JobStatus(rows, assigned[j]) = "failed"
    BY DEF ReportAgrees
  <2>1. ASSUME rpc[j] = "ok" PROVE JobStatus(rows, assigned[j]) = "succeeded"
    BY <2>1 DEF OutcomeInv, LedgerInv, SuccessesAreTold, Stored, JobStatus, IsOpen
  <2>2. ASSUME rpc[j] = "failed" PROVE JobStatus(rows, assigned[j]) = "failed"
    <3>1. assigned[j] \subseteq Task
      BY DEF OutcomeInv, LedgerInv, ReportInv, Ground, Verdicts, Typed, TypeOK, CoordTypeOK, RunTypeOK
    <3>2. \A t \in assigned[j] : ~IsOpen(rows[t])
      BY <2>2, <3>1 DEF OutcomeInv, ExitsAreRecorded, WaitersRecorded, ExitsAreSettled, IsSettled, IsOpen
    <3>3. \E t \in assigned[j] : rows[t].status = "failed"
      BY <2>2 DEF OutcomeInv, FailedIsNotOk, FailuresAreStored, FailuresIn, Failed
    <3>. QED BY <3>2, <3>3 DEF JobStatus
  <2>. QED BY <2>1, <2>2
<1>. QED BY <1>1, OutcomeInit, OutcomeInductive, PTL DEF Spec
=============================================================================
