------------------------------ MODULE Requests ------------------------------
(***************************************************************************)
(* agentctl and the coordinator's handlers of its requests: one connection *)
(* for each request, whose responses the client reads up to the first that *)
(* is final.  This module keeps what Coordinator leaves out: the registry  *)
(* lock, which run_process and create_lease hold while they send an error  *)
(* response, the client's socket, the client's exit status, and the ranks  *)
(* agentctl gives to the nodes of a torchrun.                              *)
(*                                                                         *)
(* Workers are what the registry says of them, and the broadcast of their  *)
(* events.  Which leases conflict is the subject of Leases: here a lease   *)
(* request is granted or refused, and a lease that a torchrun names stands *)
(* for the list of its nodes, and may be released at any time.             *)
(***************************************************************************)
EXTENDS Integers, Sequences, FiniteSets

CONSTANTS
    Client,     \* the invocations of agentctl
    Leasing,    \* those that create a lease; the others run a command
    Ranked,     \* those that run it with torchrun
    Node,       \* node ids
    Names,      \* bound: Names[r] are the lists of nodes its user may name, <<>> for none
    Leases,     \* bound: the lists of nodes of the leases its user may name
    SockCap,    \* responses that fit between a handler and its client
    Errors,     \* bound: error events of workers
    NoClient    \* the holder of a lock that is free

ASSUME ClientAssumption ==
    /\ Leasing \subseteq Client /\ Ranked \subseteq Client
    /\ Leasing \cap Ranked = {}
    /\ NoClient \notin Client
ASSUME NamesAssumption == Names \in [Client -> SUBSET Seq(Node)]
ASSUME LeasesAssumption == Leases \subseteq Seq(Node) \ {<<>>}
ASSUME SockCapAssumption == SockCap \in Nat \ {0}
ASSUME ErrorsAssumption == Errors \in Nat

VARIABLES
    (* the registry *)
    lock,        \* the client whose handler holds AppState.inner, or NoClient
    connected,   \* the nodes in AppState.inner.nodes
    (* agentctl *)
    cpc,         \* cpc[r]: where the client stands
    list,        \* list[r]: the nodes its request names
    under,       \* under[r]: the nodes of the lease it names, or <<>> without one
    wait,        \* wait[r]: its request has wait = true
    exit,        \* exit[r]: its exit status
    (* the handler of each request *)
    spc,         \* spc[r]: where the handler stands
    todo,        \* todo[r]: selected nodes it has not looked at
    tasks,       \* tasks[r]: the node of each task it made
    pending,     \* pending[r]: the tasks whose exit it awaits
    allOk,       \* allOk[r]: every exit it received was a success
    feed,        \* feed[r]: the events its subscription has not read
    inbox,       \* inbox[r]: the responses the client has not read
    (* the workers *)
    outcome,     \* outcome[r]: what became of each dispatched task
    errors       \* errors: how many error events there have been

registryVars == <<lock, connected>>
clientVars == <<cpc, list, under, wait, exit>>
handlerVars == <<spc, todo, tasks, pending, allOk>>
workerVars == <<outcome, errors>>
requestVars == <<registryVars, clientVars, handlerVars, feed, inbox, workerVars>>

Runs == Client \ Leasing

ClientPC == {"idle", "resolved", "reading", "done", "left"}
HandlerPC == {"new", "begin", "select", "refuse", "none", "announce", "dispatch", "waiting",
              "reply", "gone"}

\* A task is <<run, index>>.
Response == [type : {"started", "progress", "exited", "finished", "error", "ack", "lease"},
             ok : BOOLEAN]
Event == [type : {"exited", "error"}, task : Client \X (Nat \ {0}), ok : BOOLEAN]

TypeOK ==
    /\ lock \in Client \cup {NoClient}
    /\ connected \in SUBSET Node
    /\ cpc \in [Client -> ClientPC]
    /\ list \in [Client -> Seq(Node)]
    /\ under \in [Client -> Leases \cup {<<>>}]
    /\ wait \in [Client -> BOOLEAN]
    /\ exit \in [Client -> {"none", "zero", "one"}]
    /\ spc \in [Client -> HandlerPC]
    /\ todo \in [Client -> Seq(Node)]
    /\ tasks \in [Client -> Seq(Node)]
    /\ pending \in [Client -> SUBSET (Nat \ {0})]
    /\ allOk \in [Client -> BOOLEAN]
    /\ feed \in [Client -> Seq(Event)]
    /\ inbox \in [Client -> Seq(Response)]
    /\ outcome \in [Client -> Seq({"running", "ok", "failed"})]
    /\ errors \in Nat

Init ==
    /\ lock = NoClient
    /\ connected = {}
    /\ cpc = [r \in Client |-> "idle"]
    /\ list = [r \in Client |-> <<>>]
    /\ under = [r \in Client |-> <<>>]
    /\ wait = [r \in Client |-> FALSE]
    /\ exit = [r \in Client |-> "none"]
    /\ spc = [r \in Client |-> "new"]
    /\ todo = [r \in Client |-> <<>>]
    /\ tasks = [r \in Client |-> <<>>]
    /\ pending = [r \in Client |-> {}]
    /\ allOk = [r \in Client |-> TRUE]
    /\ feed = [r \in Client |-> <<>>]
    /\ inbox = [r \in Client |-> <<>>]
    /\ outcome = [r \in Client |-> <<>>]
    /\ errors = 0

------------------------------------------------------------------------------
(* The registry: worker handlers take the lock for one critical section *)

Join(n) ==
    /\ n \notin connected
    /\ lock = NoClient
    /\ connected' = connected \cup {n}
    /\ UNCHANGED <<lock, clientVars, handlerVars, feed, inbox, workerVars>>

Depart(n) ==
    /\ n \in connected
    /\ lock = NoClient
    /\ connected' = connected \ {n}
    /\ UNCHANGED <<lock, clientVars, handlerVars, feed, inbox, workerVars>>

------------------------------------------------------------------------------
(* agentctl *)

\* agentctl ends with a status, and its socket with it.
End(r, how, status) ==
    /\ cpc' = [cpc EXCEPT ![r] = how]
    /\ exit' = [exit EXCEPT ![r] = status]
    /\ inbox' = [inbox EXCEPT ![r] = <<>>]

\* The entries of a hash map come in any order.
Orders(S) ==
    {s \in [1..Cardinality(S) -> S] : \A i, k \in DOMAIN s : s[i] = s[k] => i = k}

\* resolve_target_nodes: the nodes the user names, those of the lease the user names, or
\* all that are connected.  list_leases and list_nodes read them under the lock.
Target(r, named, l) ==
    IF named # <<>> THEN {named}
    ELSE IF l # <<>> THEN {l}
    ELSE Orders(connected)

\* A plain run sends what the user named, and has no lease.
Resolve(r) ==
    /\ cpc[r] = "idle"
    /\ \E named \in Names[r], l \in (IF r \in Ranked THEN Leases ELSE {}) \cup {<<>>} :
        /\ r \in Ranked /\ named = <<>> => lock = NoClient
        /\ \E nodes \in (IF r \in Ranked THEN Target(r, named, l) ELSE {named}) :
            list' = [list EXCEPT ![r] = nodes]
        /\ under' = [under EXCEPT ![r] = l]
    /\ \E b \in BOOLEAN : wait' = [wait EXCEPT ![r] = b /\ r \in Runs]
    /\ cpc' = [cpc EXCEPT ![r] = "resolved"]
    /\ UNCHANGED <<registryVars, exit, handlerVars, feed, inbox, workerVars>>

\* The lease has been released, or there has never been one: agentctl asks for nothing.
ResolveFails(r) ==
    /\ cpc[r] = "idle"
    /\ r \in Ranked
    /\ <<>> \in Names[r] /\ Leases # {}
    /\ lock = NoClient
    /\ End(r, "done", "one")
    /\ UNCHANGED <<registryVars, list, under, wait, handlerVars, feed, workerVars>>

\* The request is sent on a connection of its own.
Submit(r) ==
    /\ cpc[r] = "resolved"
    /\ cpc' = [cpc EXCEPT ![r] = "reading"]
    /\ spc' = [spc EXCEPT ![r] = "begin"]
    /\ UNCHANGED <<registryVars, list, under, wait, exit, todo, tasks, pending, allOk, feed, inbox,
                   workerVars>>

Final(response) == response.type \in {"finished", "error", "ack", "lease"}

\* print_run_responses: an error and a failed job are failures of agentctl.
Status(response) ==
    IF response.type = "error" \/ (response.type = "finished" /\ ~response.ok)
    THEN "one" ELSE "zero"

\* Mutant of Read: an error response is printed and the loop goes on.
ReadPastErrors(r) ==
    /\ cpc[r] = "reading"
    /\ inbox[r] # <<>>
    /\ LET response == Head(inbox[r]) IN
        IF Final(response) /\ response.type # "error"
        THEN End(r, "done", Status(response))
        ELSE inbox' = [inbox EXCEPT ![r] = Tail(@)] /\ UNCHANGED <<cpc, exit>>
    /\ UNCHANGED <<registryVars, list, under, wait, handlerVars, feed, workerVars>>

\* The first final response ends the loop, and agentctl.
Read(r) ==
    /\ cpc[r] = "reading"
    /\ inbox[r] # <<>>
    /\ LET response == Head(inbox[r]) IN
        IF Final(response)
        THEN End(r, "done", Status(response))
        ELSE inbox' = [inbox EXCEPT ![r] = Tail(@)] /\ UNCHANGED <<cpc, exit>>
    /\ UNCHANGED <<registryVars, list, under, wait, handlerVars, feed, workerVars>>

\* The handler has left without a final response: the connection is reset.
CutOff(r) ==
    /\ cpc[r] = "reading"
    /\ inbox[r] = <<>>
    /\ spc[r] = "gone"
    /\ End(r, "done", "one")
    /\ UNCHANGED <<registryVars, list, under, wait, handlerVars, feed, workerVars>>

\* The user interrupts agentctl.
Leave(r) ==
    /\ cpc[r] = "reading"
    /\ End(r, "left", "one")
    /\ UNCHANGED <<registryVars, list, under, wait, handlerVars, feed, workerVars>>

------------------------------------------------------------------------------
(* The handlers' sends *)

Over(r) == cpc[r] \in {"done", "left"}

\* A response waits for room in the socket; one to a client that has ended is lost.
Send(r, type, ok) ==
    IF Over(r) THEN UNCHANGED inbox
    ELSE /\ Len(inbox[r]) < SockCap
         /\ inbox' = [inbox EXCEPT ![r] = Append(@, [type |-> type, ok |-> ok])]

\* The next event is one the wait loop forwards: the exit of a task it waits for, and
\* any error.
Forwards(r) ==
    /\ feed[r] # <<>>
    /\ \/ Head(feed[r]).type = "error"
       \/ Head(feed[r]).task \in {r} \X pending[r]

\* The handler is at a send.
AtSend(r) ==
    \/ spc[r] = "select" /\ todo[r] # <<>> /\ Head(todo[r]) \notin connected
    \/ spc[r] \in {"refuse", "none", "announce", "reply"}
    \/ spc[r] = "waiting" /\ (pending[r] = {} \/ Forwards(r))

Unlock(r) == lock' = IF lock = r THEN NoClient ELSE lock

\* Mutant of SendFails: the way out through an error leaves the lock behind.
SendFailsLocked(r) ==
    /\ AtSend(r)
    /\ Over(r)
    /\ spc' = [spc EXCEPT ![r] = "gone"]
    /\ UNCHANGED <<registryVars, clientVars, todo, tasks, pending, allOk, feed, inbox, workerVars>>

\* The client has ended and the send fails: `?` leaves the handler, and its guard.
SendFails(r) ==
    /\ AtSend(r)
    /\ Over(r)
    /\ spc' = [spc EXCEPT ![r] = "gone"]
    /\ Unlock(r)
    /\ UNCHANGED <<connected, clientVars, todo, tasks, pending, allOk, feed, inbox,
                   workerVars>>

------------------------------------------------------------------------------
(* create_lease *)

LeaseLock(r) ==
    /\ r \in Leasing
    /\ spc[r] = "begin"
    /\ lock = NoClient
    /\ lock' = r
    /\ spc' = [spc EXCEPT ![r] = "refuse"]
    /\ UNCHANGED <<connected, clientVars, todo, tasks, pending, allOk, feed, inbox,
                   workerVars>>

\* The error response is sent under the lock.
Refuse(r) ==
    /\ spc[r] = "refuse"
    /\ Send(r, "error", FALSE)
    /\ spc' = [spc EXCEPT ![r] = "gone"]
    /\ Unlock(r)
    /\ UNCHANGED <<connected, clientVars, todo, tasks, pending, allOk, feed, workerVars>>

\* The lease is entered, the lock dropped, and the response comes after it.
LeaseGrant(r) ==
    /\ r \in Leasing
    /\ spc[r] = "refuse"
    /\ connected # {}
    /\ \A i \in DOMAIN list[r] : list[r][i] \in connected
    /\ spc' = [spc EXCEPT ![r] = "reply"]
    /\ Unlock(r)
    /\ UNCHANGED <<connected, clientVars, todo, tasks, pending, allOk, feed, inbox,
                   workerVars>>

\* LeaseCreated of a lease request, Ack of a run that is not waited for.
Reply(r) ==
    /\ spc[r] = "reply"
    /\ Send(r, IF r \in Leasing THEN "lease" ELSE "ack", TRUE)
    /\ spc' = [spc EXCEPT ![r] = "gone"]
    /\ UNCHANGED <<registryVars, clientVars, todo, tasks, pending, allOk, feed, workerVars>>

------------------------------------------------------------------------------
(* run_process *)

\* The critical section begins: the nodes of the request, which are of its lease if it
\* names one, those of the lease, or all that are connected.
RunLock(r) ==
    /\ r \in Runs
    /\ spc[r] = "begin"
    /\ lock = NoClient
    /\ lock' = r
    /\ under[r] # <<>> =>
        \A i \in DOMAIN list[r] : \E k \in DOMAIN under[r] : list[r][i] = under[r][k]
    /\ \E nodes \in Target(r, list[r], under[r]) : todo' = [todo EXCEPT ![r] = nodes]
    /\ spc' = [spc EXCEPT ![r] = "select"]
    /\ UNCHANGED <<connected, clientVars, tasks, pending, allOk, feed, inbox, workerVars>>

\* The lease is not found, or a node is not of it: an error response, under the lock.
RunRefused(r) ==
    /\ r \in Runs
    /\ spc[r] = "begin"
    /\ under[r] # <<>>
    /\ lock = NoClient
    /\ lock' = r
    /\ spc' = [spc EXCEPT ![r] = "refuse"]
    /\ UNCHANGED <<connected, clientVars, todo, tasks, pending, allOk, feed, inbox,
                   workerVars>>

SelectNode(r) ==
    /\ spc[r] = "select"
    /\ todo[r] # <<>>
    /\ Head(todo[r]) \in connected
    /\ tasks' = [tasks EXCEPT ![r] = Append(@, Head(todo[r]))]
    /\ todo' = [todo EXCEPT ![r] = Tail(@)]
    /\ UNCHANGED <<registryVars, clientVars, spc, pending, allOk, feed, inbox, workerVars>>

\* Mutant of SelectMissing: the node is passed over in silence.
SelectMissingSilently(r) ==
    /\ spc[r] = "select"
    /\ todo[r] # <<>>
    /\ Head(todo[r]) \notin connected
    /\ todo' = [todo EXCEPT ![r] = Tail(@)]
    /\ UNCHANGED <<registryVars, clientVars, spc, tasks, pending, allOk, feed, inbox, workerVars>>

\* A node that is not connected costs an error response, sent under the lock.
SelectMissing(r) ==
    /\ spc[r] = "select"
    /\ todo[r] # <<>>
    /\ Head(todo[r]) \notin connected
    /\ Send(r, "error", FALSE)
    /\ todo' = [todo EXCEPT ![r] = Tail(@)]
    /\ UNCHANGED <<registryVars, clientVars, spc, tasks, pending, allOk, feed, workerVars>>

RunUnlock(r) ==
    /\ spc[r] = "select"
    /\ todo[r] = <<>>
    /\ spc' = [spc EXCEPT ![r] = IF tasks[r] = <<>> THEN "none" ELSE "announce"]
    /\ Unlock(r)
    /\ UNCHANGED <<connected, clientVars, todo, tasks, pending, allOk, feed, inbox,
                   workerVars>>

\* "no connected nodes matched the request"
RunNone(r) ==
    /\ spc[r] = "none"
    /\ Send(r, "error", FALSE)
    /\ spc' = [spc EXCEPT ![r] = "gone"]
    /\ UNCHANGED <<registryVars, clientVars, todo, tasks, pending, allOk, feed, workerVars>>

RunAnnounce(r) ==
    /\ spc[r] = "announce"
    /\ Send(r, "started", TRUE)
    /\ spc' = [spc EXCEPT ![r] = "dispatch"]
    /\ UNCHANGED <<registryVars, clientVars, todo, tasks, pending, allOk, feed, workerVars>>

\* The next task is sent to its worker, and may end before the others are sent.
RunDispatch(r) ==
    /\ spc[r] = "dispatch"
    /\ Len(outcome[r]) < Len(tasks[r])
    /\ outcome' = [outcome EXCEPT ![r] = Append(@, "running")]
    /\ UNCHANGED <<registryVars, clientVars, handlerVars, feed, inbox, errors>>

\* The writer of the worker's connection has ended at a failed socket, and its channel is
\* closed: the request ends without a response, whatever it has sent to other workers.
RunDispatchFails(r) ==
    /\ spc[r] = "dispatch"
    /\ Len(outcome[r]) < Len(tasks[r])
    /\ spc' = [spc EXCEPT ![r] = "gone"]
    /\ UNCHANGED <<registryVars, clientVars, todo, tasks, pending, allOk, feed, inbox,
                   workerVars>>

RunDispatched(r) ==
    /\ spc[r] = "dispatch"
    /\ Len(outcome[r]) = Len(tasks[r])
    /\ pending' = [pending EXCEPT ![r] = DOMAIN tasks[r]]
    /\ spc' = [spc EXCEPT ![r] = IF wait[r] THEN "waiting" ELSE "reply"]
    /\ UNCHANGED <<registryVars, clientVars, todo, tasks, allOk, feed, inbox, workerVars>>

\* One turn of the wait loop: the first exit of a task of this run, and an error of any,
\* is forwarded.
Forward(r) ==
    /\ spc[r] = "waiting"
    /\ pending[r] # {}
    /\ feed[r] # <<>>
    /\ feed' = [feed EXCEPT ![r] = Tail(@)]
    /\ LET event == Head(feed[r])
           exits == event.type = "exited" /\ event.task \in {r} \X pending[r]
       IN /\ pending' = [pending EXCEPT ![r] = IF exits THEN @ \ {event.task[2]} ELSE @]
          /\ allOk' = [allOk EXCEPT ![r] = IF exits THEN @ /\ event.ok ELSE @]
          /\ IF Forwards(r) THEN Send(r, event.type, event.ok) ELSE UNCHANGED inbox
    /\ UNCHANGED <<registryVars, clientVars, spc, todo, tasks, workerVars>>

\* A turn for Started or a line of output of a task that has not exited: nothing but the
\* response, or the way out through `?`, comes of it, so these events are not queued.
ForwardReport(r) ==
    /\ spc[r] = "waiting"
    /\ pending[r] # {}
    /\ IF Over(r) THEN spc' = [spc EXCEPT ![r] = "gone"] /\ UNCHANGED inbox
       ELSE Send(r, "progress", TRUE) /\ UNCHANGED spc
    /\ UNCHANGED <<registryVars, clientVars, todo, tasks, pending, allOk, feed, workerVars>>

Finish(r) ==
    /\ spc[r] = "waiting"
    /\ pending[r] = {}
    /\ Send(r, "finished", allOk[r])
    /\ spc' = [spc EXCEPT ![r] = "gone"]
    /\ UNCHANGED <<registryVars, clientVars, todo, tasks, pending, allOk, feed, workerVars>>

------------------------------------------------------------------------------
(* The workers, as the broadcast shows them *)

\* Mutant of Broadcast: a run handler subscribes when it begins to wait.
BroadcastToWaiters(events) ==
    feed' = [r \in Client |-> IF spc[r] = "waiting" THEN feed[r] \o events ELSE feed[r]]

\* The subscription of a run request begins with its handler.
Broadcast(events) ==
    feed' = [r \in Client |->
        IF r \in Runs /\ spc[r] \in HandlerPC \ {"new", "gone"} THEN feed[r] \o events
        ELSE feed[r]]

\* Mutant of Exited: tasks are counted from zero.
ExitedFromZero(r, i, ok) == [type |-> "exited", task |-> <<r, i - 1>>, ok |-> ok]

Exited(r, i, ok) == [type |-> "exited", task |-> <<r, i>>, ok |-> ok]
Failed(r, i) == [type |-> "error", task |-> <<r, i>>, ok |-> FALSE]

TaskExits(r, i) ==
    /\ outcome[r][i] = "running"
    /\ \E ok \in BOOLEAN :
        /\ outcome' = [outcome EXCEPT ![r][i] = IF ok THEN "ok" ELSE "failed"]
        /\ Broadcast(<<Exited(r, i, ok)>>)
    /\ UNCHANGED <<registryVars, clientVars, handlerVars, inbox, errors>>

\* A refusal, or the failure of a kill: the task fails if it was running, and the
\* error goes to everybody who waits.
TaskErrs(r, i) ==
    /\ errors < Errors
    /\ errors' = errors + 1
    /\ IF outcome[r][i] = "running"
       THEN /\ outcome' = [outcome EXCEPT ![r][i] = "failed"]
            /\ Broadcast(<<Exited(r, i, FALSE), Failed(r, i)>>)
       ELSE UNCHANGED outcome /\ Broadcast(<<Failed(r, i)>>)
    /\ UNCHANGED <<registryVars, clientVars, handlerVars, inbox>>

------------------------------------------------------------------------------
\* What a handler comes to in its turn.
Advance(r) ==
    \/ LeaseLock(r) \/ Refuse(r) \/ LeaseGrant(r) \/ Reply(r)
    \/ RunLock(r) \/ RunRefused(r) \/ SelectNode(r) \/ SelectMissing(r) \/ RunUnlock(r)
    \/ RunNone(r) \/ RunAnnounce(r) \/ RunDispatch(r) \/ RunDispatchFails(r)
    \/ RunDispatched(r) \/ Forward(r) \/ Finish(r)
    \/ SendFails(r)

HandlerStep(r) == Advance(r) \/ ForwardReport(r)

ClientStep(r) ==
    Resolve(r) \/ ResolveFails(r) \/ Submit(r) \/ Read(r) \/ CutOff(r) \/ Leave(r)

WorkerStep(r, i) == TaskExits(r, i) \/ TaskErrs(r, i)

Next ==
    \/ \E r \in Client : ClientStep(r) \/ HandlerStep(r)
    \/ \E r \in Runs : \E i \in DOMAIN outcome[r] : WorkerStep(r, i)
    \/ \E n \in Node : Join(n) \/ Depart(n)

Spec == Init /\ [][Next]_requestVars

\* Handlers run, and come to every event in its turn, whatever is reported in between;
\* agentctl reads what it is sent (its loop does nothing else), the lock goes to those who
\* wait for it, and tasks end.
Fairness ==
    /\ \A r \in Client :
        /\ SF_requestVars(Advance(r))
        /\ WF_requestVars(Read(r) \/ CutOff(r))
    /\ \A r \in Runs : \A i \in 1..Cardinality(Node) + 1 :
        WF_requestVars(i \in DOMAIN outcome[r] /\ TaskExits(r, i))

FairSpec == Spec /\ Fairness

------------------------------------------------------------------------------
\* agentctl ends with status 0 only of a run for which every node it named got a task,
\* and, when it waited, whose every task succeeded: a node that is missing, a refusal
\* and a failed task each end it with an error.
ExitZeroIsReal ==
    \A r \in Runs : exit[r] = "zero" =>
        /\ tasks[r] # <<>> /\ Len(outcome[r]) = Len(tasks[r])
        /\ list[r] # <<>> => tasks[r] = list[r]
        /\ wait[r] => \A i \in DOMAIN outcome[r] : outcome[r][i] = "ok"

Distinct(s) == \A i, k \in DOMAIN s : s[i] = s[k] => i = k

\* torchrun_request_parts: the rank in the environment of a node, the last of those it
\* was given.
RankOf(r, n) == (CHOOSE i \in DOMAIN list[r] :
                    list[r][i] = n /\ \A k \in DOMAIN list[r] : list[r][k] = n => k <= i) - 1

\* The processes of one torchrun have ranks of their own, and when agentctl reports no
\* error all ranks below --nnodes are there.  It takes a list that names some node,
\* and none twice.
RanksAreSound ==
    \A r \in Ranked :
        list[r] # <<>> /\ Distinct(list[r]) =>
            LET ranks == {RankOf(r, tasks[r][i]) : i \in DOMAIN outcome[r]} IN
            /\ Cardinality(ranks) = Len(outcome[r])
            /\ exit[r] = "zero" => ranks = 0..(Len(list[r]) - 1)

\* No handler keeps the registry to itself, though it sends under the lock to a
\* client that may be slow, may have ended, and may have ended between two sends.
LockReturns == \A r \in Client : lock = r ~> lock # r

\* Every request ends for its client.
RequestEnds == \A r \in Client : cpc[r] = "reading" ~> Over(r)
=============================================================================
