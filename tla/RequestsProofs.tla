--------------------------- MODULE RequestsProofs ---------------------------
(***************************************************************************)
(* What agentctl's exit status tells of its request, and the ranks it      *)
(* gives out, for any number of clients, nodes and tasks, any lists of     *)
(* nodes, leases, any room in the sockets and any events of the workers.   *)
(*                                                                         *)
(* The inductive invariant follows a run through its handler.  What the    *)
(* handler has taken and what it has still to look at make up the list the *)
(* user gave, unless an error is on its way to agentctl; an error stays on *)
(* its way until agentctl has read it, and no response that would end      *)
(* agentctl well can overtake it, since such a response is the last; and   *)
(* a task that the wait loop has crossed off has succeeded, because the    *)
(* events tell the truth.                                                  *)
(***************************************************************************)
EXTENDS Requests, FiniteSetTheorems, TLAPS

\* An error is on its way to agentctl, or has arrived.
Spoiled(r) ==
    exit[r] = "one" \/ \E i \in DOMAIN inbox[r] : inbox[r][i].type = "error"

\* A response that ends agentctl with status 0 is on its way, or has arrived.
Promised(r) ==
    \/ exit[r] = "zero"
    \/ \E i \in DOMAIN inbox[r] : Final(inbox[r][i]) /\ Status(inbox[r][i]) = "zero"

\* What status 0 of a run tells.
Real(r) ==
    /\ tasks[r] # <<>> /\ Len(outcome[r]) = Len(tasks[r])
    /\ list[r] # <<>> => tasks[r] = list[r]
    /\ wait[r] => \A i \in DOMAIN outcome[r] : outcome[r][i] = "ok"

\* The lock is with the handler that is in a critical section.
LockIsHeldInside == \A r \in Client : lock = r <=> spc[r] \in {"refuse", "select"}

\* A client and its handler: where they stand agrees, nothing is kept for a client that
\* has ended, and a response that ends the request is the last of the handler.
Talks(r) ==
    /\ cpc[r] \in {"idle", "resolved"} => spc[r] = "new"
    /\ spc[r] = "new" => cpc[r] # "reading"
    /\ Over(r) <=> exit[r] # "none"
    /\ Over(r) => inbox[r] = <<>>
    /\ exit[r] = "zero" => spc[r] = "gone"
    /\ \A i \in DOMAIN inbox[r] : inbox[r][i].type \in {"finished", "ack", "lease"} =>
          i = Len(inbox[r]) /\ spc[r] = "gone"

\* What the handler has taken and what it has still to look at make up the list.
Split(r) ==
    /\ Len(tasks[r]) + Len(todo[r]) = Len(list[r])
    /\ \A i \in DOMAIN tasks[r] : tasks[r][i] = list[r][i]
    /\ \A i \in DOMAIN todo[r] : todo[r][i] = list[r][i + Len(tasks[r])]

\* The selection of a run: nodes of the list, none oftener than there, and all of them
\* if no error was sent.
Selects(r) ==
    /\ spc[r] \in {"new", "begin"} => tasks[r] = <<>> /\ todo[r] = <<>>
    /\ list[r] # <<>> =>
          /\ \A i \in DOMAIN tasks[r] : \E k \in DOMAIN list[r] : list[r][k] = tasks[r][i]
          /\ \A i \in DOMAIN todo[r] : \E k \in DOMAIN list[r] : list[r][k] = todo[r][i]
          /\ Distinct(list[r]) =>
                /\ Distinct(tasks[r]) /\ Distinct(todo[r])
                /\ \A i \in DOMAIN tasks[r] : \A k \in DOMAIN todo[r] : tasks[r][i] # todo[r][k]
          /\ spc[r] = "select" => Split(r) \/ Spoiled(r)
          /\ spc[r] \in {"announce", "dispatch", "waiting", "reply"} =>
                tasks[r] = list[r] \/ Spoiled(r)

\* The tasks of a run: those sent are of those made, all of them once it waits or replies,
\* and each that it has crossed off has succeeded, unless it knows better.
Dispatches(r) ==
    /\ Len(outcome[r]) <= Len(tasks[r])
    /\ spc[r] \in {"announce", "dispatch", "waiting", "reply"} => tasks[r] # <<>>
    /\ spc[r] \in {"waiting", "reply"} => Len(outcome[r]) = Len(tasks[r])
    /\ spc[r] = "waiting" =>
          /\ wait[r]
          /\ allOk[r] => \A i \in DOMAIN outcome[r] : i \in pending[r] \/ outcome[r][i] = "ok"
    /\ spc[r] = "reply" => ~wait[r]

\* A success that was broadcast is that of its task.
SuccessesAreReal ==
    \A r \in Client : \A i \in DOMAIN feed[r] :
        feed[r][i].type = "exited" /\ feed[r][i].ok =>
            LET task == feed[r][i].task IN
            task[2] \in DOMAIN outcome[task[1]] /\ outcome[task[1]][task[2]] = "ok"

PromisesAreReal == \A r \in Runs : Promised(r) => Spoiled(r) \/ Real(r)

RunsAreSound == \A r \in Runs : Selects(r) /\ Dispatches(r)

RequestsInv ==
    /\ TypeOK
    /\ IsFiniteSet(connected)
    /\ LockIsHeldInside
    /\ \A r \in Client : Talks(r)
    /\ RunsAreSound
    /\ SuccessesAreReal
    /\ PromisesAreReal

------------------------------------------------------------------------------
(* Types *)

\* The nodes in the order of a hash map: a list that names none twice.
LEMMA OrdersAreLists ==
    ASSUME NEW S \in SUBSET Node, IsFiniteSet(S), NEW s \in Orders(S)
    PROVE  s \in Seq(Node) /\ Distinct(s)
<1>1. Cardinality(S) \in Nat
  BY FS_CardinalityType
<1>2. s \in [1..Cardinality(S) -> S] /\ \A i, k \in DOMAIN s : s[i] = s[k] => i = k
  BY DEF Orders
<1>. QED BY <1>1, <1>2 DEF Distinct

\* A lease stands for a list of nodes, and so does having none.
LEMMA LeasesAreLists ==
    ASSUME NEW l \in Leases \cup {<<>>}
    PROVE  l \in Seq(Node)
<1>1. <<>> \in Seq(Node)
  OBVIOUS
<1>. QED BY <1>1, LeasesAssumption

\* What a request is resolved to, and what its handler selects from, is a list.
LEMMA TargetsAreLists ==
    ASSUME TypeOK, IsFiniteSet(connected), NEW r, NEW named \in Seq(Node), NEW l \in Seq(Node)
    PROVE  Target(r, named, l) \subseteq Seq(Node)
BY OrdersAreLists DEF Target, TypeOK

\* The registry stays a finite set of nodes.
LEMMA RegistryTyped ==
    ASSUME TypeOK, IsFiniteSet(connected), NEW n \in Node, Join(n) \/ Depart(n)
    PROVE  TypeOK' /\ IsFiniteSet(connected)'
<1>1. connected' = connected \cup {n} \/ connected' = connected \ {n}
  BY DEF Join, Depart
<1>2. IsFiniteSet(connected)'
  BY <1>1, FS_AddElement, FS_RemoveElement
<1>3. TypeOK'
  BY <1>1 DEF Join, Depart, TypeOK, clientVars, handlerVars, workerVars
<1>. QED BY <1>2, <1>3

\* What a send leaves in a socket.
LEMMA SendTyped ==
    ASSUME TypeOK, NEW r \in Client, NEW type \in {"started", "progress", "exited", "finished",
                                                   "error", "ack", "lease"},
           NEW ok \in BOOLEAN, Send(r, type, ok)
    PROVE  inbox' \in [Client -> Seq(Response)]
<1>1. [type |-> type, ok |-> ok] \in Response
  BY DEF Response
<1>2. inbox[r] \in Seq(Response) /\ inbox \in [Client -> Seq(Response)]
  BY DEF TypeOK
<1>3. Append(inbox[r], [type |-> type, ok |-> ok]) \in Seq(Response)
  BY <1>1, <1>2
<1>. QED BY <1>2, <1>3 DEF Send

\* What agentctl leaves behind.
LEMMA EndTyped ==
    ASSUME TypeOK, NEW r \in Client, NEW how \in {"done", "left"},
           NEW status \in {"none", "zero", "one"}, End(r, how, status)
    PROVE  /\ inbox' \in [Client -> Seq(Response)] /\ cpc' \in [Client -> ClientPC]
           /\ exit' \in [Client -> {"none", "zero", "one"}]
<1>1. <<>> \in Seq(Response)
  OBVIOUS
<1>. QED BY <1>1 DEF End, TypeOK, ClientPC

\* agentctl's steps.
LEMMA ClientTyped ==
    ASSUME TypeOK, IsFiniteSet(connected), NEW r \in Client, ClientStep(r)
    PROVE  TypeOK' /\ UNCHANGED connected
<1>. USE DEF registryVars, clientVars, handlerVars, workerVars
<1>1. CASE Resolve(r)
  <2>1. list' \in [Client -> Seq(Node)] /\ under' \in [Client -> Leases \cup {<<>>}]
    <3>1. PICK named \in Names[r], l \in Leases \cup {<<>>} :
            /\ \E nodes \in Target(r, named, l) \cup {named} : list' = [list EXCEPT ![r] = nodes]
            /\ under' = [under EXCEPT ![r] = l]
      BY <1>1 DEF Resolve
    <3>2. named \in Seq(Node) /\ l \in Seq(Node)
      BY NamesAssumption, LeasesAreLists
    <3>3. Target(r, named, l) \cup {named} \subseteq Seq(Node)
      BY <3>2, TargetsAreLists
    <3>. QED BY <3>1, <3>3 DEF TypeOK
  <2>2. wait' \in [Client -> BOOLEAN] /\ cpc' \in [Client -> ClientPC]
    BY <1>1 DEF Resolve, TypeOK, ClientPC
  <2>. QED BY <1>1, <2>1, <2>2 DEF Resolve, TypeOK
<1>2. CASE Submit(r)
  BY <1>2 DEF Submit, TypeOK, ClientPC, HandlerPC
<1>3. CASE Read(r)
  <2>1. Tail(inbox[r]) \in Seq(Response)
    BY <1>3 DEF Read, TypeOK
  <2>2. Status(Head(inbox[r])) \in {"none", "zero", "one"}
    BY DEF Status
  <2>3. \/ End(r, "done", Status(Head(inbox[r])))
        \/ inbox' = [inbox EXCEPT ![r] = Tail(@)] /\ UNCHANGED <<cpc, exit>>
    BY <1>3 DEF Read
  <2>4. inbox' \in [Client -> Seq(Response)] /\ cpc' \in [Client -> ClientPC]
        /\ exit' \in [Client -> {"none", "zero", "one"}]
    BY <2>1, <2>2, <2>3, EndTyped DEF TypeOK
  <2>. QED BY <1>3, <2>4 DEF Read, TypeOK
<1>4. CASE CutOff(r) \/ Leave(r) \/ ResolveFails(r)
  <2>1. inbox' \in [Client -> Seq(Response)] /\ cpc' \in [Client -> ClientPC]
        /\ exit' \in [Client -> {"none", "zero", "one"}]
    BY <1>4, EndTyped DEF CutOff, Leave, ResolveFails
  <2>. QED BY <1>4, <2>1 DEF CutOff, Leave, ResolveFails, TypeOK
<1>. QED BY <1>1, <1>2, <1>3, <1>4 DEF ClientStep

\* The handlers' steps that send nothing, or no more than one response.
LEMMA LeaseTyped ==
    ASSUME TypeOK, NEW r \in Client,
           LeaseLock(r) \/ RunRefused(r) \/ Refuse(r) \/ LeaseGrant(r) \/ Reply(r) \/ SendFails(r)
    PROVE  TypeOK' /\ UNCHANGED connected
<1>. USE DEF registryVars, clientVars, handlerVars, workerVars
<1>1. CASE LeaseLock(r) \/ RunRefused(r) \/ LeaseGrant(r) \/ SendFails(r)
  BY <1>1 DEF LeaseLock, RunRefused, LeaseGrant, SendFails, Unlock, TypeOK, HandlerPC
<1>2. CASE Refuse(r)
  <2>1. inbox' \in [Client -> Seq(Response)]
    BY <1>2, SendTyped DEF Refuse
  <2>. QED BY <1>2, <2>1 DEF Refuse, Unlock, TypeOK, HandlerPC
<1>3. CASE Reply(r)
  <2>1. inbox' \in [Client -> Seq(Response)]
    BY <1>3, SendTyped DEF Reply
  <2>. QED BY <1>3, <2>1 DEF Reply, TypeOK, HandlerPC
<1>. QED BY <1>1, <1>2, <1>3

\* The steps of the selection.
LEMMA SelectionTyped ==
    ASSUME TypeOK, IsFiniteSet(connected), NEW r \in Client,
           RunLock(r) \/ SelectNode(r) \/ SelectMissing(r) \/ RunUnlock(r)
    PROVE  TypeOK' /\ UNCHANGED connected
<1>. USE DEF registryVars, clientVars, handlerVars, workerVars
<1>1. CASE RunLock(r)
  <2>1. list[r] \in Seq(Node) /\ under[r] \in Seq(Node)
    BY LeasesAreLists DEF TypeOK
  <2>2. todo' \in [Client -> Seq(Node)]
    BY <1>1, <2>1, TargetsAreLists DEF RunLock, TypeOK
  <2>. QED BY <1>1, <2>2 DEF RunLock, TypeOK, HandlerPC
<1>2. CASE SelectNode(r)
  BY <1>2 DEF SelectNode, TypeOK
<1>3. CASE SelectMissing(r)
  <2>1. inbox' \in [Client -> Seq(Response)]
    BY <1>3, SendTyped DEF SelectMissing
  <2>2. Tail(todo[r]) \in Seq(Node)
    BY <1>3 DEF SelectMissing, TypeOK
  <2>. QED BY <1>3, <2>1, <2>2 DEF SelectMissing, TypeOK
<1>4. CASE RunUnlock(r)
  BY <1>4 DEF RunUnlock, Unlock, TypeOK, HandlerPC
<1>. QED BY <1>1, <1>2, <1>3, <1>4

\* The steps from the selection to the wait loop.
LEMMA DispatchTyped ==
    ASSUME TypeOK, NEW r \in Client,
           \/ RunNone(r) \/ RunAnnounce(r) \/ RunDispatch(r) \/ RunDispatchFails(r)
           \/ RunDispatched(r)
    PROVE  TypeOK' /\ UNCHANGED connected
<1>. USE DEF registryVars, clientVars, handlerVars, workerVars
<1>1. CASE RunNone(r)
  <2>1. inbox' \in [Client -> Seq(Response)]
    BY <1>1, SendTyped DEF RunNone
  <2>. QED BY <1>1, <2>1 DEF RunNone, TypeOK, HandlerPC
<1>2. CASE RunAnnounce(r)
  <2>1. inbox' \in [Client -> Seq(Response)]
    BY <1>2, SendTyped DEF RunAnnounce
  <2>. QED BY <1>2, <2>1 DEF RunAnnounce, TypeOK, HandlerPC
<1>3. CASE RunDispatch(r)
  BY <1>3 DEF RunDispatch, TypeOK
<1>4. CASE RunDispatchFails(r)
  BY <1>4 DEF RunDispatchFails, TypeOK, HandlerPC
<1>5. CASE RunDispatched(r)
  <2>1. DOMAIN tasks[r] \in SUBSET (Nat \ {0})
    BY DEF TypeOK
  <2>. QED BY <1>5, <2>1 DEF RunDispatched, TypeOK, HandlerPC
<1>. QED BY <1>1, <1>2, <1>3, <1>4, <1>5

\* The wait loop.
LEMMA WaitTyped ==
    ASSUME TypeOK, NEW r \in Client, Forward(r) \/ ForwardReport(r) \/ Finish(r)
    PROVE  TypeOK' /\ UNCHANGED connected
<1>. USE DEF registryVars, clientVars, handlerVars, workerVars
<1>1. CASE Forward(r)
  <2>. DEFINE event == Head(feed[r])
  <2>1. event \in Event /\ Tail(feed[r]) \in Seq(Event)
    BY <1>1 DEF Forward, TypeOK
  <2>2. event.type \in {"exited", "error"} /\ event.ok \in BOOLEAN
    BY <2>1 DEF Event
  <2>3. inbox' \in [Client -> Seq(Response)]
    BY <1>1, <2>2, SendTyped DEF Forward, TypeOK
  <2>4. pending' \in [Client -> SUBSET (Nat \ {0})] /\ allOk' \in [Client -> BOOLEAN]
    BY <1>1, <2>2 DEF Forward, TypeOK
  <2>. QED BY <1>1, <2>1, <2>3, <2>4 DEF Forward, TypeOK
<1>2. CASE Finish(r)
  <2>1. inbox' \in [Client -> Seq(Response)]
    BY <1>2, SendTyped DEF Finish, TypeOK
  <2>. QED BY <1>2, <2>1 DEF Finish, TypeOK, HandlerPC
<1>3. CASE ForwardReport(r)
  <2>1. inbox' \in [Client -> Seq(Response)]
    BY <1>3, SendTyped DEF ForwardReport, TypeOK
  <2>. QED BY <1>3, <2>1 DEF ForwardReport, TypeOK, HandlerPC
<1>. QED BY <1>1, <1>2, <1>3

\* All of the handler.
LEMMA HandlerTyped ==
    ASSUME TypeOK, IsFiniteSet(connected), NEW r \in Client, HandlerStep(r)
    PROVE  TypeOK' /\ UNCHANGED connected
BY LeaseTyped, SelectionTyped, DispatchTyped, WaitTyped DEF HandlerStep, Advance

\* The events of the workers.
LEMMA BroadcastTyped ==
    ASSUME TypeOK, NEW events \in Seq(Event), Broadcast(events)
    PROVE  feed' \in [Client -> Seq(Event)]
BY DEF Broadcast, TypeOK

\* The ends of tasks.
LEMMA WorkerTyped ==
    ASSUME TypeOK, NEW r \in Runs, NEW i \in DOMAIN outcome[r], WorkerStep(r, i)
    PROVE  TypeOK' /\ UNCHANGED connected
<1>. USE DEF registryVars, clientVars, handlerVars, workerVars
<1>1. r \in Client /\ i \in Nat \ {0} /\ outcome[r] \in Seq({"running", "ok", "failed"})
  BY DEF TypeOK, Runs
<1>2. /\ \A ok \in BOOLEAN : Exited(r, i, ok) \in Event
      /\ Failed(r, i) \in Event
  BY <1>1 DEF Exited, Failed, Event
<1>5. /\ \A ok \in BOOLEAN : <<Exited(r, i, ok)>> \in Seq(Event)
      /\ <<Failed(r, i)>> \in Seq(Event)
      /\ <<Exited(r, i, FALSE), Failed(r, i)>> \in Seq(Event)
  <2>1. \A e, f \in Event : <<e>> \in Seq(Event) /\ <<e, f>> \in Seq(Event)
    OBVIOUS
  <2>. QED BY <1>2, <2>1
<1>3. CASE TaskExits(r, i)
  <2>1. PICK ok \in BOOLEAN :
          /\ outcome' = [outcome EXCEPT ![r][i] = IF ok THEN "ok" ELSE "failed"]
          /\ Broadcast(<<Exited(r, i, ok)>>)
    BY <1>3 DEF TaskExits
  <2>2. feed' \in [Client -> Seq(Event)]
    BY <1>5, <2>1, BroadcastTyped
  <2>3. outcome' \in [Client -> Seq({"running", "ok", "failed"})]
    BY <1>1, <2>1 DEF TypeOK
  <2>. QED BY <1>3, <2>2, <2>3 DEF TaskExits, TypeOK
<1>4. CASE TaskErrs(r, i)
  <2>1. feed' \in [Client -> Seq(Event)]
    BY <1>5, <1>4, BroadcastTyped DEF TaskErrs
  <2>2. outcome' \in [Client -> Seq({"running", "ok", "failed"})]
    <3>1. outcome' = [outcome EXCEPT ![r][i] = "failed"] \/ outcome' = outcome
      BY <1>4 DEF TaskErrs
    <3>2. outcome \in [Client -> Seq({"running", "ok", "failed"})]
      BY DEF TypeOK
    <3>3. [outcome[r] EXCEPT ![i] = "failed"] \in Seq({"running", "ok", "failed"})
      BY <1>1
    <3>. QED BY <1>1, <3>1, <3>2, <3>3
  <2>3. errors' \in Nat
    BY <1>4 DEF TaskErrs, TypeOK
  <2>. QED BY <1>4, <2>1, <2>2, <2>3 DEF TaskErrs, TypeOK
<1>. QED BY <1>3, <1>4 DEF WorkerStep

------------------------------------------------------------------------------
(* What one client's step leaves alone *)

\* All that the invariant says of a client, but for its events.
View(q) ==
    <<cpc[q], list[q], under[q], wait[q], exit[q], spc[q], todo[q], tasks[q], pending[q], allOk[q],
      inbox[q], outcome[q]>>

\* What is said of a client depends on its view only.
LEMMA SameView ==
    ASSUME NEW q \in Client, UNCHANGED View(q)
    PROVE  /\ Talks(q) => Talks(q)'
           /\ Selects(q) => Selects(q)'
           /\ Dispatches(q) => Dispatches(q)'
           /\ Spoiled(q) => Spoiled(q)'
           /\ Promised(q)' => Promised(q)
           /\ Real(q) => Real(q)'
<1>1. Talks(q) => Talks(q)'
  BY DEF View, Talks, Over
<1>2. Spoiled(q)' = Spoiled(q)
  BY DEF View, Spoiled
<1>3. Promised(q)' => Promised(q)
  BY DEF View, Promised, Final, Status
<1>4. Split(q)' = Split(q)
  BY DEF View, Split
<1>5. Selects(q) => Selects(q)'
  BY <1>2, <1>4 DEF View, Selects, Distinct
<1>6. (Dispatches(q) => Dispatches(q)') /\ (Real(q) => Real(q)')
  BY DEF View, Dispatches, Real
<1>. QED BY <1>1, <1>2, <1>3, <1>5, <1>6

\* A step of one agentctl changes no other's view ...
LEMMA ClientsStayApart ==
    ASSUME TypeOK, NEW r \in Client, ClientStep(r), NEW q \in Client, q # r
    PROVE  UNCHANGED View(q)
BY DEF ClientStep, Resolve, ResolveFails, Submit, Read, CutOff, Leave, End, View, TypeOK, registryVars,
       handlerVars, workerVars

\* ... and neither does a step of its handler.
LEMMA HandlersStayApart ==
    ASSUME TypeOK, NEW r \in Client, HandlerStep(r), NEW q \in Client, q # r
    PROVE  UNCHANGED View(q)
<1>. USE DEF View, TypeOK, registryVars, clientVars, handlerVars, workerVars
<1>1. ASSUME NEW type, NEW ok, Send(r, type, ok) PROVE inbox'[q] = inbox[q]
  BY <1>1 DEF Send
<1>2. CASE LeaseLock(r) \/ RunRefused(r) \/ Refuse(r) \/ LeaseGrant(r) \/ Reply(r) \/ SendFails(r)
  BY <1>1, <1>2 DEF LeaseLock, RunRefused, Refuse, LeaseGrant, Reply, SendFails
<1>3. CASE RunLock(r) \/ SelectNode(r) \/ SelectMissing(r) \/ RunUnlock(r) \/ RunNone(r)
  BY <1>1, <1>3 DEF RunLock, SelectNode, SelectMissing, RunUnlock, RunNone
<1>4. CASE RunAnnounce(r) \/ RunDispatch(r) \/ RunDispatchFails(r) \/ RunDispatched(r)
  BY <1>1, <1>4 DEF RunAnnounce, RunDispatch, RunDispatchFails, RunDispatched
<1>5. CASE Forward(r)
  <2>1. inbox'[q] = inbox[q]
    BY <1>1, <1>5 DEF Forward
  <2>2. pending'[q] = pending[q] /\ allOk'[q] = allOk[q]
    BY <1>5 DEF Forward
  <2>. QED BY <1>5, <2>1, <2>2 DEF Forward
<1>6. CASE ForwardReport(r) \/ Finish(r)
  BY <1>1, <1>6 DEF ForwardReport, Finish
<1>. QED BY <1>2, <1>3, <1>4, <1>5, <1>6 DEF HandlerStep, Advance

------------------------------------------------------------------------------
(* The conversation of a client and its handler *)

\* A response sent: an error spoils the request, nothing that was sent is taken back, and
\* only a final response with a good status promises anything.
LEMMA SendSays ==
    ASSUME TypeOK, NEW r \in Client, Talks(r), spc[r] \notin {"new", "gone"},
           NEW type \in {"started", "progress", "exited", "finished", "error", "ack", "lease"},
           NEW ok \in BOOLEAN, Send(r, type, ok), UNCHANGED <<cpc, exit>>
    PROVE  /\ type = "error" => Spoiled(r)'
           /\ Spoiled(r) => Spoiled(r)'
           /\ Promised(r)' =>
                 \/ type \in {"ack", "lease"}
                 \/ type = "finished" /\ ok
           /\ /\ spc'[r] # "new"
              /\ type \in {"finished", "ack", "lease"} => spc'[r] = "gone"
              => Talks(r)'
<1>. DEFINE response == [type |-> type, ok |-> ok]
<1>1. inbox[r] \in Seq(Response) /\ exit[r] \in {"none", "zero", "one"}
  BY DEF TypeOK
<1>2. \A i \in DOMAIN inbox[r] : inbox[r][i].type \notin {"finished", "ack", "lease"}
  BY DEF Talks
<1>3. exit[r] # "zero"
  BY DEF Talks
<1>4. CASE Over(r)
  <2>1. inbox' = inbox /\ exit[r] = "one" /\ inbox[r] = <<>>
    BY <1>1, <1>3, <1>4 DEF Send, Talks
  <2>2. Spoiled(r)' /\ ~Promised(r)'
    BY <2>1 DEF Spoiled, Promised
  <2>3. spc'[r] # "new" => Talks(r)'
    BY <2>1 DEF Talks, Over
  <2>. QED BY <2>2, <2>3
<1>5. CASE ~Over(r)
  <2>1. inbox'[r] = Append(inbox[r], response)
    BY <1>5 DEF Send, TypeOK
  <2>2. /\ DOMAIN (inbox'[r]) = 1..(Len(inbox[r]) + 1)
        /\ Len(inbox[r]) \in Nat /\ DOMAIN inbox[r] = 1..Len(inbox[r])
        /\ Len(inbox'[r]) = Len(inbox[r]) + 1
        /\ inbox'[r][Len(inbox[r]) + 1] = response
        /\ \A i \in DOMAIN inbox[r] : inbox'[r][i] = inbox[r][i]
    BY <1>1, <2>1
  <2>3. type = "error" => Spoiled(r)'
    <3>1. response.type = type
      OBVIOUS
    <3>2. Len(inbox[r]) + 1 \in DOMAIN (inbox'[r])
      BY <2>2
    <3>. QED BY <2>2, <3>1, <3>2 DEF Spoiled
  <2>4. Spoiled(r) => Spoiled(r)'
    BY <2>2 DEF Spoiled
  <2>5. \A i \in DOMAIN (inbox'[r]) : inbox'[r][i] = response \/
            (i \in DOMAIN inbox[r] /\ inbox'[r][i] = inbox[r][i])
    BY <2>2
  <2>6. ASSUME Promised(r)' PROVE type \in {"ack", "lease"} \/ (type = "finished" /\ ok)
    <3>1. PICK i \in DOMAIN (inbox'[r]) :
            Final(inbox'[r][i]) /\ Status(inbox'[r][i]) = "zero"
      BY <1>3, <2>6 DEF Promised
    <3>2. CASE inbox'[r][i] = response
      BY <3>1, <3>2 DEF Final, Status
    <3>3. CASE i \in DOMAIN inbox[r] /\ inbox'[r][i] = inbox[r][i]
      BY <1>2, <3>1, <3>3 DEF Final, Status
    <3>. QED BY <2>5, <3>2, <3>3
  <2>7. ASSUME spc'[r] # "new", type \in {"finished", "ack", "lease"} => spc'[r] = "gone"
        PROVE  Talks(r)'
    <3>1. ASSUME NEW i \in DOMAIN (inbox'[r]), inbox'[r][i].type \in {"finished", "ack", "lease"}
          PROVE  i = Len(inbox'[r]) /\ spc'[r] = "gone"
      <4>1. i \notin DOMAIN inbox[r]
        BY <1>2, <2>2, <3>1
      <4>2. inbox'[r][i] = response /\ i = Len(inbox'[r])
        BY <2>2, <4>1
      <4>3. type \in {"finished", "ack", "lease"}
        BY <3>1, <4>2
      <4>. QED BY <2>7, <4>2, <4>3
    <3>2. /\ cpc'[r] = cpc[r] /\ exit'[r] = exit[r] /\ ~Over(r)' /\ exit[r] = "none"
      BY <1>5 DEF Over, Talks
    <3>. QED BY <2>7, <3>1, <3>2 DEF Talks
  <2>. QED BY <2>3, <2>4, <2>6, <2>7
<1>. QED BY <1>4, <1>5

\* A step of the handler that sends nothing.
LEMMA SilenceSays ==
    ASSUME TypeOK, NEW r \in Client, Talks(r), spc[r] \notin {"new", "gone"},
           UNCHANGED <<cpc, exit, inbox>>
    PROVE  /\ Spoiled(r) => Spoiled(r)'
           /\ ~Promised(r)'
           /\ spc'[r] # "new" => Talks(r)'
<1>1. Spoiled(r) => Spoiled(r)'
  BY DEF Spoiled
<1>2. ~Promised(r)'
  BY DEF Promised, Final, Status, Talks
<1>3. spc'[r] # "new" => Talks(r)'
  BY DEF Talks, Over
<1>. QED BY <1>1, <1>2, <1>3

\* agentctl reads what it is sent, in order.
LEMMA ClientTalks ==
    ASSUME TypeOK, NEW r \in Client, Talks(r), ClientStep(r)
    PROVE  /\ Talks(r)'
           /\ Spoiled(r) => Spoiled(r)'
           /\ Promised(r)' => Promised(r)
<1>. USE DEF registryVars, clientVars, handlerVars, workerVars
<1>1. CASE Resolve(r)
  <2>1. UNCHANGED <<exit, spc, inbox>> /\ cpc[r] = "idle" /\ cpc'[r] = "resolved"
    BY <1>1 DEF Resolve, TypeOK
  <2>. QED BY <2>1 DEF Talks, Spoiled, Promised, Final, Status, Over
<1>2. CASE Submit(r)
  <2>1. UNCHANGED <<exit, inbox>> /\ cpc[r] = "resolved" /\ cpc'[r] = "reading"
        /\ spc'[r] = "begin"
    BY <1>2 DEF Submit, TypeOK
  <2>. QED BY <2>1 DEF Talks, Spoiled, Promised, Final, Status, Over
<1>3. ASSUME NEW how \in {"done", "left"}, NEW status \in {"zero", "one"},
             End(r, how, status), UNCHANGED spc,
             status = "zero" => spc[r] = "gone" /\ Promised(r) /\ ~Spoiled(r)
      PROVE  /\ Talks(r)'
             /\ Spoiled(r) => Spoiled(r)'
             /\ Promised(r)' => Promised(r)
  <2>1. cpc'[r] = how /\ exit'[r] = status /\ inbox'[r] = <<>>
    BY <1>3 DEF End, TypeOK
  <2>2. spc'[r] = spc[r]
    BY <1>3
  <2>. QED BY <1>3, <2>1, <2>2 DEF Talks, Spoiled, Promised, Over
<1>4. CASE CutOff(r) \/ Leave(r) \/ ResolveFails(r)
  <2>1. \E how \in {"done", "left"} : End(r, how, "one")
    BY <1>4 DEF CutOff, Leave, ResolveFails
  <2>2. UNCHANGED spc
    BY <1>4 DEF CutOff, Leave, ResolveFails
  <2>. QED BY <1>3, <2>1, <2>2
<1>5. CASE Read(r)
  <2>. DEFINE response == Head(inbox[r])
  <2>1. /\ inbox[r] \in Seq(Response) /\ inbox[r] # <<>> /\ cpc[r] = "reading" /\ UNCHANGED spc
        /\ response = inbox[r][1] /\ 1 \in DOMAIN inbox[r]
        /\ DOMAIN inbox[r] = 1..Len(inbox[r]) /\ Len(inbox[r]) \in Nat
    BY <1>5 DEF Read, TypeOK
  <2>2. CASE Final(response)
    <3>1. Status(response) \in {"zero", "one"}
      BY DEF Status
    <3>2. ASSUME Status(response) = "zero" PROVE spc[r] = "gone" /\ Promised(r) /\ ~Spoiled(r)
      <4>1. response.type \in {"finished", "ack", "lease"}
        BY <2>2, <3>2 DEF Final, Status
      <4>2. spc[r] = "gone" /\ Len(inbox[r]) = 1
        BY <2>1, <4>1 DEF Talks
      <4>3. exit[r] = "none"
        BY <2>1 DEF Talks, Over
      <4>4. ~Spoiled(r)
        BY <2>1, <4>1, <4>2, <4>3 DEF Spoiled
      <4>5. Promised(r)
        BY <2>1, <2>2, <3>2 DEF Promised
      <4>. QED BY <4>2, <4>4, <4>5
    <3>3. End(r, "done", Status(response))
      BY <1>5, <2>2 DEF Read
    <3>. QED BY <1>3, <2>1, <3>1, <3>2, <3>3
  <2>3. CASE ~Final(response)
    <3>1. inbox'[r] = Tail(inbox[r]) /\ UNCHANGED <<cpc, exit>>
      BY <1>5, <2>3 DEF Read, TypeOK
    <3>2. /\ Len(inbox'[r]) = Len(inbox[r]) - 1
          /\ DOMAIN (inbox'[r]) = 1..(Len(inbox[r]) - 1)
          /\ \A i \in DOMAIN (inbox'[r]) :
                i + 1 \in DOMAIN inbox[r] /\ inbox'[r][i] = inbox[r][i + 1]
      BY <2>1, <3>1
    <3>3. Spoiled(r) => Spoiled(r)'
      <4>1. SUFFICES ASSUME NEW i \in DOMAIN inbox[r], inbox[r][i].type = "error"
                     PROVE  \E k \in DOMAIN (inbox'[r]) : inbox'[r][k].type = "error"
        BY <3>1 DEF Spoiled
      <4>2. i # 1
        BY <2>1, <2>3, <4>1 DEF Final
      <4>3. i - 1 \in DOMAIN (inbox'[r]) /\ inbox'[r][i - 1] = inbox[r][i]
        BY <2>1, <3>2, <4>2
      <4>. QED BY <4>1, <4>3
    <3>4. Promised(r)' => Promised(r)
      BY <3>1, <3>2 DEF Promised
    <3>5. \A i \in DOMAIN (inbox'[r]) : inbox'[r][i].type \in {"finished", "ack", "lease"} =>
              i = Len(inbox'[r]) /\ spc'[r] = "gone"
      BY <2>1, <3>2 DEF Talks
    <3>6. ~Over(r)
      BY <2>1 DEF Over
    <3>. QED BY <2>1, <3>1, <3>3, <3>4, <3>5, <3>6 DEF Talks, Over
  <2>. QED BY <2>2, <2>3
<1>. QED BY <1>1, <1>2, <1>4, <1>5 DEF ClientStep

\* The handler's part of the conversation: only its last response promises anything, and
\* an error of its selection spoils the request.
LEMMA HandlerTalks ==
    ASSUME TypeOK, NEW r \in Client, Talks(r), HandlerStep(r)
    PROVE  /\ spc[r] \notin {"new", "gone"} /\ spc'[r] # "new"
           /\ UNCHANGED clientVars
           /\ Talks(r)'
           /\ Spoiled(r) => Spoiled(r)'
           /\ SelectMissing(r) => Spoiled(r)'
           /\ Promised(r)' => Reply(r) \/ (Finish(r) /\ allOk[r])
<1>. USE DEF registryVars, clientVars, handlerVars, workerVars
<1>. DEFINE Says == /\ Talks(r)'
                    /\ Spoiled(r) => Spoiled(r)'
                    /\ SelectMissing(r) => Spoiled(r)'
                    /\ Promised(r)' => Reply(r) \/ (Finish(r) /\ allOk[r])
<1>1. spc[r] \notin {"new", "gone"} /\ spc'[r] # "new" /\ UNCHANGED clientVars
  <2>1. CASE LeaseLock(r) \/ RunRefused(r) \/ Refuse(r) \/ LeaseGrant(r) \/ Reply(r)
    BY <2>1 DEF LeaseLock, RunRefused, Refuse, LeaseGrant, Reply, TypeOK
  <2>2. CASE RunLock(r) \/ SelectNode(r) \/ SelectMissing(r) \/ RunUnlock(r) \/ RunNone(r)
    BY <2>2 DEF RunLock, SelectNode, SelectMissing, RunUnlock, RunNone, TypeOK
  <2>3. CASE RunAnnounce(r) \/ RunDispatch(r) \/ RunDispatchFails(r) \/ RunDispatched(r)
    BY <2>3 DEF RunAnnounce, RunDispatch, RunDispatchFails, RunDispatched, TypeOK
  <2>4. CASE Forward(r) \/ ForwardReport(r) \/ Finish(r) \/ SendFails(r)
    BY <2>4 DEF Forward, ForwardReport, Finish, SendFails, AtSend, TypeOK
  <2>. QED BY <2>1, <2>2, <2>3, <2>4 DEF HandlerStep, Advance
<1>2. UNCHANGED <<cpc, exit>>
  BY <1>1
<1>3. ASSUME NEW type \in {"started", "progress", "exited", "error"}, NEW ok \in BOOLEAN,
             Send(r, type, ok), SelectMissing(r) => type = "error"
      PROVE  Says
  BY <1>1, <1>2, <1>3, SendSays
<1>4. ASSUME UNCHANGED inbox, ~SelectMissing(r)
      PROVE  Says
  BY <1>1, <1>2, <1>4, SilenceSays
<1>5. CASE SelectMissing(r) \/ Refuse(r) \/ RunNone(r)
  <2>1. Send(r, "error", FALSE)
    BY <1>5 DEF SelectMissing, Refuse, RunNone
  <2>. QED BY <1>1, <1>3, <2>1
<1>6. CASE RunAnnounce(r)
  <2>1. Send(r, "started", TRUE) /\ ~SelectMissing(r)
    BY <1>6 DEF RunAnnounce, SelectMissing
  <2>. QED BY <1>1, <1>3, <2>1
<1>7. CASE Forward(r)
  <2>1. Head(feed[r]).type \in {"exited", "error"} /\ Head(feed[r]).ok \in BOOLEAN
    <3>1. Head(feed[r]) \in Event
      BY <1>7 DEF Forward, TypeOK
    <3>. QED BY <3>1 DEF Event
  <2>2. ~SelectMissing(r)
    BY <1>7 DEF Forward, SelectMissing
  <2>3. Send(r, Head(feed[r]).type, Head(feed[r]).ok) \/ UNCHANGED inbox
    BY <1>7 DEF Forward
  <2>. QED BY <1>1, <1>3, <1>4, <2>1, <2>2, <2>3
<1>8. CASE Reply(r)
  <2>1. spc'[r] = "gone" /\ ~SelectMissing(r)
    BY <1>8 DEF Reply, TypeOK, SelectMissing
  <2>2. Send(r, "lease", TRUE) \/ Send(r, "ack", TRUE)
    BY <1>8 DEF Reply
  <2>3. Talks(r)' /\ (Spoiled(r) => Spoiled(r)')
    BY <1>1, <1>2, <2>1, <2>2, SendSays
  <2>. QED BY <1>1, <1>8, <2>1, <2>3
<1>9. CASE Finish(r)
  <2>1. spc'[r] = "gone" /\ ~SelectMissing(r)
    BY <1>9 DEF Finish, TypeOK, SelectMissing
  <2>2. Send(r, "finished", allOk[r]) /\ allOk[r] \in BOOLEAN
    BY <1>9 DEF Finish, TypeOK
  <2>3. Talks(r)' /\ (Spoiled(r) => Spoiled(r)') /\ (Promised(r)' => allOk[r])
    BY <1>1, <1>2, <2>1, <2>2, SendSays
  <2>. QED BY <1>1, <1>9, <2>1, <2>3
<1>10. CASE \/ LeaseLock(r) \/ RunRefused(r) \/ LeaseGrant(r) \/ RunLock(r) \/ SelectNode(r) \/ RunUnlock(r)
            \/ RunDispatch(r) \/ RunDispatchFails(r) \/ RunDispatched(r)
  <2>1. UNCHANGED inbox
    BY <1>10 DEF LeaseLock, RunRefused, LeaseGrant, RunLock, SelectNode, RunUnlock, RunDispatch,
                 RunDispatchFails, RunDispatched
  <2>2. ~SelectMissing(r)
    BY <1>10 DEF LeaseLock, RunRefused, LeaseGrant, RunLock, SelectNode, RunUnlock, RunDispatch,
                 RunDispatchFails, RunDispatched, SelectMissing
  <2>. QED BY <1>1, <1>4, <2>1, <2>2
<1>11. CASE SendFails(r)
  <2>1. UNCHANGED inbox /\ Over(r) /\ spc'[r] = "gone"
    BY <1>11 DEF SendFails, TypeOK
  <2>2. exit[r] = "one" /\ exit'[r] = "one"
    BY <1>1, <1>2, <2>1 DEF Talks, TypeOK
  <2>3. Spoiled(r)'
    BY <2>2 DEF Spoiled
  <2>. QED BY <1>1, <1>2, <2>1, <2>3, SilenceSays
<1>12. CASE ForwardReport(r)
  <2>1. ~SelectMissing(r) /\ (Send(r, "progress", TRUE) \/ UNCHANGED inbox)
    BY <1>12 DEF ForwardReport, SelectMissing
  <2>. QED BY <1>1, <1>3, <1>4, <2>1
<1>. QED BY <1>1, <1>5, <1>6, <1>7, <1>8, <1>9, <1>10, <1>11, <1>12 DEF HandlerStep, Advance

------------------------------------------------------------------------------
(* The selection *)

\* The list is taken over as the user gave it.
LEMMA SelectionBegins ==
    ASSUME TypeOK, IsFiniteSet(connected), NEW r \in Runs, Selects(r), RunLock(r)
    PROVE  Selects(r)'
<1>1. r \in Client /\ tasks'[r] = <<>> /\ list'[r] = list[r] /\ spc'[r] = "select"
  BY DEF RunLock, Runs, Selects, TypeOK, clientVars
<1>. SUFFICES ASSUME list[r] # <<>> PROVE Selects(r)'
  BY <1>1 DEF Selects
<1>2. todo'[r] = list[r] /\ list[r] \in Seq(Node)
  BY <1>1 DEF RunLock, Target, TypeOK
<1>3. Split(r)'
  BY <1>1, <1>2 DEF Split
<1>. QED BY <1>1, <1>2, <1>3 DEF Selects, Distinct

\* A node that is taken moves from what is left to what was taken.
LEMMA SelectionTakes ==
    ASSUME TypeOK, NEW r \in Runs, Selects(r), SelectNode(r)
    PROVE  Selects(r)'
<1>1. /\ r \in Client /\ spc[r] = "select" /\ todo[r] # <<>>
      /\ tasks'[r] = Append(tasks[r], Head(todo[r])) /\ todo'[r] = Tail(todo[r])
      /\ UNCHANGED <<list, spc, exit, inbox>>
      /\ tasks[r] \in Seq(Node) /\ todo[r] \in Seq(Node) /\ list[r] \in Seq(Node)
  BY DEF SelectNode, Runs, TypeOK, clientVars
<1>2. /\ Len(tasks[r]) \in Nat /\ Len(todo[r]) \in Nat /\ Len(todo[r]) > 0
      /\ DOMAIN tasks[r] = 1..Len(tasks[r]) /\ DOMAIN todo[r] = 1..Len(todo[r])
      /\ Head(todo[r]) = todo[r][1] /\ 1 \in DOMAIN todo[r]
  BY <1>1
<1>3. /\ DOMAIN (tasks'[r]) = 1..(Len(tasks[r]) + 1) /\ Len(tasks'[r]) = Len(tasks[r]) + 1
      /\ \A i \in DOMAIN tasks[r] : tasks'[r][i] = tasks[r][i]
      /\ tasks'[r][Len(tasks[r]) + 1] = todo[r][1]
  BY <1>1, <1>2
<1>4. /\ DOMAIN (todo'[r]) = 1..(Len(todo[r]) - 1) /\ Len(todo'[r]) = Len(todo[r]) - 1
      /\ \A i \in DOMAIN (todo'[r]) : i + 1 \in DOMAIN todo[r] /\ todo'[r][i] = todo[r][i + 1]
  BY <1>1, <1>2
<1>5. Spoiled(r) => Spoiled(r)'
  BY <1>1 DEF Spoiled
<1>. SUFFICES ASSUME list[r] # <<>> PROVE Selects(r)'
  BY <1>1 DEF Selects
<1>6. Split(r) => Split(r)'
  <2>. SUFFICES ASSUME Split(r) PROVE Split(r)'
    OBVIOUS
  <2>1. Len(tasks'[r]) + Len(todo'[r]) = Len(list'[r])
    <3>1. Len(tasks[r]) + Len(todo[r]) = Len(list[r])
      BY DEF Split
    <3>2. list'[r] = list[r]
      BY <1>1
    <3>3. \A a, b \in Nat : (a + 1) + (b - 1) = a + b
      OBVIOUS
    <3>4. Len(tasks'[r]) = Len(tasks[r]) + 1 /\ Len(todo'[r]) = Len(todo[r]) - 1
      BY <1>3, <1>4
    <3>5. Len(tasks[r]) \in Nat /\ Len(todo[r]) \in Nat
      BY <1>2
    <3>. QED BY <3>1, <3>2, <3>3, <3>4, <3>5
  <2>2. \A i \in DOMAIN (tasks'[r]) : tasks'[r][i] = list'[r][i]
    <3>1. todo[r][1] = list[r][1 + Len(tasks[r])]
      BY <1>2 DEF Split
    <3>. QED BY <1>1, <1>2, <1>3, <3>1 DEF Split
  <2>3. \A i \in DOMAIN (todo'[r]) : todo'[r][i] = list'[r][i + Len(tasks'[r])]
    <3>. SUFFICES ASSUME NEW i \in DOMAIN (todo'[r])
                  PROVE  todo'[r][i] = list'[r][i + Len(tasks'[r])]
      OBVIOUS
    <3>1. todo'[r][i] = list[r][(i + 1) + Len(tasks[r])]
      BY <1>4 DEF Split
    <3>2. (i + 1) + Len(tasks[r]) = i + Len(tasks'[r])
      <4>1. \A a, b \in Nat : (b + 1) + a = b + (a + 1)
        OBVIOUS
      <4>2. i \in Nat /\ Len(tasks[r]) \in Nat
        BY <1>2, <1>4
      <4>3. Len(tasks'[r]) = Len(tasks[r]) + 1
        BY <1>3
      <4>. QED BY <4>1, <4>2, <4>3
    <3>. QED BY <1>1, <3>1, <3>2
  <2>. QED BY <2>1, <2>2, <2>3 DEF Split
<1>7. \A i \in DOMAIN (tasks'[r]) :
          (i \in DOMAIN tasks[r] /\ tasks'[r][i] = tasks[r][i])
          \/ (i = Len(tasks[r]) + 1 /\ tasks'[r][i] = todo[r][1])
  BY <1>2, <1>3
<1>8. \A i \in DOMAIN (tasks'[r]) : \E k \in DOMAIN list[r] : list[r][k] = tasks'[r][i]
  BY <1>2, <1>7 DEF Selects
<1>9. \A i \in DOMAIN (todo'[r]) : \E k \in DOMAIN list[r] : list[r][k] = todo'[r][i]
  BY <1>4 DEF Selects
<1>10. ASSUME Distinct(list[r])
       PROVE  /\ \A i, k \in DOMAIN (tasks'[r]) : tasks'[r][i] = tasks'[r][k] => i = k
              /\ \A i, k \in DOMAIN (todo'[r]) : todo'[r][i] = todo'[r][k] => i = k
              /\ \A i \in DOMAIN (tasks'[r]) : \A k \in DOMAIN (todo'[r]) :
                    tasks'[r][i] # todo'[r][k]
  <2>1. /\ \A i, k \in DOMAIN tasks[r] : tasks[r][i] = tasks[r][k] => i = k
        /\ \A i, k \in DOMAIN todo[r] : todo[r][i] = todo[r][k] => i = k
        /\ \A i \in DOMAIN tasks[r] : \A k \in DOMAIN todo[r] : tasks[r][i] # todo[r][k]
    BY <1>10 DEF Selects, Distinct
  <2>2. \A i, k \in DOMAIN (tasks'[r]) : tasks'[r][i] = tasks'[r][k] => i = k
    BY <1>2, <1>7, <2>1
  <2>3. \A i, k \in DOMAIN (todo'[r]) : todo'[r][i] = todo'[r][k] => i = k
    <3>. SUFFICES ASSUME NEW i \in DOMAIN (todo'[r]), NEW k \in DOMAIN (todo'[r]),
                         todo'[r][i] = todo'[r][k]
                  PROVE  i = k
      OBVIOUS
    <3>1. i + 1 = k + 1
      BY <1>4, <2>1
    <3>. QED BY <1>2, <1>4, <3>1
  <2>4. \A i \in DOMAIN (tasks'[r]) : \A k \in DOMAIN (todo'[r]) : tasks'[r][i] # todo'[r][k]
    <3>. SUFFICES ASSUME NEW i \in DOMAIN (tasks'[r]), NEW k \in DOMAIN (todo'[r])
                  PROVE  tasks'[r][i] # todo'[r][k]
      OBVIOUS
    <3>1. todo'[r][k] = todo[r][k + 1] /\ k + 1 \in DOMAIN todo[r] /\ k + 1 # 1
      BY <1>2, <1>4
    <3>. QED BY <1>2, <1>7, <2>1, <3>1
  <2>. QED BY <2>2, <2>3, <2>4
<1>. QED BY <1>1, <1>5, <1>6, <1>8, <1>9, <1>10 DEF Selects, Distinct

\* A node that is missed costs an error.
LEMMA SelectionMisses ==
    ASSUME TypeOK, NEW r \in Runs, Selects(r), SelectMissing(r), Spoiled(r)'
    PROVE  Selects(r)'
<1>1. /\ r \in Client /\ spc[r] = "select" /\ todo[r] # <<>> /\ todo'[r] = Tail(todo[r])
      /\ UNCHANGED <<list, spc, tasks>> /\ todo[r] \in Seq(Node)
  BY DEF SelectMissing, Runs, TypeOK, clientVars
<1>2. /\ DOMAIN (todo'[r]) = 1..(Len(todo[r]) - 1) /\ Len(todo[r]) \in Nat
      /\ \A i \in DOMAIN (todo'[r]) : i + 1 \in DOMAIN todo[r] /\ todo'[r][i] = todo[r][i + 1]
  BY <1>1
<1>3. Distinct(todo[r]) =>
          \A i, k \in DOMAIN (todo'[r]) : todo'[r][i] = todo'[r][k] => i = k
  <2>. SUFFICES ASSUME Distinct(todo[r]), NEW i \in DOMAIN (todo'[r]),
                       NEW k \in DOMAIN (todo'[r]), todo'[r][i] = todo'[r][k]
                PROVE  i = k
    OBVIOUS
  <2>1. i + 1 = k + 1
    BY <1>2 DEF Distinct
  <2>. QED BY <1>2, <2>1
<1>4. \A i \in DOMAIN (todo'[r]) : \E k \in DOMAIN todo[r] : todo'[r][i] = todo[r][k]
  BY <1>2
<1>. QED BY <1>1, <1>3, <1>4 DEF Selects, Distinct

\* The list has been gone through.
LEMMA SelectionEnds ==
    ASSUME TypeOK, NEW r \in Runs, Selects(r), RunUnlock(r)
    PROVE  Selects(r)'
<1>1. /\ r \in Client /\ spc[r] = "select" /\ todo[r] = <<>>
      /\ spc'[r] \in {"none", "announce"}
      /\ UNCHANGED <<list, tasks, todo, exit, inbox>>
      /\ tasks[r] \in Seq(Node) /\ list[r] \in Seq(Node)
  BY DEF RunUnlock, Runs, TypeOK, clientVars
<1>2. Spoiled(r) => Spoiled(r)'
  BY <1>1 DEF Spoiled
<1>3. Split(r) => tasks[r] = list[r]
  <2>. SUFFICES ASSUME Split(r) PROVE tasks[r] = list[r]
    OBVIOUS
  <2>1. Len(todo[r]) = 0 /\ Len(tasks[r]) \in Nat /\ Len(list[r]) \in Nat
    BY <1>1
  <2>2. Len(tasks[r]) = Len(list[r])
    BY <2>1 DEF Split
  <2>3. \A i \in 1..Len(tasks[r]) : tasks[r][i] = list[r][i]
    BY <1>1 DEF Split
  <2>. QED BY <1>1, <2>2, <2>3
<1>. QED BY <1>1, <1>2, <1>3 DEF Selects, Distinct

\* The selection of a run through a step of its handler.
LEMMA HandlerSelects ==
    ASSUME TypeOK, IsFiniteSet(connected), NEW r \in Runs, Talks(r), Selects(r), Dispatches(r),
           HandlerStep(r)
    PROVE  Selects(r)'
<1>. USE DEF registryVars, clientVars, handlerVars, workerVars
<1>1. r \in Client
  BY DEF Runs
<1>2. (Spoiled(r) => Spoiled(r)') /\ (SelectMissing(r) => Spoiled(r)')
  BY <1>1, HandlerTalks
<1>3. ASSUME UNCHANGED <<list[r], tasks[r], todo[r]>>, spc'[r] \notin {"new", "begin", "select"},
             spc'[r] \in {"announce", "dispatch", "waiting", "reply"} =>
                 spc[r] \in {"announce", "dispatch", "waiting", "reply"}
      PROVE  Selects(r)'
  BY <1>2, <1>3 DEF Selects, Distinct
<1>4. CASE LeaseLock(r) \/ LeaseGrant(r)
  BY <1>4 DEF LeaseLock, LeaseGrant, Runs
<1>5. CASE \/ RunRefused(r) \/ Refuse(r) \/ Reply(r) \/ SendFails(r) \/ RunNone(r)
           \/ RunDispatchFails(r) \/ Finish(r)
  <2>1. UNCHANGED <<list, tasks, todo>> /\ spc'[r] \in {"refuse", "gone"}
    BY <1>1, <1>5 DEF RunRefused, Refuse, Reply, SendFails, RunNone, RunDispatchFails, Finish, TypeOK
  <2>. QED BY <1>3, <2>1
<1>6. CASE RunAnnounce(r) \/ RunDispatch(r) \/ RunDispatched(r) \/ Forward(r)
  <2>1. /\ UNCHANGED <<list, tasks, todo>> /\ spc'[r] \in {"dispatch", "waiting", "reply"}
        /\ spc[r] \in {"announce", "dispatch", "waiting", "reply"}
    BY <1>1, <1>6 DEF RunAnnounce, RunDispatch, RunDispatched, Forward, TypeOK
  <2>. QED BY <1>3, <2>1
<1>7. CASE ForwardReport(r)
  <2>1. UNCHANGED <<list, tasks, todo>> /\ spc[r] = "waiting" /\ spc'[r] \in {"waiting", "gone"}
    BY <1>1, <1>7 DEF ForwardReport, TypeOK
  <2>. QED BY <1>3, <2>1
<1>. QED BY <1>2, <1>4, <1>5, <1>6, <1>7, SelectionBegins, SelectionTakes, SelectionMisses,
            SelectionEnds DEF HandlerStep, Advance

------------------------------------------------------------------------------
(* The tasks *)

\* What is sent is of what was made, and what is crossed off has succeeded.
LEMMA HandlerDispatches ==
    ASSUME TypeOK, NEW r \in Runs, Dispatches(r), SuccessesAreReal, HandlerStep(r)
    PROVE  Dispatches(r)'
<1>. USE DEF registryVars, clientVars, handlerVars, workerVars
<1>1. /\ r \in Client /\ r \notin Leasing /\ tasks[r] \in Seq(Node)
      /\ outcome[r] \in Seq({"running", "ok", "failed"})
  BY DEF Runs, TypeOK
<1>2. ASSUME UNCHANGED <<wait[r], tasks[r], outcome[r]>>,
             spc'[r] \in {"begin", "refuse", "select", "none", "gone"}
      PROVE  Dispatches(r)'
  BY <1>2 DEF Dispatches
<1>3. CASE \/ Reply(r) \/ SendFails(r) \/ RunLock(r) \/ RunRefused(r) \/ Refuse(r)
           \/ SelectMissing(r) \/ RunNone(r) \/ RunDispatchFails(r) \/ Finish(r)
  <2>1. /\ UNCHANGED <<wait, tasks, outcome>>
        /\ spc'[r] \in {"begin", "refuse", "select", "none", "gone"}
    BY <1>1, <1>3 DEF Reply, SendFails, RunLock, RunRefused, Refuse, SelectMissing, RunNone,
                      RunDispatchFails, Finish, TypeOK
  <2>. QED BY <1>2, <2>1
<1>4. CASE LeaseLock(r) \/ LeaseGrant(r)
  BY <1>1, <1>4 DEF LeaseLock, LeaseGrant
<1>5. CASE SelectNode(r)
  <2>1. /\ UNCHANGED <<wait, outcome, spc>> /\ spc[r] = "select"
        /\ tasks'[r] = Append(tasks[r], Head(todo[r]))
    BY <1>1, <1>5 DEF SelectNode, TypeOK
  <2>2. Len(tasks'[r]) = Len(tasks[r]) + 1 /\ Len(tasks[r]) \in Nat /\ Len(outcome[r]) \in Nat
    BY <1>1, <2>1
  <2>3. Len(outcome[r]) <= Len(tasks'[r])
    BY <2>2 DEF Dispatches
  <2>. QED BY <2>1, <2>3 DEF Dispatches
<1>6. CASE RunUnlock(r)
  <2>1. /\ UNCHANGED <<wait, outcome, tasks>>
        /\ spc'[r] = IF tasks[r] = <<>> THEN "none" ELSE "announce"
    BY <1>1, <1>6 DEF RunUnlock, TypeOK
  <2>. QED BY <2>1 DEF Dispatches
<1>7. CASE RunAnnounce(r)
  <2>1. UNCHANGED <<wait, outcome, tasks>> /\ spc[r] = "announce" /\ spc'[r] = "dispatch"
    BY <1>1, <1>7 DEF RunAnnounce, TypeOK
  <2>. QED BY <2>1 DEF Dispatches
<1>8. CASE RunDispatch(r)
  <2>1. /\ UNCHANGED <<wait, tasks, spc>> /\ spc[r] = "dispatch"
        /\ outcome'[r] = Append(outcome[r], "running") /\ Len(outcome[r]) < Len(tasks[r])
    BY <1>1, <1>8 DEF RunDispatch, TypeOK
  <2>2. Len(outcome'[r]) = Len(outcome[r]) + 1 /\ Len(tasks[r]) \in Nat /\ Len(outcome[r]) \in Nat
    BY <1>1, <2>1
  <2>3. Len(outcome'[r]) <= Len(tasks[r])
    BY <2>1, <2>2
  <2>. QED BY <2>1, <2>3 DEF Dispatches
<1>9. CASE RunDispatched(r)
  <2>1. /\ UNCHANGED <<wait, tasks, outcome>> /\ spc[r] = "dispatch"
        /\ Len(outcome[r]) = Len(tasks[r]) /\ pending'[r] = DOMAIN tasks[r]
        /\ spc'[r] = IF wait[r] THEN "waiting" ELSE "reply"
    BY <1>1, <1>9 DEF RunDispatched, TypeOK
  <2>2. DOMAIN outcome[r] = DOMAIN tasks[r]
    BY <1>1, <2>1
  <2>. QED BY <2>1, <2>2 DEF Dispatches
<1>10. CASE Forward(r)
  <2>. DEFINE event == Head(feed[r])
              exits == event.type = "exited" /\ event.task \in {r} \X pending[r]
  <2>1. /\ UNCHANGED <<wait, tasks, outcome, spc>> /\ spc[r] = "waiting" /\ feed[r] # <<>>
        /\ pending'[r] = IF exits THEN pending[r] \ {event.task[2]} ELSE pending[r]
        /\ allOk'[r] = IF exits THEN allOk[r] /\ event.ok ELSE allOk[r]
    BY <1>1, <1>10 DEF Forward, TypeOK
  <2>2. exits /\ event.ok => outcome[r][event.task[2]] = "ok"
    <3>1. event = feed[r][1] /\ 1 \in DOMAIN feed[r]
      BY <1>1, <2>1 DEF TypeOK
    <3>2. event.task \in {r} \X pending[r] => event.task[1] = r
      OBVIOUS
    <3>. QED BY <1>1, <3>1, <3>2 DEF SuccessesAreReal
  <2>3. ASSUME allOk'[r], NEW i \in DOMAIN outcome[r], i \notin pending'[r]
        PROVE  outcome[r][i] = "ok"
    <3>1. CASE i \notin pending[r]
      BY <2>1, <2>3, <3>1 DEF Dispatches
    <3>2. CASE i \in pending[r]
      <4>1. exits /\ i = event.task[2] /\ event.ok
        BY <2>1, <2>3, <3>2
      <4>. QED BY <2>2, <4>1
    <3>. QED BY <3>1, <3>2
  <2>. QED BY <2>1, <2>3 DEF Dispatches
<1>11. CASE ForwardReport(r)
  <2>1. /\ UNCHANGED <<wait, tasks, outcome, pending, allOk>>
        /\ spc'[r] = spc[r] \/ spc'[r] = "gone"
    BY <1>1, <1>11 DEF ForwardReport, TypeOK
  <2>. QED BY <1>2, <2>1 DEF Dispatches
<1>. QED BY <1>3, <1>4, <1>5, <1>6, <1>7, <1>8, <1>9, <1>10, <1>11 DEF HandlerStep, Advance

------------------------------------------------------------------------------
(* The events *)

\* Events are about tasks of clients.
LEMMA EventsNameTasks ==
    ASSUME TypeOK, NEW q \in Client, NEW k \in DOMAIN feed[q]
    PROVE  feed[q][k] \in Event /\ feed[q][k].task[1] \in Client
<1>1. feed[q] \in Seq(Event)
  BY DEF TypeOK
<1>2. feed[q][k] \in Event
  BY <1>1
<1>3. feed[q][k].task \in Client \X (Nat \ {0})
  BY <1>2 DEF Event
<1>. QED BY <1>2, <1>3

\* A handler reads events and dispatches tasks; it makes up neither.
LEMMA HandlerHears ==
    ASSUME TypeOK, NEW r \in Client, HandlerStep(r), SuccessesAreReal
    PROVE  SuccessesAreReal'
<1>. USE DEF registryVars, clientVars, handlerVars, workerVars
<1>1. \A q \in Client : \A i \in DOMAIN outcome[q] :
          i \in DOMAIN (outcome'[q]) /\ outcome'[q][i] = outcome[q][i]
  <2>1. CASE RunDispatch(r)
    <3>1. outcome' = [outcome EXCEPT ![r] = Append(@, "running")]
      BY <2>1 DEF RunDispatch
    <3>2. \A q \in Client : outcome[q] \in Seq({"running", "ok", "failed"})
      BY DEF TypeOK
    <3>3. outcome \in [Client -> Seq({"running", "ok", "failed"})]
      BY DEF TypeOK
    <3>4. /\ \A i \in DOMAIN outcome[r] :
                i \in DOMAIN Append(outcome[r], "running")
                /\ Append(outcome[r], "running")[i] = outcome[r][i]
      BY <3>2
    <3>. QED BY <3>1, <3>3, <3>4
  <2>2. CASE ~RunDispatch(r)
    <3>1. UNCHANGED outcome
      BY <2>2 DEF HandlerStep, Advance, LeaseLock, RunRefused, Refuse, LeaseGrant, Reply, RunLock,
           SelectNode, SelectMissing, RunUnlock, RunNone, RunAnnounce, RunDispatchFails,
           RunDispatched, Forward, ForwardReport, Finish, SendFails
    <3>. QED BY <3>1
  <2>. QED BY <2>1, <2>2
<1>2. \A q \in Client : \A i \in DOMAIN (feed'[q]) :
          \E k \in DOMAIN feed[q] : feed'[q][i] = feed[q][k]
  <2>1. CASE Forward(r)
    <3>1. feed' = [feed EXCEPT ![r] = Tail(@)] /\ feed[r] # <<>>
      BY <2>1 DEF Forward
    <3>2. feed \in [Client -> Seq(Event)] /\ feed[r] \in Seq(Event)
      BY DEF TypeOK
    <3>3. \A i \in DOMAIN Tail(feed[r]) :
              i + 1 \in DOMAIN feed[r] /\ Tail(feed[r])[i] = feed[r][i + 1]
      BY <3>1, <3>2
    <3>. QED BY <3>1, <3>2, <3>3
  <2>2. CASE ~Forward(r)
    <3>1. UNCHANGED feed
      BY <2>2 DEF HandlerStep, Advance, LeaseLock, RunRefused, Refuse, LeaseGrant, Reply, RunLock,
           SelectNode, SelectMissing, RunUnlock, RunNone, RunAnnounce, RunDispatch,
           RunDispatchFails, RunDispatched, ForwardReport, Finish, SendFails
    <3>. QED BY <3>1
  <2>. QED BY <2>1, <2>2
<1>3. \A q \in Client : \A k \in DOMAIN feed[q] : feed[q][k].task[1] \in Client
  BY EventsNameTasks
<1>. QED BY <1>1, <1>2, <1>3 DEF SuccessesAreReal

\* A task that ends keeps its place, and one that has succeeded its success.
LEMMA OutcomesSettle ==
    ASSUME TypeOK, NEW r \in Runs, NEW i \in DOMAIN outcome[r], WorkerStep(r, i)
    PROVE  /\ \A q \in Client :
                 /\ Len(outcome'[q]) = Len(outcome[q])
                 /\ DOMAIN (outcome'[q]) = DOMAIN outcome[q]
                 /\ \A k \in DOMAIN outcome[q] : outcome[q][k] = "ok" => outcome'[q][k] = "ok"
           /\ TaskExits(r, i) => outcome[r][i] = "running"
<1>1. /\ r \in Client /\ outcome \in [Client -> Seq({"running", "ok", "failed"})]
      /\ outcome[r] \in Seq({"running", "ok", "failed"})
  BY DEF TypeOK, Runs
<1>2. \/ UNCHANGED outcome
      \/ /\ outcome[r][i] = "running"
         /\ \E o \in {"ok", "failed"} : outcome' = [outcome EXCEPT ![r][i] = o]
  BY DEF WorkerStep, TaskExits, TaskErrs
<1>3. ASSUME outcome[r][i] = "running", NEW o, outcome' = [outcome EXCEPT ![r][i] = o]
      PROVE  \A q \in Client :
                 /\ Len(outcome'[q]) = Len(outcome[q])
                 /\ DOMAIN (outcome'[q]) = DOMAIN outcome[q]
                 /\ \A k \in DOMAIN outcome[q] : outcome[q][k] = "ok" => outcome'[q][k] = "ok"
  <2>1. outcome'[r] = [outcome[r] EXCEPT ![i] = o] /\ \A q \in Client \ {r} : outcome'[q] = outcome[q]
    BY <1>1, <1>3
  <2>2. /\ DOMAIN (outcome'[r]) = DOMAIN outcome[r] /\ Len(outcome'[r]) = Len(outcome[r])
        /\ \A k \in DOMAIN outcome[r] : k # i => outcome'[r][k] = outcome[r][k]
    BY <1>1, <2>1
  <2>. QED BY <1>3, <2>1, <2>2
<1>4. TaskExits(r, i) => outcome[r][i] = "running"
  BY DEF TaskExits
<1>. QED BY <1>2, <1>3, <1>4

\* What a subscription holds after a broadcast.
LEMMA BroadcastSays ==
    ASSUME TypeOK, NEW events \in Seq(Event), Broadcast(events),
           NEW q \in Client, NEW k \in DOMAIN (feed'[q])
    PROVE  \/ \E m \in DOMAIN feed[q] : feed'[q][k] = feed[q][m]
           \/ \E m \in DOMAIN events : feed'[q][k] = events[m]
<1>1. feed[q] \in Seq(Event)
  BY DEF TypeOK
<1>2. feed'[q] = feed[q] \o events \/ feed'[q] = feed[q]
  BY DEF Broadcast
<1>3. CASE feed'[q] = feed[q] \o events
  <2>1. /\ Len(feed[q]) \in Nat /\ Len(events) \in Nat /\ DOMAIN feed[q] = 1..Len(feed[q])
        /\ DOMAIN events = 1..Len(events)
        /\ DOMAIN (feed'[q]) = 1..(Len(feed[q]) + Len(events))
        /\ \A m \in 1..(Len(feed[q]) + Len(events)) :
              feed'[q][m] = IF m <= Len(feed[q]) THEN feed[q][m] ELSE events[m - Len(feed[q])]
    BY <1>1, <1>3
  <2>2. CASE k <= Len(feed[q])
    BY <2>1, <2>2
  <2>3. CASE ~(k <= Len(feed[q]))
    <3>1. k - Len(feed[q]) \in DOMAIN events
      BY <2>1, <2>3
    <3>. QED BY <2>1, <2>3, <3>1
  <2>. QED BY <2>2, <2>3
<1>4. CASE feed'[q] = feed[q]
  BY <1>4
<1>. QED BY <1>2, <1>3, <1>4

\* The events tell the truth.
LEMMA WorkersAreHeard ==
    ASSUME TypeOK, NEW r \in Runs, NEW i \in DOMAIN outcome[r], WorkerStep(r, i),
           SuccessesAreReal
    PROVE  SuccessesAreReal'
<1>1. /\ r \in Client /\ outcome \in [Client -> Seq({"running", "ok", "failed"})]
      /\ outcome[r] \in Seq({"running", "ok", "failed"}) /\ i \in Nat \ {0}
  BY DEF TypeOK, Runs
<1>2. PICK events \in Seq(Event) :
        /\ Broadcast(events)
        /\ \A m \in DOMAIN events : events[m].type = "exited" /\ events[m].ok =>
              events[m].task = <<r, i>> /\ outcome'[r][i] = "ok"
  <2>1. /\ \A ok \in BOOLEAN : Exited(r, i, ok) \in Event
        /\ Failed(r, i) \in Event
    BY <1>1 DEF Exited, Failed, Event
  <2>2. CASE TaskExits(r, i)
    <3>1. PICK ok \in BOOLEAN :
            /\ outcome' = [outcome EXCEPT ![r][i] = IF ok THEN "ok" ELSE "failed"]
            /\ Broadcast(<<Exited(r, i, ok)>>)
      BY <2>2 DEF TaskExits
    <3>2. outcome'[r][i] = IF ok THEN "ok" ELSE "failed"
      BY <1>1, <3>1
    <3>3. <<Exited(r, i, ok)>> \in Seq(Event)
      BY <2>1
    <3>4. \A m \in DOMAIN <<Exited(r, i, ok)>> : <<Exited(r, i, ok)>>[m] = Exited(r, i, ok)
      OBVIOUS
    <3>5. Exited(r, i, ok).task = <<r, i>> /\ Exited(r, i, ok).ok = ok
      BY DEF Exited
    <3>. QED BY <3>1, <3>2, <3>3, <3>4, <3>5
  <2>3. CASE TaskErrs(r, i)
    <3>1. /\ <<Failed(r, i)>> \in Seq(Event)
          /\ <<Exited(r, i, FALSE), Failed(r, i)>> \in Seq(Event)
      <4>1. \A e, f \in Event : <<e>> \in Seq(Event) /\ <<e, f>> \in Seq(Event)
        OBVIOUS
      <4>. QED BY <2>1, <4>1
    <3>2. ~Exited(r, i, FALSE).ok /\ ~Failed(r, i).ok
      BY DEF Exited, Failed
    <3>3. /\ \A m \in DOMAIN <<Failed(r, i)>> : ~<<Failed(r, i)>>[m].ok
          /\ \A m \in DOMAIN <<Exited(r, i, FALSE), Failed(r, i)>> :
                ~<<Exited(r, i, FALSE), Failed(r, i)>>[m].ok
      <4>1. PICK e, f : e = Exited(r, i, FALSE) /\ f = Failed(r, i)
        OBVIOUS
      <4>2. ~e.ok /\ ~f.ok
        BY <3>2, <4>1
      <4>3. \A m \in DOMAIN <<f>> : <<f>>[m] = f
        OBVIOUS
      <4>4. \A m \in DOMAIN <<e, f>> : <<e, f>>[m] = e \/ <<e, f>>[m] = f
        OBVIOUS
      <4>5. (\A m \in DOMAIN <<f>> : ~<<f>>[m].ok) /\ (\A m \in DOMAIN <<e, f>> : ~<<e, f>>[m].ok)
        BY <4>2, <4>3, <4>4
      <4>. QED BY <4>1, <4>5
    <3>4. Broadcast(<<Failed(r, i)>>) \/ Broadcast(<<Exited(r, i, FALSE), Failed(r, i)>>)
      BY <2>3 DEF TaskErrs
    <3>. QED BY <3>1, <3>3, <3>4
  <2>. QED BY <2>2, <2>3 DEF WorkerStep
<1>3. ASSUME NEW q \in Client, NEW k \in DOMAIN (feed'[q]),
             feed'[q][k].type = "exited", feed'[q][k].ok
      PROVE  /\ feed'[q][k].task[2] \in DOMAIN (outcome'[feed'[q][k].task[1]])
             /\ outcome'[feed'[q][k].task[1]][feed'[q][k].task[2]] = "ok"
  <2>1. CASE \E m \in DOMAIN feed[q] : feed'[q][k] = feed[q][m]
    <3>1. PICK m \in DOMAIN feed[q] : feed'[q][k] = feed[q][m]
      BY <2>1
    <3>2. feed[q][m].task[1] \in Client
      BY EventsNameTasks
    <3>. QED BY <1>3, <3>1, <3>2, OutcomesSettle DEF SuccessesAreReal
  <2>2. CASE \E m \in DOMAIN events : feed'[q][k] = events[m]
    <3>1. feed'[q][k].task = <<r, i>> /\ outcome'[r][i] = "ok"
      BY <1>2, <1>3, <2>2
    <3>2. i \in DOMAIN (outcome'[r])
      BY <1>1, OutcomesSettle
    <3>. QED BY <3>1, <3>2
  <2>. QED BY <1>2, <2>1, <2>2, BroadcastSays
<1>. QED BY <1>3 DEF SuccessesAreReal

------------------------------------------------------------------------------
(* The inductive invariant *)

\* Nothing was asked at first ...
LEMMA RequestsInit == Init => RequestsInv
<1>. SUFFICES ASSUME Init PROVE RequestsInv
  OBVIOUS
<1>1. TypeOK
  BY DEF Init, TypeOK, ClientPC, HandlerPC
<1>2. IsFiniteSet(connected)
  BY FS_EmptySet DEF Init
<1>3. LockIsHeldInside
  BY ClientAssumption DEF Init, LockIsHeldInside
<1>4. \A r \in Client : Talks(r)
  BY DEF Init, Talks, Over
<1>5. RunsAreSound
  <2>. SUFFICES ASSUME NEW r \in Runs PROVE Selects(r) /\ Dispatches(r)
    BY DEF RunsAreSound
  <2>1. /\ r \in Client /\ tasks[r] = <<>> /\ todo[r] = <<>> /\ list[r] = <<>>
        /\ outcome[r] = <<>> /\ spc[r] = "new"
    BY DEF Init, Runs
  <2>. QED BY <2>1 DEF Selects, Dispatches
<1>6. SuccessesAreReal
  BY DEF Init, SuccessesAreReal
<1>7. PromisesAreReal
  BY DEF Init, PromisesAreReal, Promised, Runs
<1>. QED BY <1>1, <1>2, <1>3, <1>4, <1>5, <1>6, <1>7 DEF RequestsInv

\* A step of agentctl.
LEMMA ClientKeeps ==
    ASSUME RequestsInv, NEW r \in Client, ClientStep(r)
    PROVE  RequestsInv'
<1>. USE DEF RequestsInv
<1>1. TypeOK' /\ IsFiniteSet(connected)'
  BY ClientTyped
<1>2. UNCHANGED <<lock, feed, outcome, todo, tasks, pending, allOk>>
  BY DEF ClientStep, Resolve, ResolveFails, Submit, Read, CutOff, Leave, registryVars, handlerVars, workerVars
<1>3. /\ \A q \in Client \ {r} : spc'[q] = spc[q] /\ UNCHANGED View(q)
      /\ spc'[r] = spc[r] \/ (spc[r] = "new" /\ spc'[r] = "begin")
  <2>1. \A q \in Client \ {r} : UNCHANGED View(q)
    BY ClientsStayApart
  <2>2. spc'[r] = spc[r] \/ (cpc[r] = "resolved" /\ spc'[r] = "begin")
    BY DEF ClientStep, Resolve, ResolveFails, Submit, Read, CutOff, Leave, handlerVars, TypeOK
  <2>. QED BY <2>1, <2>2 DEF View, Talks
<1>4. LockIsHeldInside'
  BY <1>2, <1>3 DEF LockIsHeldInside
<1>5. /\ \A q \in Client : Talks(q)'
      /\ \A q \in Client : Spoiled(q) => Spoiled(q)'
      /\ \A q \in Client : Promised(q)' => Promised(q)
  BY <1>3, ClientTalks, SameView
<1>6. /\ UNCHANGED <<list[r], wait[r]>> \/ spc[r] = "new"
  BY DEF ClientStep, Resolve, ResolveFails, Submit, Read, CutOff, Leave, Talks
<1>7. RunsAreSound'
  <2>. SUFFICES ASSUME NEW q \in Runs PROVE Selects(q)' /\ Dispatches(q)'
    BY DEF RunsAreSound
  <2>1. q \in Client /\ Selects(q) /\ Dispatches(q)
    BY DEF Runs, RunsAreSound
  <2>2. CASE q # r
    BY <1>3, <2>1, <2>2, SameView
  <2>3. CASE q = r /\ spc[r] = "new"
    <3>1. tasks'[r] = <<>> /\ todo'[r] = <<>> /\ spc'[r] \in {"new", "begin"}
          /\ outcome'[r] = outcome[r]
      BY <1>2, <1>3, <2>1, <2>3 DEF Selects
    <3>. QED BY <1>2, <2>1, <2>3, <3>1 DEF Selects, Dispatches, Distinct
  <2>4. CASE q = r /\ spc[r] # "new"
    <3>1. UNCHANGED <<list[r], wait[r], spc[r], tasks[r], todo[r], outcome[r], pending[r], allOk[r]>>
      BY <1>2, <1>3, <1>6, <2>4
    <3>2. Split(r) => Split(r)'
      BY <3>1 DEF Split
    <3>3. Selects(r)'
      BY <1>5, <2>1, <2>4, <3>1, <3>2 DEF Selects, Distinct
    <3>. QED BY <2>1, <2>4, <3>1, <3>3 DEF Dispatches
  <2>. QED BY <2>2, <2>3, <2>4
<1>8. SuccessesAreReal'
  BY <1>2 DEF SuccessesAreReal
<1>9. PromisesAreReal'
  <2>. SUFFICES ASSUME NEW q \in Runs, Promised(q)' PROVE Spoiled(q)' \/ Real(q)'
    BY DEF PromisesAreReal
  <2>1. q \in Client /\ Promised(q)
    BY <1>5 DEF Runs
  <2>2. Spoiled(q) \/ Real(q)
    BY <2>1 DEF PromisesAreReal
  <2>3. spc[q] = "gone"
    BY <2>1 DEF Talks, Promised, Final, Status
  <2>4. UNCHANGED <<list[q], wait[q]>>
    BY <1>3, <1>6, <2>1, <2>3 DEF View
  <2>5. Real(q) => Real(q)'
    BY <1>2, <2>4 DEF Real
  <2>. QED BY <1>5, <2>1, <2>2, <2>5
<1>. QED BY <1>1, <1>4, <1>5, <1>7, <1>8, <1>9

\* The lock is taken at the door of a critical section and left at every way out.
LEMMA HandlerLocks ==
    ASSUME TypeOK, LockIsHeldInside, NEW r \in Client, HandlerStep(r)
    PROVE  LockIsHeldInside'
<1>1. \A q \in Client \ {r} : spc'[q] = spc[q]
  BY HandlersStayApart DEF View
<1>2. ASSUME UNCHANGED lock, spc'[r] \in {"refuse", "select"} <=> spc[r] \in {"refuse", "select"}
      PROVE  LockIsHeldInside'
  BY <1>1, <1>2 DEF LockIsHeldInside
<1>3. ASSUME lock = NoClient, lock' = r, spc'[r] \in {"refuse", "select"}
      PROVE  LockIsHeldInside'
  BY <1>1, <1>3, ClientAssumption DEF LockIsHeldInside
<1>4. ASSUME Unlock(r), spc'[r] \notin {"refuse", "select"}
      PROVE  LockIsHeldInside'
  BY <1>1, <1>4, ClientAssumption DEF LockIsHeldInside, Unlock
<1>5. CASE LeaseLock(r) \/ RunLock(r) \/ RunRefused(r)
  BY <1>3, <1>5 DEF LeaseLock, RunLock, RunRefused, TypeOK
<1>6. CASE Refuse(r) \/ LeaseGrant(r) \/ RunUnlock(r) \/ SendFails(r)
  BY <1>4, <1>6 DEF Refuse, LeaseGrant, RunUnlock, SendFails, TypeOK
<1>7. CASE \/ Reply(r) \/ RunNone(r) \/ RunAnnounce(r) \/ RunDispatchFails(r)
           \/ RunDispatched(r) \/ Finish(r)
  BY <1>2, <1>7 DEF Reply, RunNone, RunAnnounce, RunDispatchFails, RunDispatched, Finish,
                    registryVars, TypeOK
<1>8. CASE SelectNode(r) \/ SelectMissing(r) \/ RunDispatch(r) \/ Forward(r)
  BY <1>2, <1>8 DEF SelectNode, SelectMissing, RunDispatch, Forward, registryVars, handlerVars
<1>9. CASE ForwardReport(r)
  BY <1>2, <1>9 DEF ForwardReport, registryVars, TypeOK
<1>. QED BY <1>5, <1>6, <1>7, <1>8, <1>9 DEF HandlerStep, Advance

\* A step of a handler.
LEMMA HandlerKeeps ==
    ASSUME RequestsInv, NEW r \in Client, HandlerStep(r)
    PROVE  RequestsInv'
<1>. USE DEF RequestsInv
<1>1. TypeOK' /\ IsFiniteSet(connected)'
  BY HandlerTyped
<1>2. LockIsHeldInside'
  BY HandlerLocks
<1>3. SuccessesAreReal'
  BY HandlerHears
<1>4. \A q \in Client \ {r} : UNCHANGED View(q)
  BY HandlersStayApart
<1>5. \A q \in Client : Talks(q)'
  BY <1>4, HandlerTalks, SameView
<1>6. RunsAreSound'
  <2>. SUFFICES ASSUME NEW q \in Runs PROVE Selects(q)' /\ Dispatches(q)'
    BY DEF RunsAreSound
  <2>1. q \in Client /\ Selects(q) /\ Dispatches(q)
    BY DEF Runs, RunsAreSound
  <2>. QED BY <1>4, <2>1, HandlerSelects, HandlerDispatches, SameView
<1>7. PromisesAreReal'
  <2>. SUFFICES ASSUME NEW q \in Runs, Promised(q)' PROVE Spoiled(q)' \/ Real(q)'
    BY DEF PromisesAreReal
  <2>1. q \in Client /\ Selects(q) /\ Dispatches(q)
    BY DEF Runs, RunsAreSound
  <2>2. CASE q # r
    BY <1>4, <2>1, <2>2, SameView DEF PromisesAreReal
  <2>3. CASE q = r
    <3>1. (Reply(r) \/ (Finish(r) /\ allOk[r])) /\ (Spoiled(r) => Spoiled(r)')
      BY <2>3, HandlerTalks
    <3>2. UNCHANGED <<list, wait, tasks, outcome>>
      BY <3>1 DEF Reply, Finish, clientVars, workerVars
    <3>3. list[r] # <<>> => tasks[r] = list[r] \/ Spoiled(r)
      BY <2>1, <2>3, <3>1 DEF Reply, Finish, Selects
    <3>4. tasks[r] # <<>> /\ Len(outcome[r]) = Len(tasks[r])
      BY <2>1, <2>3, <3>1 DEF Reply, Finish, Dispatches
    <3>5. wait[r] => \A i \in DOMAIN outcome[r] : outcome[r][i] = "ok"
      BY <2>1, <2>3, <3>1 DEF Reply, Finish, Dispatches
    <3>. QED BY <2>3, <3>1, <3>2, <3>3, <3>4, <3>5 DEF Real
  <2>. QED BY <2>2, <2>3
<1>. QED BY <1>1, <1>2, <1>3, <1>5, <1>6, <1>7

\* A task that ends.
LEMMA WorkerKeeps ==
    ASSUME RequestsInv, NEW r \in Runs, NEW i \in DOMAIN outcome[r],
           WorkerStep(r, i)
    PROVE  RequestsInv'
<1>. USE DEF RequestsInv
<1>1. TypeOK' /\ IsFiniteSet(connected)'
  BY WorkerTyped
<1>2. /\ UNCHANGED <<lock, connected, cpc, list, under, wait, exit, spc, todo, tasks, pending, allOk>>
      /\ UNCHANGED inbox
  BY DEF WorkerStep, TaskExits, TaskErrs, registryVars, clientVars, handlerVars
<1>3. SuccessesAreReal'
  BY WorkersAreHeard
<1>4. LockIsHeldInside' /\ \A q \in Client : Talks(q)'
  BY <1>2 DEF LockIsHeldInside, Talks, Over
<1>5. /\ \A q \in Client : Spoiled(q)' = Spoiled(q)
      /\ \A q \in Client : Promised(q)' => Promised(q)
      /\ \A q \in Client : Split(q)' = Split(q)
  BY <1>2 DEF Spoiled, Promised, Final, Status, Split
<1>6. \A q \in Client :
          /\ Len(outcome'[q]) = Len(outcome[q])
          /\ DOMAIN (outcome'[q]) = DOMAIN outcome[q]
          /\ \A k \in DOMAIN outcome[q] : outcome[q][k] = "ok" => outcome'[q][k] = "ok"
  BY OutcomesSettle
<1>7. RunsAreSound'
  <2>. SUFFICES ASSUME NEW q \in Runs PROVE Selects(q)' /\ Dispatches(q)'
    BY DEF RunsAreSound
  <2>1. q \in Client /\ Selects(q) /\ Dispatches(q)
    BY DEF Runs, RunsAreSound
  <2>2. Selects(q)'
    BY <1>2, <1>5, <2>1 DEF Selects, Distinct
  <2>3. Dispatches(q)'
    BY <1>2, <1>6, <2>1 DEF Dispatches
  <2>. QED BY <2>2, <2>3
<1>8. PromisesAreReal'
  <2>. SUFFICES ASSUME NEW q \in Runs, Promised(q)' PROVE Spoiled(q)' \/ Real(q)'
    BY DEF PromisesAreReal
  <2>1. q \in Client /\ (Spoiled(q) \/ Real(q))
    BY <1>5 DEF Runs, PromisesAreReal
  <2>2. Real(q) => Real(q)'
    BY <1>2, <1>6, <2>1 DEF Real
  <2>. QED BY <1>5, <2>1, <2>2
<1>. QED BY <1>1, <1>3, <1>4, <1>7, <1>8

\* A worker that comes or goes.
LEMMA RegistryKeeps ==
    ASSUME RequestsInv, NEW n \in Node, Join(n) \/ Depart(n)
    PROVE  RequestsInv'
<1>. USE DEF RequestsInv
<1>1. TypeOK' /\ IsFiniteSet(connected)'
  BY RegistryTyped
<1>2. UNCHANGED <<lock, cpc, list, under, wait, exit, spc, todo, tasks, pending, allOk, feed, inbox, outcome>>
  BY DEF Join, Depart, clientVars, handlerVars, workerVars
<1>3. \A q \in Client : UNCHANGED View(q)
  BY <1>2 DEF View
<1>4. \A q \in Client : Talks(q)'
  BY <1>3, SameView
<1>5. RunsAreSound' /\ PromisesAreReal'
  <2>1. Runs \subseteq Client
    BY DEF Runs
  <2>. QED BY <1>3, <2>1, SameView DEF RunsAreSound, PromisesAreReal
<1>6. LockIsHeldInside' /\ SuccessesAreReal'
  BY <1>2 DEF LockIsHeldInside, SuccessesAreReal
<1>. QED BY <1>1, <1>4, <1>5, <1>6

\* ... and each step keeps the invariant.
LEMMA RequestsInductive == RequestsInv /\ [Next]_requestVars => RequestsInv'
<1>. SUFFICES ASSUME RequestsInv, [Next]_requestVars PROVE RequestsInv'
  OBVIOUS
<1>1. CASE Next
  BY <1>1, ClientKeeps, HandlerKeeps, WorkerKeeps, RegistryKeeps DEF Next
<1>2. CASE UNCHANGED requestVars
  <2>1. UNCHANGED <<lock, connected, cpc, list, under, wait, exit, spc, todo, tasks, pending, allOk, feed,
                    inbox, outcome, errors>>
    BY <1>2 DEF requestVars, registryVars, clientVars, handlerVars, workerVars
  <2>2. TypeOK' /\ IsFiniteSet(connected)' /\ LockIsHeldInside' /\ SuccessesAreReal'
    BY <2>1 DEF RequestsInv, TypeOK, LockIsHeldInside, SuccessesAreReal
  <2>3. \A q \in Client : UNCHANGED View(q)
    BY <2>1 DEF View
  <2>4. Runs \subseteq Client
    BY DEF Runs
  <2>5. (\A q \in Client : Talks(q)') /\ RunsAreSound' /\ PromisesAreReal'
    BY <2>3, <2>4, SameView DEF RequestsInv, RunsAreSound, PromisesAreReal
  <2>. QED BY <2>2, <2>5 DEF RequestsInv
<1>. QED BY <1>1, <1>2

\* So it holds at any time.
LEMMA RequestsStay == Spec => []RequestsInv
BY RequestsInit, RequestsInductive, PTL DEF Spec

------------------------------------------------------------------------------
\* Every list, event and response is what its reader takes it for: a handler's list is
\* finite even when it is that of all connected nodes.
THEOREM RequestsTyped == Spec => []TypeOK
<1>1. RequestsInv => TypeOK
  BY DEF RequestsInv
<1>. QED BY <1>1, RequestsStay, PTL

\* A registry lock that is taken belongs to a handler in one of the two critical sections:
\* none of the ways out, the failed send to a client that has ended among them, takes the
\* lock along, and no two handlers select nodes or grant a lease at once.
THEOREM LockHeldInside == Spec => []LockIsHeldInside
<1>1. RequestsInv => LockIsHeldInside
  BY DEF RequestsInv
<1>. QED BY <1>1, RequestsStay, PTL

\* agentctl ends with status 0 only of a run for which every node it named got a task,
\* and, when it waited, whose every task succeeded.
THEOREM ExitZeroReal == Spec => []ExitZeroIsReal
<1>1. ASSUME RequestsInv PROVE ExitZeroIsReal
  <2>. SUFFICES ASSUME NEW r \in Runs, exit[r] = "zero" PROVE Real(r)
    BY DEF ExitZeroIsReal, Real
  <2>1. r \in Client /\ Talks(r)
    BY <1>1 DEF RequestsInv, Runs
  <2>2. ~Spoiled(r)
    BY <2>1 DEF Talks, Spoiled
  <2>3. Promised(r)
    BY DEF Promised
  <2>. QED BY <1>1, <2>2, <2>3 DEF RequestsInv, PromisesAreReal
<1>. QED BY <1>1, RequestsStay, PTL

\* In a list that names no node twice, the rank of a node is its place.
LEMMA RankIsPlace ==
    ASSUME NEW r, list[r] \in Seq(Node), Distinct(list[r]), NEW k \in DOMAIN list[r]
    PROVE  RankOf(r, list[r][k]) = k - 1
<1>1. /\ list[r][k] = list[r][k]
      /\ \A m \in DOMAIN list[r] : list[r][m] = list[r][k] => m <= k
  BY DEF Distinct
<1>2. \A i \in DOMAIN list[r] : list[r][i] = list[r][k] => i = k
  BY DEF Distinct
<1>3. (CHOOSE i \in DOMAIN list[r] : list[r][i] = list[r][k]
           /\ \A m \in DOMAIN list[r] : list[r][m] = list[r][k] => m <= i) = k
  BY <1>1, <1>2
<1>. QED BY <1>3 DEF RankOf

\* The processes of one torchrun have ranks of their own, and when agentctl reports no
\* error all ranks below --nnodes are there, whatever nodes leave the registry between
\* the listing and the selection.
THEOREM RanksSound == Spec => []RanksAreSound
<1>1. ASSUME RequestsInv PROVE RanksAreSound
  <2>. SUFFICES ASSUME NEW r \in Ranked, list[r] # <<>>, Distinct(list[r])
                PROVE  LET ranks == {RankOf(r, tasks[r][i]) : i \in DOMAIN outcome[r]} IN
                       /\ Cardinality(ranks) = Len(outcome[r])
                       /\ exit[r] = "zero" => ranks = 0..(Len(list[r]) - 1)
    BY DEF RanksAreSound
  <2>. DEFINE ranks == {RankOf(r, tasks[r][i]) : i \in DOMAIN outcome[r]}
  <2>1. r \in Runs /\ r \in Client
    BY ClientAssumption DEF Runs
  <2>2. /\ list[r] \in Seq(Node) /\ tasks[r] \in Seq(Node) /\ outcome[r] \in Seq({"running", "ok", "failed"})
    BY <1>1, <2>1 DEF RequestsInv, TypeOK
  <2>3. Selects(r) /\ Dispatches(r)
    BY <1>1, <2>1 DEF RequestsInv, RunsAreSound
  <2>4. /\ DOMAIN outcome[r] = 1..Len(outcome[r]) /\ DOMAIN outcome[r] \subseteq DOMAIN tasks[r]
        /\ Len(outcome[r]) \in Nat
    <3>1. Len(outcome[r]) <= Len(tasks[r])
      BY <2>3 DEF Dispatches
    <3>. QED BY <2>2, <3>1
  <2>5. \A i \in DOMAIN outcome[r] : \E k \in DOMAIN list[r] :
            list[r][k] = tasks[r][i] /\ RankOf(r, tasks[r][i]) = k - 1
    <3>1. \A k \in DOMAIN list[r] : RankOf(r, list[r][k]) = k - 1
      BY <2>2, RankIsPlace
    <3>. QED BY <2>3, <2>4, <3>1 DEF Selects
  <2>6. ASSUME NEW i \in DOMAIN outcome[r], NEW j \in DOMAIN outcome[r],
               RankOf(r, tasks[r][i]) = RankOf(r, tasks[r][j])
        PROVE  i = j
    <3>1. PICK k \in DOMAIN list[r] : list[r][k] = tasks[r][i] /\ RankOf(r, tasks[r][i]) = k - 1
      BY <2>5
    <3>2. PICK m \in DOMAIN list[r] : list[r][m] = tasks[r][j] /\ RankOf(r, tasks[r][j]) = m - 1
      BY <2>5
    <3>3. k \in Nat /\ m \in Nat
      BY <2>2
    <3>4. k - 1 = m - 1
      BY <2>6, <3>1, <3>2
    <3>5. k = m
      BY <3>3, <3>4
    <3>6. tasks[r][i] = tasks[r][j]
      BY <3>1, <3>2, <3>5
    <3>. QED BY <2>3, <2>4, <3>6 DEF Selects, Distinct
  <2>7. Cardinality(ranks) = Len(outcome[r])
    <3>. DEFINE rank == [i \in 1..Len(outcome[r]) |-> RankOf(r, tasks[r][i])]
    <3>1. rank \in Bijection(1..Len(outcome[r]), ranks)
      <4>1. rank \in [1..Len(outcome[r]) -> ranks]
        BY <2>4
      <4>2. \A i, j \in 1..Len(outcome[r]) : rank[i] = rank[j] => i = j
        BY <2>4, <2>6
      <4>3. \A t \in ranks : \E i \in 1..Len(outcome[r]) : rank[i] = t
        BY <2>4
      <4>. QED BY <4>1, <4>2, <4>3 DEF Bijection, Injection, IsInjective, Surjection
    <3>2. ExistsBijection(1..Len(outcome[r]), ranks)
      BY <3>1 DEF ExistsBijection
    <3>. QED BY <2>4, <3>2, FS_CountingElements
  <2>8. ASSUME exit[r] = "zero" PROVE ranks = 0..(Len(list[r]) - 1)
    <3>1. tasks[r] = list[r] /\ Len(outcome[r]) = Len(list[r])
      <4>1. Talks(r) /\ Promised(r)
        BY <1>1, <2>1, <2>8 DEF RequestsInv, Promised
      <4>2. ~Spoiled(r)
        BY <2>8, <4>1 DEF Talks, Spoiled
      <4>. QED BY <1>1, <2>1, <4>1, <4>2 DEF RequestsInv, PromisesAreReal, Real
    <3>2. \A k \in 1..Len(list[r]) : RankOf(r, list[r][k]) = k - 1
      BY <2>2, RankIsPlace
    <3>3. ranks = {k - 1 : k \in 1..Len(list[r])}
      BY <2>4, <3>1, <3>2
    <3>4. \A n \in Nat : {k - 1 : k \in 1..n} = 0..(n - 1)
      <4>. SUFFICES ASSUME NEW n \in Nat, NEW m \in 0..(n - 1)
                    PROVE  \E k \in 1..n : m = k - 1
        OBVIOUS
      <4>1. m + 1 \in 1..n /\ m = (m + 1) - 1
        OBVIOUS
      <4>. QED BY <4>1
    <3>5. Len(list[r]) \in Nat
      BY <2>2
    <3>. QED BY <3>3, <3>4, <3>5
  <2>. QED BY <2>7, <2>8
<1>. QED BY <1>1, RequestsStay, PTL
=============================================================================
