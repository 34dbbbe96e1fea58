-------------------------------- MODULE Jobs --------------------------------
(***************************************************************************)
(* What the system promises about jobs, with no word of connections,       *)
(* handlers, channels or events.  A job is asked for as a set of tasks;    *)
(* each task has a process, at most once; the store keeps a record of it;  *)
(* the client that waits is answered once.                                 *)
(*                                                                         *)
(* A kill request for its job, and the end of a connection it depends on,  *)
(* disturb a task.  What the record of an undisturbed task says is the     *)
(* process's own outcome, and stays.  A record of success is real even of  *)
(* a disturbed task, and so is an answer of success.                       *)
(***************************************************************************)
CONSTANTS Job, Task

VARIABLES
    asked,      \* asked[j]: the tasks of job j, {} until it is asked for
    process,    \* process[t]: what became of the task's process
    record,     \* record[t]: what the store says of the task
    exits,      \* the tasks the store has an exit of
    answer,     \* answer[j]: what the client was told in the end
    disturbed   \* the tasks that were disturbed

jobVars == <<asked, process, record, exits, answer, disturbed>>

JobsTypeOK ==
    /\ asked \in [Job -> SUBSET Task]
    /\ process \in [Task -> {"none", "refused", "live", "succeeded", "failed"}]
    /\ record \in [Task -> {"none", "open", "succeeded", "failed"}]
    /\ exits \in SUBSET Task
    /\ answer \in [Job -> {"none", "ok", "failed", "gone"}]
    /\ disturbed \in SUBSET Task

Init ==
    /\ asked = [j \in Job |-> {}]
    /\ process = [t \in Task |-> "none"]
    /\ record = [t \in Task |-> "none"]
    /\ exits = {}
    /\ answer = [j \in Job |-> "none"]
    /\ disturbed = {}

Asked == UNION {asked[j] : j \in Job}

\* The tasks of a job are new ones.
Ask(j, tasks) ==
    /\ asked[j] = {}
    /\ answer[j] = "none"
    /\ \A t \in tasks : record[t] = "none" /\ process[t] = "none"
    /\ asked' = [asked EXCEPT ![j] = tasks]
    /\ record' = [t \in Task |-> IF t \in tasks THEN "open" ELSE record[t]]

\* A request is accepted, or refused, or its client is lost while it is recorded.
Submit(j) ==
    /\ \E tasks \in SUBSET Task :
        /\ Ask(j, tasks)
        /\ answer' \in {[answer EXCEPT ![j] = "gone"]}
                         \cup IF tasks = {} THEN {} ELSE {answer}
    /\ UNCHANGED <<process, exits, disturbed>>

Start(t) ==
    /\ t \in Asked
    /\ process[t] = "none"
    /\ process' \in {[process EXCEPT ![t] = "live"], [process EXCEPT ![t] = "refused"]}
    /\ UNCHANGED <<asked, record, exits, answer, disturbed>>

End(t) ==
    /\ process[t] = "live"
    /\ process' \in {[process EXCEPT ![t] = "succeeded"], [process EXCEPT ![t] = "failed"]}
    /\ UNCHANGED <<asked, record, exits, answer, disturbed>>

\* The outcome of a process is recorded.  Only a disturbed task has a second one.
Record(t) ==
    /\ record[t] = "open" \/ (record[t] # "none" /\ t \in disturbed)
    /\ \/ /\ process[t] = "succeeded"
          /\ record' = [record EXCEPT ![t] = "succeeded"]
       \/ /\ process[t] \in {"refused", "failed"} \/ t \in disturbed
          /\ record' = [record EXCEPT ![t] = "failed"]
    /\ exits' = exits \cup {t}
    /\ UNCHANGED <<asked, process, answer, disturbed>>

\* A task that was given up is heard of again.
Reopen(t) ==
    /\ t \in disturbed
    /\ record[t] = "failed"
    /\ record' = [record EXCEPT ![t] = "open"]
    /\ UNCHANGED <<asked, process, exits, answer, disturbed>>

\* The answer comes when all exits are recorded, and agrees with the processes and,
\* where nothing disturbed them, with the records.
Answer(j) ==
    /\ answer[j] = "none"
    /\ asked[j] # {}
    /\ asked[j] \subseteq exits
    /\ \/ /\ \A t \in asked[j] : process[t] = "succeeded"
          /\ \A t \in asked[j] \ disturbed : record[t] = "succeeded"
          /\ answer' = [answer EXCEPT ![j] = "ok"]
       \/ /\ \E t \in asked[j] : record[t] = "failed" \/ t \in disturbed
          /\ answer' = [answer EXCEPT ![j] = "failed"]
    /\ UNCHANGED <<asked, process, record, exits, disturbed>>

\* The client does not wait, leaves, or is cut off; tasks are disturbed.  A crash of
\* the coordinator is all of this at once, perhaps in the middle of a request.
Interrupt ==
    /\ UNCHANGED <<asked, record>> \/ \E j \in Job, tasks \in SUBSET Task : Ask(j, tasks)
    /\ answer' \in [Job -> {"none", "ok", "failed", "gone"}]
    /\ \A j \in Job : answer'[j] # answer[j] => answer[j] = "none" /\ answer'[j] = "gone"
    /\ disturbed \subseteq disturbed' /\ disturbed' \subseteq Task
    /\ UNCHANGED <<process, exits>>

Next ==
    \/ \E j \in Job : Submit(j) \/ Answer(j)
    \/ \E t \in Task : Start(t) \/ End(t) \/ Record(t) \/ Reopen(t)
    \/ Interrupt

Spec == Init /\ [][Next]_jobVars

------------------------------------------------------------------------------
\* A record of success and an answer of success are of processes that succeeded.
RecordsAreReal == \A t \in Task : record[t] = "succeeded" => process[t] = "succeeded"
AnswersAreReal ==
    \A j \in Job : answer[j] = "ok" =>
        asked[j] # {} /\ \A t \in asked[j] : process[t] = "succeeded"
=============================================================================
