------------------------------ MODULE JobStore ------------------------------
(***************************************************************************)
(* The tasks table of crates/jobstore, as operators on a function from     *)
(* tasks to rows.  A row keeps the status column and whether the exited_at *)
(* column is set; the other columns are data no operation reads back.      *)
(* Each operator is one SQL statement under the store's connection mutex.  *)
(***************************************************************************)

Status == {"absent", "queued", "running", "succeeded", "failed"}
Row == [status : Status, exited : BOOLEAN]
NoRow == [status |-> "absent", exited |-> FALSE]

\* Upsert: the status becomes 'queued' whatever it was; exited_at is kept.
RecordTaskDispatched(rows, tasks) ==
    [t \in DOMAIN rows |->
        IF t \in tasks THEN [rows[t] EXCEPT !.status = "queued"] ELSE rows[t]]

\* Upsert: the status becomes 'running' whatever it was; exited_at is kept.
RecordTaskStarted(rows, t) == [rows EXCEPT ![t].status = "running"]

\* Mutant of RecordTaskExited: the status is not one of the four.
RecordTaskDone(rows, t, success) ==
    [rows EXCEPT ![t] = [status |-> "done", exited |-> TRUE]]

\* UPDATE, or INSERT when there was no row: the outcome overwrites the status.
RecordTaskExited(rows, t, success) ==
    [rows EXCEPT ![t] = [status |-> IF success THEN "succeeded" ELSE "failed",
                         exited |-> TRUE]]

IsOpen(row) == row.status \in {"queued", "running"}
IsSettled(row) == row.status \in {"succeeded", "failed"}

\* The status job_summary gives to the rows of a job.
JobStatus(rows, tasks) ==
    IF \E t \in tasks : IsOpen(rows[t]) THEN "running"
    ELSE IF \A t \in tasks : rows[t].status = "succeeded" THEN "succeeded"
    ELSE "failed"
=============================================================================
