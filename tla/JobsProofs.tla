----------------------------- MODULE JobsProofs -----------------------------
(***************************************************************************)
(* What follows from the promise alone, for whatever implements it: a      *)
(* record and an answer of success are of processes that succeeded.        *)
(***************************************************************************)
EXTENDS Jobs, TLAPS

JobsInv == JobsTypeOK /\ RecordsAreReal /\ AnswersAreReal

\* A process that has succeeded has; new records are of processes that have.
LEMMA SuccessStays ==
    ASSUME JobsInv, [Next]_jobVars
    PROVE  \A t \in Task : process[t] = "succeeded" => process'[t] = "succeeded"
BY DEF JobsInv, JobsTypeOK, Next, Submit, Start, End, Record, Reopen, Answer, Interrupt, jobVars

\* To ask for a job writes only new records, and is done once.
LEMMA AskKeeps ==
    ASSUME JobsInv, NEW j \in Job, NEW tasks \in SUBSET Task, Ask(j, tasks)
    PROVE  /\ asked' \in [Job -> SUBSET Task]
           /\ record' \in [Task -> {"none", "open", "succeeded", "failed"}]
           /\ \A t \in Task : record'[t] = "succeeded" => record[t] = "succeeded"
           /\ \A k \in Job : asked[k] # {} => asked'[k] = asked[k]
BY DEF JobsInv, JobsTypeOK, Ask

LEMMA JobsInductive == JobsInv /\ [Next]_jobVars => JobsInv'
<1>. SUFFICES ASSUME JobsInv, [Next]_jobVars PROVE JobsInv'
  OBVIOUS
<1>. USE DEF JobsInv, JobsTypeOK
<1>1. ASSUME JobsTypeOK',
             \A t \in Task : record'[t] = "succeeded" =>
                 record[t] = "succeeded" \/ process[t] = "succeeded",
             \A k \in Job : answer'[k] = "ok" =>
                 \/ answer[k] = "ok" /\ asked'[k] = asked[k]
                 \/ asked'[k] # {} /\ \A t \in asked'[k] : process[t] = "succeeded"
      PROVE  JobsInv'
  <2>1. RecordsAreReal'
    BY <1>1, SuccessStays DEF RecordsAreReal
  <2>2. AnswersAreReal'
    BY <1>1, SuccessStays DEF AnswersAreReal
  <2>. QED BY <1>1, <2>1, <2>2
<1>2. ASSUME NEW j \in Job, Submit(j) PROVE JobsInv'
  <2>1. PICK tasks \in SUBSET Task : Ask(j, tasks)
    BY <1>2 DEF Submit
  <2>2. /\ asked' \in [Job -> SUBSET Task]
        /\ record' \in [Task -> {"none", "open", "succeeded", "failed"}]
        /\ \A t \in Task : record'[t] = "succeeded" => record[t] = "succeeded"
        /\ \A k \in Job : asked[k] # {} => asked'[k] = asked[k]
    BY <2>1, AskKeeps
  <2>3. answer' \in {[answer EXCEPT ![j] = "gone"], answer} /\ UNCHANGED <<process, exits, disturbed>>
    BY <1>2 DEF Submit
  <2>4. JobsTypeOK'
    BY <2>2, <2>3
  <2>5. \A k \in Job : answer'[k] = "ok" => answer[k] = "ok" /\ asked'[k] = asked[k]
    BY <2>2, <2>3 DEF AnswersAreReal
  <2>. QED BY <1>1, <2>2, <2>4, <2>5
<1>3. ASSUME NEW t \in Task, Start(t) \/ End(t) PROVE JobsInv'
  <2>1. JobsTypeOK' /\ UNCHANGED <<asked, record, answer>>
    BY <1>3 DEF Start, End
  <2>. QED BY <1>1, <2>1
<1>4. ASSUME NEW t \in Task, Record(t) \/ Reopen(t) PROVE JobsInv'
  <2>1. JobsTypeOK' /\ UNCHANGED <<asked, process, answer>>
    BY <1>4 DEF Record, Reopen
  <2>2. \A u \in Task : record'[u] = "succeeded" =>
            record[u] = "succeeded" \/ process[u] = "succeeded"
    BY <1>4 DEF Record, Reopen
  <2>. QED BY <1>1, <2>1, <2>2
<1>5. ASSUME NEW j \in Job, Answer(j) PROVE JobsInv'
  <2>1. JobsTypeOK' /\ UNCHANGED <<asked, process, record>>
    BY <1>5 DEF Answer
  <2>2. \A k \in Job : answer'[k] = "ok" =>
            \/ answer[k] = "ok"
            \/ asked[k] # {} /\ \A t \in asked[k] : process[t] = "succeeded"
    BY <1>5 DEF Answer
  <2>. QED BY <1>1, <2>1, <2>2
<1>6. ASSUME Interrupt PROVE JobsInv'
  <2>1. /\ asked' \in [Job -> SUBSET Task]
        /\ record' \in [Task -> {"none", "open", "succeeded", "failed"}]
        /\ \A t \in Task : record'[t] = "succeeded" => record[t] = "succeeded"
        /\ \A k \in Job : asked[k] # {} => asked'[k] = asked[k]
    BY <1>6, AskKeeps DEF Interrupt
  <2>2. /\ answer' \in [Job -> {"none", "ok", "failed", "gone"}]
        /\ \A k \in Job : answer'[k] = "ok" => answer[k] = "ok"
        /\ disturbed' \subseteq Task /\ UNCHANGED <<process, exits>>
    BY <1>6 DEF Interrupt
  <2>3. JobsTypeOK'
    BY <2>1, <2>2
  <2>4. \A k \in Job : answer'[k] = "ok" => answer[k] = "ok" /\ asked'[k] = asked[k]
    BY <2>1, <2>2 DEF AnswersAreReal
  <2>. QED BY <1>1, <2>1, <2>3, <2>4
<1>7. CASE UNCHANGED jobVars
  BY <1>1, <1>7 DEF jobVars
<1>. QED BY <1>2, <1>3, <1>4, <1>5, <1>6, <1>7 DEF Next

\* Whatever keeps the promise never records or answers a success that was none.
THEOREM PromisedSuccessIsReal == Spec => [](RecordsAreReal /\ AnswersAreReal)
<1>1. Init => JobsInv
  BY DEF Init, JobsInv, JobsTypeOK, RecordsAreReal, AnswersAreReal
<1>2. JobsInv => RecordsAreReal /\ AnswersAreReal
  BY DEF JobsInv
<1>. QED BY <1>1, <1>2, JobsInductive, PTL DEF Spec
=============================================================================
