-------------------------- MODULE StatementPipeline --------------------------
(***************************************************************************)
(* One uploaded bank statement on its way through the processing pipeline  *)
(* (core/tasks/statements.py, core/views/statements.py).                   *)
(*                                                                         *)
(* A "call" is one call of advance_statement_to() together with the Celery *)
(* task it hands over to: it starts in a web thread (validate, set         *)
(* is_processing, enqueue), waits in the broker, and runs in a worker,     *)
(* possibly many times, since every poll of the AI service that finds the  *)
(* job unfinished puts the task back into the broker.  The database runs   *)
(* every ORM call in a transaction of its own, so each read and each save  *)
(* of the row is an action, and a call carries the copy of the row it read *)
(* (status, busy, failed), which other calls can make stale.               *)
(***************************************************************************)
EXTENDS Naturals, Sequences, FiniteSets

CONSTANTS
  Calls,        \* calls of advance_statement_to(), each made at most once
  Approvals,    \* POST /statements/{id}/transactions requests
  WorkerSlots,  \* tasks the Celery worker runs at the same time
  MaxPolls,     \* MAX_POLL_ATTEMPTS, also the max_retries of the Celery task
  MaxFaults,    \* bound on workers killed and tasks lost on their way to the broker
  Client,       \* "any": requests overlap freely; "serial": a client waits for each
                \* response; "patient": it waits until the task it started has ended
  SinglePhase   \* TRUE: clients only ever ask for the next status

ASSUME SlotsAssumption == WorkerSlots \in Nat \ {0}
ASSUME BoundsAssumption == MaxPolls \in Nat /\ MaxFaults \in Nat
ASSUME ClientAssumption ==
  Client \in {"any", "serial", "patient"} /\ SinglePhase \in BOOLEAN

VARIABLES
  exists,    \* "absent", "present" or "deleted": the statement_files row
  row,       \* its columns
  ocr,       \* number of its StatementOcrResult rows
  norm,      \* number of its StatementNormalized rows
  jobs,      \* the AI service's jobs; job_id is the position
  pc,        \* where each call is
  target,    \* per call: target_status
  copy,      \* per call: the columns of the row as its task holds them
  job,       \* per call: job_id, 0 for None
  poll,      \* per call: poll_attempt
  retries,   \* per call: Celery's own count, request.retries
  silent,    \* per call: retry_pending
  approval,  \* where each approval request is
  told,      \* the last statement_status event published
  faults     \* faults so far

statement == <<exists, row, ocr, norm>>
args == <<target, job, poll, retries>>
task == <<pc, args, copy, silent>>
vars == <<statement, jobs, task, approval, told, faults>>

-----------------------------------------------------------------------------
None == "none"
Statuses == {"uploaded", "extracted", "normalized", "approved"}
Phases == {"extraction", "normalization"}
Targets == {"extracted", "normalized"}   \* what PATCH and upload accept

\* _STATUS_ORDER
Rank == [s \in Statuses |-> CASE s = "uploaded" -> 0 [] s = "extracted" -> 1
                              [] s = "normalized" -> 2 [] s = "approved" -> 3]

\* _PHASE_FOR_STATUS, and the status each finalizer sets
PhaseFor == [s \in Statuses |-> CASE s = "uploaded" -> "extraction"
                                  [] s = "extracted" -> "normalization"
                                  [] OTHER -> None]
StatusAfter == [p \in Phases |->
                  IF p = "extraction" THEN "extracted" ELSE "normalized"]

WebPC == {"validated", "marked"}
WorkerPC == {"running", "succeeded", "recorded", "failing", "raised",
             "refreshed", "finishing"}

PCs == {"idle", "queued", "done"} \cup WebPC \cup WorkerPC

RowType == [status : Statuses, is_processing : BOOLEAN, failure_reason : BOOLEAN,
            failed_phase : Phases \cup {None}, account : BOOLEAN]
CopyType == [status : Statuses, busy : BOOLEAN, failed : Phases \cup {None}]
JobType == [phase : Phases, run : Nat, state : {"running", "succeeded", "failed"}]

TypeOK ==
  /\ exists \in {"absent", "present", "deleted"}
  /\ row \in RowType
  /\ ocr \in Nat /\ norm \in Nat
  /\ jobs \in Seq(JobType)
  /\ pc \in [Calls -> PCs]
  /\ target \in [Calls -> Targets]
  /\ copy \in [Calls -> CopyType]
  /\ job \in [Calls -> Nat] /\ poll \in [Calls -> Nat] /\ retries \in [Calls -> Nat]
  /\ silent \in [Calls -> BOOLEAN]
  /\ approval \in [Approvals -> {"idle", "reviewing", "done"}]
  /\ told \in CopyType \cup {[status |-> None, busy |-> FALSE, failed |-> None]}
  /\ faults \in Nat

NoCopy == [status |-> "uploaded", busy |-> FALSE, failed |-> None]

Init ==
  /\ exists = "absent"
  /\ row = [status |-> "uploaded", is_processing |-> FALSE,
            failure_reason |-> FALSE, failed_phase |-> None, account |-> FALSE]
  /\ ocr = 0 /\ norm = 0
  /\ jobs = <<>>
  /\ pc = [c \in Calls |-> "idle"]
  /\ target = [c \in Calls |-> "normalized"]
  /\ copy = [c \in Calls |-> NoCopy]
  /\ job = [c \in Calls |-> 0]
  /\ poll = [c \in Calls |-> 0]
  /\ retries = [c \in Calls |-> 0]
  /\ silent = [c \in Calls |-> FALSE]
  /\ approval = [a \in Approvals |-> "idle"]
  /\ told = [status |-> None, busy |-> FALSE, failed |-> None]
  /\ faults = 0

Present == exists = "present"

Goto(c, there) == pc' = [pc EXCEPT ![c] = there]

\* A call ends, and with it all the state it had.
End(c) ==
  /\ Goto(c, "done")
  /\ target' = [target EXCEPT ![c] = "normalized"]
  /\ copy' = [copy EXCEPT ![c] = NoCopy]
  /\ job' = [job EXCEPT ![c] = 0]
  /\ poll' = [poll EXCEPT ![c] = 0]
  /\ retries' = [retries EXCEPT ![c] = 0]
  /\ silent' = [silent EXCEPT ![c] = FALSE]
-----------------------------------------------------------------------------
(* The web threads                                                         *)

\* Whether the client sends its next request already.
ClientReady ==
  \A d \in Calls :
    /\ Client # "any" => pc[d] \notin WebPC
    /\ Client = "patient" => pc[d] \in {"idle", "done"}

\* The statuses a client may ask for, given the row the handler reads.
Requested(t) == SinglePhase => Rank[t] = Rank[row.status] + 1

Validated(c, t) ==
  /\ Goto(c, "validated")
  /\ target' = [target EXCEPT ![c] = t]
  /\ UNCHANGED <<job, poll, retries, copy, silent>>

\* create_statement_from_upload(): the row is created once the file is stored.
Upload(c, t) ==
  /\ pc[c] = "idle" /\ exists = "absent"
  /\ ClientReady /\ Requested(t)
  /\ exists' = "present"
  /\ Validated(c, t)
  /\ UNCHANGED <<row, ocr, norm, jobs, approval, told, faults>>

\* Mutant: the flag is not looked at.
MayAdvanceFlagIgnored(t) ==
  row.status # "approved" /\ Rank[t] > Rank[row.status]

\* validate_advance() on the row that StatementDetailView.patch() has read.
MayAdvance(t) ==
  /\ row.status # "approved"
  /\ ~row.is_processing
  /\ Rank[t] > Rank[row.status]

Patch(c, t) ==
  /\ pc[c] = "idle" /\ Present
  /\ ClientReady /\ Requested(t)
  /\ MayAdvance(t)
  /\ Validated(c, t)
  /\ UNCHANGED <<statement, jobs, approval, told, faults>>

\* Mutant: the task is left to set the flag itself.
MarkWithoutFlag(c) ==
  /\ pc[c] = "validated"
  /\ Goto(c, "marked")
  /\ UNCHANGED <<statement, jobs, args, copy, silent, approval, told, faults>>

\* advance_statement_to(): save(update_fields=["is_processing"]), which raises
\* (500) when the row is gone.
Mark(c) ==
  /\ pc[c] = "validated"
  /\ \/ /\ Present
        /\ row' = [row EXCEPT !.is_processing = TRUE]
        /\ Goto(c, "marked")
        /\ UNCHANGED <<args, copy, silent>>
     \/ ~Present /\ End(c) /\ UNCHANGED row
  /\ UNCHANGED <<exists, ocr, norm, jobs, approval, told, faults>>

\* advance_statement_to(): process_statement_pipeline.delay()
Enqueue(c) ==
  /\ pc[c] = "marked"
  /\ Goto(c, "queued")
  /\ UNCHANGED <<statement, jobs, args, copy, silent, approval, told, faults>>

\* DELETE /statements/{id} and POST /statements/bulk-delete: the row goes, and
\* its OCR and normalized rows by cascade.
Delete ==
  /\ Present
  /\ exists' = "deleted"
  /\ ocr' = 0 /\ norm' = 0
  /\ UNCHANGED <<row, jobs, task, approval, told, faults>>

\* Mutant: the status is not looked at.
ReviewBeginAnyStatus(a, override) ==
  /\ approval[a] = "idle" /\ Present
  /\ override \/ row.account
  /\ row' = [row EXCEPT !.account = TRUE]
  /\ \E next \in {"reviewing", "done"} : approval' = [approval EXCEPT ![a] = next]
  /\ UNCHANGED <<exists, ocr, norm, jobs, task, told, faults>>

\* StatementTransactionApprovalView.post() up to the atomic block: the status
\* check, the optional account override (saved at once), and
\* assert_account_mutable(), which raises when no account is left, and refuses a
\* synced one only after the override has been saved ("done").
ReviewBegin(a, override) ==
  /\ approval[a] = "idle" /\ Present
  /\ row.status = "normalized"
  /\ override \/ row.account
  /\ row' = [row EXCEPT !.account = TRUE]
  /\ \E next \in {"reviewing", "done"} : approval' = [approval EXCEPT ![a] = next]
  /\ UNCHANGED <<exists, ocr, norm, jobs, task, told, faults>>

\* The atomic block commits: rows inserted and the status saved.  (The account
\* may be gone: an empty batch does not miss it.)
ReviewCommit(a) ==
  /\ approval[a] = "reviewing" /\ Present
  /\ row' = [row EXCEPT !.status = "approved", !.failure_reason = FALSE,
                        !.failed_phase = None]
  /\ approval' = [approval EXCEPT ![a] = "done"]
  /\ UNCHANGED <<exists, ocr, norm, jobs, task, told, faults>>

\* The atomic block raises: statement or account gone, or a database error.
ReviewAbort(a) ==
  /\ approval[a] = "reviewing"
  /\ approval' = [approval EXCEPT ![a] = "done"]
  /\ UNCHANGED <<statement, jobs, task, told, faults>>

\* BankAccountDetailView deletes the account; the foreign key is SET NULL.
AccountDeleted ==
  /\ Present /\ row.account
  /\ row' = [row EXCEPT !.account = FALSE]
  /\ UNCHANGED <<exists, ocr, norm, jobs, task, approval, told, faults>>

-----------------------------------------------------------------------------
(* The AI service (external): jobs run, and end, on their own.             *)

\* submit_process_job() / submit_normalize_job(): a job in flight for the same
\* statement, or the same OCR run, is returned again.
InFlight(phase, run) ==
  {j \in DOMAIN jobs : jobs[j] = [phase |-> phase, run |-> run, state |-> "running"]}

JobEnds(j, outcome) ==
  /\ jobs[j].state = "running"
  /\ jobs' = [jobs EXCEPT ![j].state = outcome]
  /\ UNCHANGED <<statement, task, approval, told, faults>>

-----------------------------------------------------------------------------
(* The Celery worker: process_statement_pipeline()                         *)

Running == {c \in Calls : pc[c] \in WorkerPC}

\* A worker slot takes the message; a missing row ends the task silently.
Fetch(c) ==
  /\ pc[c] = "queued"
  /\ Cardinality(Running) < WorkerSlots
  /\ \/ /\ Present
        /\ Goto(c, "running")
        /\ copy' = [copy EXCEPT ![c] =
             [status |-> row.status, busy |-> row.is_processing,
              failed |-> row.failed_phase]]
        /\ UNCHANGED <<args, silent>>
     \/ ~Present /\ End(c)
  /\ UNCHANGED <<statement, jobs, approval, told, faults>>

\* The loop condition on the copy of the row the task holds.
Behind(c) == Rank[copy[c].status] < Rank[target[c]]

TargetReached(c) ==
  /\ pc[c] = "running" /\ ~Behind(c)
  /\ Goto(c, "finishing")
  /\ UNCHANGED <<statement, jobs, args, copy, silent, approval, told, faults>>

\* "if not statement.is_processing": the flag a finalizer cleared is set again
\* when the cascade enters its next phase.
Remark(c) ==
  /\ pc[c] = "running" /\ Behind(c) /\ ~copy[c].busy
  /\ copy' = [copy EXCEPT ![c].busy = TRUE]
  /\ \/ /\ Present
        /\ row' = [row EXCEPT !.is_processing = TRUE]
        /\ UNCHANGED pc
     \/ ~Present /\ Goto(c, "raised") /\ UNCHANGED row
  /\ UNCHANGED <<exists, ocr, norm, jobs, args, silent, approval, told, faults>>

Working(c) == pc[c] = "running" /\ Behind(c) /\ copy[c].busy
Phase(c) == PhaseFor[copy[c].status]

\* _PHASE_SUBMIT: normalization names the latest OCR run, and fails without one.
Submit(c) ==
  LET run == IF Phase(c) = "extraction" THEN 0 ELSE ocr
      new == [phase |-> Phase(c), run |-> run, state |-> "running"]
  IN
  /\ Working(c) /\ job[c] = 0
  /\ Phase(c) = "normalization" => ocr > 0
  /\ \/ \E j \in InFlight(Phase(c), run) :
          /\ job' = [job EXCEPT ![c] = j]
          /\ UNCHANGED jobs
     \/ /\ InFlight(Phase(c), run) = {}
        /\ jobs' = Append(jobs, new)
        /\ job' = [job EXCEPT ![c] = Len(jobs) + 1]
  /\ UNCHANGED <<statement, pc, target, poll, retries, copy, silent, approval, told, faults>>

\* The AI service refuses the submission or the status query.
ServiceFails(c) ==
  /\ Working(c)
  /\ Goto(c, "failing")
  /\ UNCHANGED <<statement, jobs, args, copy, silent, approval, told, faults>>

JobState(c) == jobs[job[c]].state
Polling(c) == Working(c) /\ job[c] # 0

PollSucceeded(c) ==
  /\ Polling(c) /\ JobState(c) = "succeeded"
  /\ Goto(c, "succeeded")
  /\ UNCHANGED <<statement, jobs, args, copy, silent, approval, told, faults>>

\* The job failed, or this was the last poll of the phase.
PollFailed(c) ==
  /\ Polling(c)
  /\ \/ JobState(c) = "failed"
     \/ JobState(c) = "running" /\ poll[c] >= MaxPolls
  /\ Goto(c, "failing")
  /\ UNCHANGED <<statement, jobs, args, copy, silent, approval, told, faults>>

StillRunning(c) == Polling(c) /\ JobState(c) = "running" /\ poll[c] < MaxPolls

\* Mutant: max_retries=None on the task.
RetryUnlimited(c) ==
  /\ StillRunning(c)
  /\ Goto(c, "queued")
  /\ poll' = [poll EXCEPT ![c] = @ + 1]
  /\ retries' = [retries EXCEPT ![c] = @ + 1]
  /\ copy' = [copy EXCEPT ![c] = NoCopy]
  /\ UNCHANGED <<statement, jobs, target, job, silent, approval, told, faults>>

\* Mutant: a fresh delay() in place of self.retry(): both counts start again.
RetryAfresh(c) ==
  /\ StillRunning(c)
  /\ Goto(c, "queued")
  /\ copy' = [copy EXCEPT ![c] = NoCopy]
  /\ UNCHANGED <<statement, jobs, args, silent, approval, told, faults>>

\* self.retry(): the task goes back to the broker with its job and poll count;
\* Celery counts the retries of the task over both phases.
Retry(c) ==
  /\ StillRunning(c) /\ retries[c] < MaxPolls
  /\ Goto(c, "queued")
  /\ poll' = [poll EXCEPT ![c] = @ + 1]
  /\ retries' = [retries EXCEPT ![c] = @ + 1]
  /\ copy' = [copy EXCEPT ![c] = NoCopy]
  /\ UNCHANGED <<statement, jobs, target, job, silent, approval, told, faults>>

\* self.retry() raises MaxRetriesExceededError instead, with retry_pending
\* already TRUE, so that the finally block stays silent.
RetriesExceeded(c) ==
  /\ StillRunning(c) /\ retries[c] >= MaxPolls
  /\ Goto(c, "raised")
  /\ silent' = [silent EXCEPT ![c] = TRUE]
  /\ UNCHANGED <<statement, jobs, args, copy, approval, told, faults>>

\* The broker refuses the retried message: self.retry() raises Reject.
RetryRefused(c) ==
  /\ StillRunning(c) /\ retries[c] < MaxPolls /\ faults < MaxFaults
  /\ faults' = faults + 1
  /\ Goto(c, "raised")
  /\ silent' = [silent EXCEPT ![c] = TRUE]
  /\ UNCHANGED <<statement, jobs, args, copy, approval, told>>

\* Mutant: no foreign key guards the creation.
RecordUnguarded(c) ==
  /\ pc[c] = "succeeded"
  /\ Goto(c, "recorded")
  /\ ocr' = IF Phase(c) = "extraction" THEN ocr + 1 ELSE ocr
  /\ norm' = IF Phase(c) = "normalization" THEN norm + 1 ELSE norm
  /\ UNCHANGED <<exists, row, jobs, args, copy, silent, approval, told, faults>>

\* A finalizer creates the row of its phase.  The result of a job of the other
\* phase lacks the keys it reads, and a deleted statement fails the foreign key.
Record(c) ==
  /\ pc[c] = "succeeded"
  /\ IF Present /\ jobs[job[c]].phase = Phase(c)
     THEN /\ Goto(c, "recorded")
          /\ ocr' = IF Phase(c) = "extraction" THEN ocr + 1 ELSE ocr
          /\ norm' = IF Phase(c) = "normalization" THEN norm + 1 ELSE norm
     ELSE Goto(c, "raised") /\ UNCHANGED <<ocr, norm>>
  /\ UNCHANGED <<exists, row, jobs, args, copy, silent, approval, told, faults>>

\* Mutant: the phase is taken for the status it leads to.
AdvancedToPhase(c) ==
  copy' = [copy EXCEPT ![c] = [status |-> Phase(c), busy |-> FALSE, failed |-> None]]

\* What a finalizer makes of the copy before it saves it.
Advanced(c) ==
  copy' = [copy EXCEPT ![c] =
             [status |-> StatusAfter[Phase(c)], busy |-> FALSE, failed |-> None]]

\* Mutant: the diagnosis of an earlier failure is left in place.
FinalizeKeepsFailure(c) ==
  /\ pc[c] = "recorded" /\ Present
  /\ row' = [row EXCEPT !.status = StatusAfter[Phase(c)], !.is_processing = FALSE,
                        !.account = @ \/ Phase(c) = "normalization"]
  /\ Advanced(c)
  /\ Goto(c, "running")
  /\ job' = [job EXCEPT ![c] = 0]
  /\ poll' = [poll EXCEPT ![c] = 0]
  /\ UNCHANGED <<exists, ocr, norm, jobs, target, retries, silent, approval, told, faults>>

\* Mutant: job_id is not reset for the next phase.
FinalizeKeepsJob(c) ==
  /\ pc[c] = "recorded" /\ Present
  /\ row' = [status |-> StatusAfter[Phase(c)], is_processing |-> FALSE,
             failure_reason |-> FALSE, failed_phase |-> None,
             account |-> row.account \/ Phase(c) = "normalization"]
  /\ Advanced(c)
  /\ Goto(c, "running")
  /\ UNCHANGED <<exists, ocr, norm, jobs, args, silent, approval, told, faults>>

\* The finalizer saves the status its copy implies, whatever the row says now;
\* normalization also saves the account it resolved.  The loop goes on.
Finalize(c) ==
  /\ pc[c] = "recorded" /\ Present
  /\ row' = [status |-> StatusAfter[Phase(c)], is_processing |-> FALSE,
             failure_reason |-> FALSE, failed_phase |-> None,
             account |-> row.account \/ Phase(c) = "normalization"]
  /\ Advanced(c)
  /\ Goto(c, "running")
  /\ job' = [job EXCEPT ![c] = 0]
  /\ poll' = [poll EXCEPT ![c] = 0]
  /\ UNCHANGED <<exists, ocr, norm, jobs, target, retries, silent, approval, told, faults>>

\* A database error in a finalizer's create, or in its save (always, once the
\* row is gone).
FinalizerRaises(c) ==
  /\ \/ pc[c] = "succeeded" /\ UNCHANGED copy
     \/ pc[c] = "recorded" /\ Advanced(c)
  /\ Goto(c, "raised")
  /\ UNCHANGED <<statement, jobs, args, silent, approval, told, faults>>

\* Mutant: the flag stays up.
FailPhaseKeepsFlag(c) ==
  /\ pc[c] = "failing" /\ Present
  /\ copy' = [copy EXCEPT ![c].failed = Phase(c)]
  /\ row' = [row EXCEPT !.failure_reason = TRUE, !.failed_phase = Phase(c)]
  /\ Goto(c, "finishing")
  /\ UNCHANGED <<exists, ocr, norm, jobs, args, silent, approval, told, faults>>

\* _fail_phase(); the save raises when the row is gone.
FailPhase(c) ==
  /\ pc[c] = "failing"
  /\ copy' = [copy EXCEPT ![c].failed = Phase(c), ![c].busy = FALSE]
  /\ \/ /\ Present
        /\ row' = [row EXCEPT !.failure_reason = TRUE, !.failed_phase = Phase(c),
                              !.is_processing = FALSE]
        /\ Goto(c, "finishing")
     \/ ~Present /\ Goto(c, "raised") /\ UNCHANGED row
  /\ UNCHANGED <<exists, ocr, norm, jobs, args, silent, approval, told, faults>>

\* Mutant: only failures are published.
LeaveOnlyFailures(c) ==
  /\ End(c)
  /\ told' = IF copy[c].failed = None THEN told ELSE copy[c]

\* The last step of a call: the finally block publishes the copy it holds,
\* unless retry_pending.
Leave(c) ==
  /\ End(c)
  /\ told' = IF silent[c] THEN told ELSE copy[c]

\* except Exception: refresh_from_db(), which itself raises on a deleted row.
HandlerRefresh(c) ==
  /\ pc[c] = "raised"
  /\ \/ /\ Present
        /\ Goto(c, "refreshed")
        /\ copy' = [copy EXCEPT ![c] =
             [status |-> row.status, busy |-> FALSE,
              failed |-> IF row.failed_phase # None THEN row.failed_phase
                         ELSE PhaseFor[row.status]]]
        /\ UNCHANGED <<args, silent, told>>
     \/ ~Present /\ Leave(c)
  /\ UNCHANGED <<statement, jobs, approval, faults>>

\* Mutant: the handler records the failure and leaves the flag up.
HandlerSaveKeepsFlag(c) ==
  /\ pc[c] = "refreshed"
  /\ row' = IF Present
            THEN [row EXCEPT !.failure_reason = TRUE, !.failed_phase = copy[c].failed]
            ELSE row
  /\ Leave(c)
  /\ UNCHANGED <<exists, ocr, norm, jobs, approval, faults>>

\* ... then the save of the failure, and the finally block after it.
HandlerSave(c) ==
  /\ pc[c] = "refreshed"
  /\ row' = IF Present
            THEN [row EXCEPT !.is_processing = FALSE, !.failure_reason = TRUE,
                             !.failed_phase = copy[c].failed]
            ELSE row
  /\ Leave(c)
  /\ UNCHANGED <<exists, ocr, norm, jobs, approval, faults>>

Publish(c) ==
  /\ pc[c] = "finishing"
  /\ Leave(c)
  /\ UNCHANGED <<statement, jobs, approval, faults>>

-----------------------------------------------------------------------------
(* Faults: the broker refuses the task, or the worker process is killed    *)
(* (Celery acknowledges a message when it takes it, so the task is lost).  *)

Lost(c) ==
  /\ pc[c] \in {"validated", "marked"} \cup WorkerPC
  /\ faults < MaxFaults
  /\ faults' = faults + 1
  /\ End(c)
  /\ UNCHANGED <<statement, jobs, approval, told>>

-----------------------------------------------------------------------------
WebStep(c) == Mark(c) \/ Enqueue(c)

WorkerStep(c) ==
  \/ Fetch(c) \/ TargetReached(c) \/ Remark(c)
  \/ Submit(c) \/ ServiceFails(c)
  \/ PollSucceeded(c) \/ PollFailed(c) \/ Retry(c) \/ RetriesExceeded(c)
  \/ Record(c) \/ Finalize(c) \/ FinalizerRaises(c) \/ FailPhase(c)
  \/ HandlerRefresh(c) \/ HandlerSave(c) \/ Publish(c)

Next ==
  \/ \E c \in Calls, t \in Targets : Upload(c, t) \/ Patch(c, t)
  \/ \E c \in Calls : WebStep(c) \/ WorkerStep(c) \/ RetryRefused(c) \/ Lost(c)
  \/ \E a \in Approvals :
       \/ \E override \in BOOLEAN : ReviewBegin(a, override)
       \/ ReviewCommit(a) \/ ReviewAbort(a)
  \/ \E j \in DOMAIN jobs, o \in {"succeeded", "failed"} : JobEnds(j, o)
  \/ Delete
  \/ AccountDeleted

Spec == Init /\ [][Next]_vars

\* A web thread finishes the request it serves and the worker keeps taking and
\* running tasks.  Clients owe no request and the AI service no answer.
Fairness == \A c \in Calls : WF_vars(WebStep(c)) /\ WF_vars(WorkerStep(c))

FairSpec == Spec /\ Fairness

-----------------------------------------------------------------------------
(* What holds whatever the clients do                                      *)

\* A status is reached only with the rows of its phases in place: the OCR
\* result from extracted on, the normalized transactions from normalized on;
\* nothing is left of a deleted statement.  (The finalizers create the artifact
\* before they save the status, and a foreign key guards the creation.)
ArtifactsMatchStatus ==
  /\ Rank[row.status] >= 1 /\ Present => ocr > 0
  /\ Rank[row.status] >= 2 /\ Present => norm > 0
  /\ ~Present => ocr = 0 /\ norm = 0

\* However phases and retries follow one another, a task is put back at most
\* MAX_POLL_ATTEMPTS times, and never polls a phase more often than it was
\* put back (process_statement_pipeline resets poll_attempt between phases,
\* Celery never resets its count).
PollBudgetHolds ==
  \A c \in Calls : poll[c] <= retries[c] /\ retries[c] <= MaxPolls

\* Every task that was queued ends, even if the AI service never answers: the
\* poll budget of process_statement_pipeline ends it.
CallsEnd == \A c \in Calls : pc[c] = "queued" ~> pc[c] = "done"

-----------------------------------------------------------------------------
(* What the is_processing flag is for                                      *)

\* The calls that still have a write to the row ahead of them because they set
\* the flag: from the save in advance_statement_to() to the save that clears it.
Engaged(c) ==
  \/ pc[c] \in {"marked", "queued"}
  \/ pc[c] \in WorkerPC \ {"running", "finishing"}
  \/ pc[c] = "running" /\ Behind(c)

\* Never two calls at work on one statement (validate_advance: the flag "guards
\* against two overlapping callers ... re-running the same phase concurrently").
ProcessingIsExclusive ==
  \A c, d \in Calls : Engaged(c) /\ Engaged(d) => c = d

\* The flag is up while a call is at work (ProcessingMeansRunning: and only then).
FlagWhileEngaged == Present => \A c \in Calls : Engaged(c) => row.is_processing

\* models/statements/file.py: is_processing is "True only while a phase runner
\* is actively executing".
ProcessingMeansRunning ==
  Present /\ row.is_processing => \E c \in Calls : Engaged(c)

\* A task polls, and finalizes, a job of the phase the statement is in.
JobFitsPhase ==
  \A c \in Calls :
    /\ pc[c] \in {"running", "succeeded", "recorded"} /\ job[c] # 0
         => jobs[job[c]].phase = Phase(c)
    /\ pc[c] \in {"succeeded", "recorded"} /\ Present
         => copy[c].status = row.status

\* The failure shown is the failure of the phase that has to be retried: a
\* success of the phase (_finalize_*_phase) or the approval clears it.
DiagnosisFitsStatus ==
  row.failed_phase # None => row.failed_phase = PhaseFor[row.status]

\* The status moves forward one phase at a time, whatever task writes it.
StatusOnlyAdvances ==
  [][row.status' # row.status => Rank[row.status'] = Rank[row.status] + 1]_row

\* Once no call is under way the last statement_status event agrees with the
\* row (process_statement_pipeline publishes "on every terminal outcome").
ClientToldOutcome ==
  (Present /\ row.status # "approved"
   /\ (\A c \in Calls : pc[c] \in {"idle", "done"})
   /\ (\E c \in Calls : pc[c] = "done"))
  => told = [status |-> row.status, busy |-> row.is_processing,
             failed |-> row.failed_phase]

\* ... at least when the phase succeeded: whoever waits for the event of a
\* success is never left waiting (Leave, after Finalize).
SuccessTold == row.failed_phase = None => ClientToldOutcome

-----------------------------------------------------------------------------
(* The life cycle a statement's owner is promised                          *)

Lifecycle == INSTANCE StatementLifecycle WITH
  stage <- IF exists = "present" THEN row.status ELSE exists,
  processing <- Present /\ row.is_processing,
  failure <- IF Present THEN row.failed_phase ELSE None

\* Every save of the row is a step of the life cycle, and what it promises
\* about the end of processing is kept.
LifecycleImplemented == Lifecycle!Spec

=============================================================================
